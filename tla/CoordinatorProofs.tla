--------------------------- MODULE CoordinatorProofs ---------------------------
(***************************************************************************)
(* What the integration shows, proved for any number of releases, requests *)
(* and restarts, from nothing but the promise of the API.                  *)
(***************************************************************************)
EXTENDS Coordinator, TLAPS

\* No older release is answered to a request that has not looked yet.
Horizon == Newer(known, base)

\* Releases: what the process knows is not older than what GitHub served at its start.
KnownInv ==
  /\ base <= published /\ known <= published
  /\ known # None => known >= base

\* A closed slot is empty, and a good answer to a question is what the request saw.
SlotInv ==
  \A s \in Slots :
    /\ Idle(s) => saw[s] = Unseen /\ answer[s] = Pending
    /\ Arrived(s) /\ asked[s] \in Questions
         => saw[s] # Unseen /\ answer[s].latest = saw[s]

\* Nothing that was seen, shown or found is past the horizon.
HorizonInv ==
  /\ \A s \in Slots : saw[s] <= Horizon
  /\ status <= Horizon /\ seen <= Horizon /\ found <= Horizon /\ missed <= Horizon

\* v is a release at least as new as r, or names none.
NotOlder(v, r) == v \in {Unseen, None} \/ v >= r

\* The running refresh: its status is not older than what is shown or than what the
\* checks before it found; its changes are not older than its status.
RefreshInv ==
  /\ status # None => entry # "none" /\ asked["refresh"] = "get_changes"
  /\ NotOlder(status, seen)
  /\ NotOlder(status, found)
  /\ asked["refresh"] = "get_status" =>
       /\ NotOlder(saw["refresh"], seen)
       /\ NotOlder(saw["refresh"], found)
  /\ asked["refresh"] = "get_changes" => NotOlder(saw["refresh"], status)

\* The release shown is the newest that was.
NewestInv == NotOlder(data["get_status"], seen)

ShownInv == EntitiesHaveData /\ ChangesNotOlder /\ CheckIsShown /\ NewestInv

CInv == CTypeOK /\ KnownInv /\ SlotInv /\ HorizonInv /\ RefreshInv /\ ShownInv

other == <<entry, status, shown, checks>>

-----------------------------------------------------------------------------
(* Types *)

LEMMA Numbers ==
  /\ Known \subseteq Nat /\ None \in Known /\ Unseen \notin Known
  /\ Releases = Known \ {None}
  BY ReleaseAssumption DEF Known, Releases, None, Unseen

LEMMA NewerKnown ==
  \A a \in Known, b \in Known \cup {Unseen} : Newer(a, b) \in Known /\ Newer(b, a) \in Known
  <1> SUFFICES ASSUME NEW a \in Known, NEW b \in Known \cup {Unseen}
               PROVE  Newer(a, b) \in Known /\ Newer(b, a) \in Known
    OBVIOUS
  <1>1. CASE b \in Known
    BY <1>1 DEF Newer
  <1>2. CASE b = Unseen
    <2>1. a \in Nat
      BY Numbers
    <2> QED
      BY <1>2, <2>1 DEF Newer, Unseen
  <1> QED
    BY <1>1, <1>2

LEMMA Answers ==
  /\ Pending.kind = "pending" /\ Failed.kind = "failed"
  /\ \A v \in Known : Good(v).kind = "good" /\ Good(v).latest = v
  BY DEF Pending, Failed, Good

\* What a good answer holds.
LEMMA GoodLatest ==
  ASSUME CTypeOK, NEW s \in Slots, Arrived(s)
  PROVE  answer[s].latest \in Known
  BY Answers DEF CTypeOK, Arrived

LEMMA AnswerTypes ==
  /\ Pending \in {Pending, Failed} \cup {Good(r) : r \in Known}
  /\ Failed \in {Pending, Failed} \cup {Good(r) : r \in Known}
  /\ \A v \in Known : Good(v) \in {Pending, Failed} \cup {Good(r) : r \in Known}
  OBVIOUS

\* The steps of the promise keep the types of its variables.
LEMMA ApiTypes ==
  ASSUME CTypeOK, NEW s \in Slots, NEW r \in Routes,
         Publish \/ Learn \/ Restart \/ Serve(s) \/ Close(s) \/ Ask(s, r)
  PROVE  /\ {published', base', known'} \subseteq Known
         /\ asked' \in [Slots -> Routes \cup {"none"}]
         /\ saw' \in [Slots -> Known \cup {Unseen}]
         /\ answer' \in [Slots -> {Pending, Failed} \cup {Good(v) : v \in Known}]
  <1> DEFINE A == {Pending, Failed} \cup {Good(v) : v \in Known}
  <1> USE Numbers DEF CTypeOK
  <1>1. CASE Publish
    BY <1>1, ReleaseAssumption DEF Publish, Known, Releases, None
  <1>2. CASE Learn
    BY <1>2 DEF Learn
  <1>3. CASE Restart
    BY <1>3, AnswerTypes DEF Restart
  <1>4. CASE Close(s) \/ Ask(s, r)
    BY <1>4, AnswerTypes DEF Close, Ask
  <1>5. CASE Look(s)
    <2>1. known' \in Known
      BY <1>5 DEF Look
    <2> QED
      BY <1>5, <2>1 DEF Look
  <1>6. CASE Reply(s)
    <2>1. asked[s] \in Questions => saw[s] \in Known
      BY <1>6 DEF Reply
    <2>2. PICK v \in Known : answer' = [answer EXCEPT ![s] = Good(v)]
      BY <1>6, <2>1 DEF Reply
    <2> QED
      BY <1>6, <2>2, AnswerTypes DEF Reply
  <1>7. CASE Fail(s)
    BY <1>7, AnswerTypes DEF Fail
  <1> QED
    BY <1>1, <1>2, <1>3, <1>4, <1>5, <1>6, <1>7 DEF Serve

LEMMA DataTypes ==
  /\ NoData \notin Data
  /\ \A a, b \in Known : [q \in Questions |-> IF q = "get_status" THEN a ELSE b] \in Data
  BY Numbers DEF Data, NoData, Questions

\* The requests and answers of the integration: each is a step of the promise, but a
\* check whose answer starts a refresh, which is two.
CheckStarts == PressEnds /\ asked["press"] = "get_status" /\ Started(answer["press"].latest)
PressCloses == PressEnds /\ ~CheckStarts

Opens  == FlowStarts \/ RefreshStarts \/ (CooldownEnds /\ debouncer = "due")
          \/ \E r \in Pressed : Press(r)
Closes == FlowEnds \/ ChangesArrive \/ RefreshFails \/ PressCloses \/ PressErrs

CooldownOver == CooldownEnds /\ debouncer = "cooldown"

\* A press that ends without a refresh of its own.
LEMMA PressLeaves ==
  ASSUME PressCloses
  PROVE  /\ Close("press") /\ UNCHANGED <<entry, status, shown, found>>
         /\ \/ missed' = missed
            \/ asked["press"] = "get_status" /\ missed' = Newer(missed, answer["press"].latest)
         /\ \/ debouncer' = debouncer /\ ~Idle("refresh")
            \/ debouncer' = "due"
            \/ debouncer' = debouncer /\ UNCHANGED missed
  BY DEF PressCloses, CheckStarts, PressEnds, Dropped, Deferred, checks

LEMMA OpensAsk ==
  ASSUME Opens
  PROVE  \E s \in Slots, r \in Routes : Ask(s, r)
  BY SlotsAssumption
  DEF Opens, FlowStarts, RefreshStarts, CooldownEnds, Press, Pressed, Routes, Questions, Commands

LEMMA ClosesClose ==
  ASSUME Closes
  PROVE  \E s \in Slots : Close(s)
  BY SlotsAssumption, PressLeaves
  DEF Closes, FlowEnds, ChangesArrive, RefreshFails, PressErrs, Errs

\* The steps of the API itself and of the requests it serves.
ApiStep == Publish \/ Learn \/ Restart \/ \E s \in Slots : Serve(s)

LEMMA Cases ==
  ASSUME [CNext]_cvars
  PROVE  \/ ApiStep /\ UNCHANGED other
         \/ Opens \/ Closes \/ CheckStarts \/ CooldownOver \/ StatusArrives \/ Unload
         \/ UNCHANGED cvars
  BY DEF CNext, RefreshEnds, ApiStep, Opens, Closes, PressCloses, CooldownOver, CooldownEnds, other

LEMMA TypeNext == CTypeOK /\ [CNext]_cvars => CTypeOK'
  <1> SUFFICES ASSUME CTypeOK, [CNext]_cvars PROVE CTypeOK'
    OBVIOUS
  <1> DEFINE ApiType ==
        /\ {published, base, known} \subseteq Known
        /\ asked \in [Slots -> Routes \cup {"none"}]
        /\ saw \in [Slots -> Known \cup {Unseen}]
        /\ answer \in [Slots -> {Pending, Failed} \cup {Good(r) : r \in Known}]
      RestType ==
        /\ {status, seen, found} \subseteq Known
        /\ entry \in {"none", "created", "loaded"}
        /\ data \in Data \cup {NoData}
        /\ success \in BOOLEAN /\ missed \in Known \cup {Unseen}
        /\ debouncer \in {"off", "running", "cooldown", "due"}
  <1>0. CTypeOK /\ "refresh" \in Slots /\ "press" \in Slots
    BY SlotsAssumption
  <1>1. CASE ApiStep /\ UNCHANGED other
    <2>1. ApiType'
      BY <1>1, SlotsAssumption, ApiTypes DEF ApiStep, Routes, Questions
    <2> QED
      BY <1>1, <2>1 DEF CTypeOK, other, shown, checks
  <1>2. CASE Opens
    <2>1. ApiType'
      BY <1>2, OpensAsk, ApiTypes
    <2>2. RestType'
      <3>1. found' \in {found, Newer(found, missed)} /\ missed' \in {missed, Unseen}
            /\ debouncer' \in {debouncer, "off", "running"}
        BY <1>2 DEF Opens, FlowStarts, RefreshStarts, CooldownEnds, Follow, Press, checks
      <3>2. UNCHANGED <<entry, status, shown>>
        BY <1>2 DEF Opens, FlowStarts, RefreshStarts, CooldownEnds, Press
      <3>3. Newer(found, missed) \in Known
        BY NewerKnown DEF CTypeOK
      <3> QED
        BY <3>1, <3>2, <3>3 DEF CTypeOK, shown
    <2> QED
      BY <2>1, <2>2 DEF CTypeOK
  <1>3. CASE Closes
    <2>1. ApiType'
      BY <1>3, ClosesClose, ApiTypes DEF Routes, Questions
    <2>2. CASE FlowEnds \/ PressErrs
      BY <2>1, <2>2 DEF CTypeOK, FlowEnds, PressErrs, shown, checks
    <2>3. CASE RefreshFails
      BY <2>1, <2>3, Numbers DEF CTypeOK, RefreshFails, CoolsDown
    <2>4. CASE PressCloses
      <3>1. answer["press"].latest \in Known
        BY <1>0, <2>4, GoodLatest DEF PressCloses, PressEnds
      <3> QED
        BY <2>1, <2>4, <3>1, PressLeaves, NewerKnown DEF CTypeOK, shown
    <2>5. CASE ChangesArrive
      <3>1. answer["refresh"].latest \in Known
        BY <1>0, <2>5, GoodLatest DEF ChangesArrive
      <3> QED
        BY <2>1, <2>5, <3>1, DataTypes, Numbers DEF CTypeOK, ChangesArrive, Newer, CoolsDown
    <2> QED
      BY <1>3, <2>2, <2>3, <2>4, <2>5 DEF Closes
  <1>4. CASE StatusArrives
    <2>1. answer["refresh"].latest \in Known
      BY <1>0, <1>4, GoodLatest DEF StatusArrives
    <2> QED
      BY <1>4, <2>1, AnswerTypes DEF CTypeOK, StatusArrives, shown, checks, Routes, Questions
  <1>5. CASE Unload
    BY <1>5, AnswerTypes, Numbers DEF CTypeOK, Unload
  <1>6. CASE UNCHANGED cvars
    BY <1>6 DEF CTypeOK, cvars, api, shown, checks
  <1>7. CASE CheckStarts
    <2>1. answer["press"].latest \in Known
      BY <1>0, <1>7, GoodLatest DEF CheckStarts, PressEnds
    <2>2. Newer(found, Newer(missed, answer["press"].latest)) \in Known
      BY <2>1, NewerKnown DEF CTypeOK
    <2>3. /\ UNCHANGED <<published, base, known, entry, status, shown>>
          /\ asked'  = [asked EXCEPT !["press"] = "none", !["refresh"] = "get_status"]
          /\ saw'    = [saw EXCEPT !["press"] = Unseen]
          /\ answer' = [answer EXCEPT !["press"] = Pending]
          /\ debouncer' = "running" /\ missed' = Unseen /\ found' \in Known
      BY <1>7, <2>2 DEF CheckStarts, PressEnds, Started
    <2> QED
      BY <1>0, <2>3, AnswerTypes DEF CTypeOK, shown, Routes, Questions
  <1>8. CASE CooldownOver
    BY <1>8 DEF CTypeOK, CooldownOver, CooldownEnds, api, shown
  <1> QED
    BY <1>1, <1>2, <1>3, <1>4, <1>5, <1>6, <1>7, <1>8, Cases

-----------------------------------------------------------------------------
(* The process and the requests *)

LEMMA KnownNext ==
  CTypeOK /\ KnownInv /\ [CNext]_cvars => KnownInv' /\ Horizon' >= Horizon
  <1> SUFFICES ASSUME CTypeOK, KnownInv, [CNext]_cvars
               PROVE  KnownInv' /\ Horizon' >= Horizon
    OBVIOUS
  <1> USE Numbers DEF KnownInv, Horizon, Newer
  <1>0. {published, base, known} \subseteq Nat
    BY DEF CTypeOK
  <1>1. CASE ApiStep
    <2>1. CASE Publish
      BY <1>0, <2>1 DEF Publish
    <2>2. CASE Learn \/ \E s \in Slots : Look(s)
      <3>1. UNCHANGED <<published, base>> /\ (known' = known \/ (known' \in Releases /\ Learnt(known')))
        BY <2>2 DEF Learn, Look
      <3> QED
        BY <1>0, <3>1 DEF Learnt
    <2>3. CASE Restart
      BY <1>0, <2>3 DEF Restart, None
    <2>4. CASE \E s \in Slots : Reply(s) \/ Fail(s)
      BY <1>0, <2>4 DEF Reply, Fail
    <2> QED
      BY <1>1, <2>1, <2>2, <2>3, <2>4 DEF ApiStep, Serve
  <1>2. CASE ~ApiStep
    <2>1. UNCHANGED <<published, base, known>>
      BY <1>2, Cases, OpensAsk, ClosesClose
      DEF Ask, Close, CheckStarts, Started, CooldownOver, CooldownEnds, StatusArrives, Unload,
          cvars, api
    <2> QED
      BY <1>0, <2>1
  <1> QED
    BY <1>1, <1>2

\* A request that looks sees a release that is not before the horizon, or none.
LEMMA LookSees ==
  ASSUME CTypeOK, KnownInv, NEW s \in Slots, Look(s)
  PROVE  /\ saw'[s] \in Known /\ NotOlder(saw'[s], Horizon) /\ saw'[s] <= Horizon'
         /\ saw[s] = Unseen /\ Open(s)
         /\ \A t \in Slots \ {s} : saw'[t] = saw[t]
  <1>1. known' \in Known /\ base' = base /\ {known, base} \subseteq Nat
    BY Numbers DEF CTypeOK, Look
  <1>2. saw' = [saw EXCEPT ![s] = known'] \/ saw' = [saw EXCEPT ![s] = None]
    BY DEF Look
  <1>3. saw'[s] \in {known', None} /\ \A t \in Slots \ {s} : saw'[t] = saw[t]
    BY <1>2 DEF CTypeOK
  <1>4. known' = None \/ (known' >= known /\ known' >= base)
    BY <1>1, Numbers DEF Look, Learnt, KnownInv
  <1>5. saw[s] = Unseen /\ Open(s)
    BY DEF Look
  <1> QED
    BY <1>1, <1>3, <1>4, <1>5, Numbers DEF NotOlder, Horizon, Newer, None

LEMMA SlotNext == CTypeOK /\ SlotInv /\ [CNext]_cvars => SlotInv'
  <1> SUFFICES ASSUME CTypeOK, SlotInv, [CNext]_cvars PROVE SlotInv'
    OBVIOUS
  <1> USE Numbers, Answers DEF SlotInv, Idle, Arrived
  <1>1. CASE ApiStep /\ UNCHANGED other
    <2>1. CASE Publish \/ Learn
      BY <2>1 DEF Publish, Learn
    <2>2. CASE Restart
      BY <2>2 DEF Restart, Open, CTypeOK
    <2>3. ASSUME NEW s \in Slots, Look(s) PROVE SlotInv'
      BY <2>3 DEF Look, Open, CTypeOK
    <2>4. ASSUME NEW s \in Slots, Reply(s) PROVE SlotInv'
      <3>1. answer[s] = Pending /\ asked[s] # "none" /\ UNCHANGED <<asked, saw>>
        BY <2>4 DEF Reply, Open
      <3>2. CASE asked[s] \in Questions
        <4>1. saw[s] \in Known /\ answer' = [answer EXCEPT ![s] = Good(saw[s])]
          BY <2>4, <3>2 DEF Reply, CTypeOK
        <4> QED
          BY <3>1, <3>2, <4>1 DEF CTypeOK
      <3>3. CASE asked[s] \notin Questions
        BY <2>4, <3>1, <3>3 DEF Reply, CTypeOK
      <3> QED
        BY <3>2, <3>3
    <2>5. ASSUME NEW s \in Slots, Fail(s) PROVE SlotInv'
      BY <2>5 DEF Fail, Open, CTypeOK
    <2> QED
      BY <1>1, <2>1, <2>2, <2>3, <2>4, <2>5 DEF ApiStep, Serve
  <1>2. CASE Opens
    <2>1. PICK s \in Slots, r \in Routes : Ask(s, r)
      BY <1>2, OpensAsk
    <2> QED
      BY <2>1 DEF Ask, CTypeOK
  <1>3. CASE Closes
    <2>1. PICK s \in Slots : Close(s)
      BY <1>3, ClosesClose
    <2> QED
      BY <2>1 DEF Close, CTypeOK
  <1>4. CASE StatusArrives
    BY <1>4 DEF StatusArrives, CTypeOK
  <1>5. CASE Unload
    BY <1>5 DEF Unload
  <1>6. CASE UNCHANGED cvars
    BY <1>6 DEF cvars, api
  <1>7. CASE CheckStarts
    BY <1>7, SlotsAssumption DEF CheckStarts, PressEnds, Started, CTypeOK
  <1>8. CASE CooldownOver
    BY <1>8 DEF CooldownOver, CooldownEnds, api
  <1> QED
    BY <1>1, <1>2, <1>3, <1>4, <1>5, <1>6, <1>7, <1>8, Cases

-----------------------------------------------------------------------------
(* What is shown *)

Base == CTypeOK /\ KnownInv /\ SlotInv

\* A refresh or a check that is answered got what its request saw.
LEMMA AnswerSeen ==
  ASSUME Base, NEW s \in Slots, Arrived(s), asked[s] \in Questions
  PROVE  answer[s].latest = saw[s] /\ saw[s] \in Known
  BY DEF Base, SlotInv, CTypeOK

LEMMA HorizonNext == Base /\ HorizonInv /\ [CNext]_cvars => HorizonInv'
  <1> SUFFICES ASSUME Base, HorizonInv, [CNext]_cvars PROVE HorizonInv'
    OBVIOUS
  <1> USE DEF HorizonInv
  <1>0a. Horizon' >= Horizon /\ CTypeOK'
    BY KnownNext, TypeNext DEF Base
  <1>0. /\ Horizon' >= Horizon /\ Horizon \in Nat /\ Horizon' \in Nat
        /\ {status, seen, found} \subseteq Nat
        /\ missed \in Nat \cup {Unseen}
        /\ \A s \in Slots : saw[s] \in Nat \cup {Unseen}
    BY <1>0a, Numbers DEF Base, CTypeOK, Horizon, Newer
  <1> HIDE DEF Horizon
  <1>1. CASE ApiStep /\ UNCHANGED other
    <2>1. CASE \E s \in Slots : Look(s)
      BY <1>0, <1>1, <2>1, LookSees, Numbers DEF Base, other, shown, checks, Unseen
    <2>2. CASE UNCHANGED saw
      BY <1>0, <1>1, <2>2 DEF other, shown, checks, Unseen
    <2> QED
      BY <1>1, <2>1, <2>2 DEF ApiStep, Publish, Learn, Restart, Serve, Reply, Fail
  <1>2. CASE Opens
    <2>1. found' \in {found, Newer(found, missed)} /\ missed' \in {missed, Unseen}
      BY <1>2 DEF Opens, FlowStarts, RefreshStarts, CooldownEnds, Follow, Press, checks
    <2>2. UNCHANGED <<status, seen, saw>>
      BY <1>2 DEF Opens, FlowStarts, RefreshStarts, CooldownEnds, Press, Ask, shown
    <2>3. found' <= Horizon /\ missed' <= Horizon
      BY <1>0, <2>1 DEF Newer, Unseen
    <2>4. found' \in Nat /\ missed' \in Nat \cup {Unseen}
      BY <1>0, <2>1 DEF Newer, Unseen
    <2> QED
      BY <1>0, <2>2, <2>3, <2>4 DEF Unseen
  <1>3. CASE Closes
    <2>1. \A s \in Slots : saw'[s] <= Horizon'
      <3>1. PICK s \in Slots : Close(s)
        BY <1>3, ClosesClose
      <3> QED
        BY <1>0, <3>1 DEF Close, Base, CTypeOK, Unseen
    <2>2. CASE FlowEnds \/ PressErrs \/ RefreshFails
      BY <1>0, <2>1, <2>2
      DEF FlowEnds, PressErrs, RefreshFails, CoolsDown, shown, checks, None, Unseen
    <2>3. CASE ChangesArrive
      BY <1>0, <2>1, <2>3 DEF ChangesArrive, CoolsDown, Newer, None, Unseen
    <2>4. CASE PressCloses
      <3>1. asked["press"] = "get_status"
              => answer["press"].latest <= Horizon /\ answer["press"].latest \in Nat
        BY <2>4, AnswerSeen, SlotsAssumption, Numbers DEF PressCloses, PressEnds, Questions
      <3>2. missed' <= Horizon' /\ UNCHANGED <<status, seen, found>>
        BY <1>0, <2>4, <3>1, PressLeaves DEF Newer, Unseen, shown
      <3> QED
        BY <1>0, <2>1, <3>2
    <2> QED
      BY <1>3, <2>2, <2>3, <2>4 DEF Closes
  <1>4. CASE StatusArrives
    <2>1. status' = saw["refresh"]
      BY <1>4, AnswerSeen, SlotsAssumption DEF StatusArrives, Questions
    <2>2. \A s \in Slots : saw'[s] \in {saw[s], Unseen}
      BY <1>4 DEF StatusArrives, Base, CTypeOK
    <2>3. UNCHANGED <<seen, found, missed>> /\ "refresh" \in Slots
      BY <1>4, SlotsAssumption DEF StatusArrives, shown, checks
    <2> QED
      BY <1>0, <2>1, <2>2, <2>3 DEF Unseen
  <1>5. CASE Unload
    BY <1>0, <1>5 DEF Unload, None, Unseen
  <1>6. CASE UNCHANGED cvars
    BY <1>0, <1>6 DEF cvars, api, shown, checks, Unseen
  <1>7. CASE CheckStarts
    <2>1. answer["press"].latest <= Horizon /\ answer["press"].latest \in Nat
      BY <1>7, AnswerSeen, SlotsAssumption, Numbers DEF CheckStarts, PressEnds, Questions
    <2>2. /\ found' = Newer(found, Newer(missed, answer["press"].latest)) /\ missed' = Unseen
          /\ UNCHANGED <<status, seen>> /\ saw' = [saw EXCEPT !["press"] = Unseen]
      BY <1>7 DEF CheckStarts, PressEnds, Started, shown
    <2>3. found' <= Horizon /\ found' \in Nat
      BY <1>0, <2>1, <2>2 DEF Newer, Unseen
    <2>4. \A s \in Slots : saw'[s] \in {saw[s], Unseen}
      BY <2>2 DEF Base, CTypeOK
    <2> QED
      BY <1>0, <2>2, <2>3, <2>4 DEF Unseen
  <1>8. CASE CooldownOver
    BY <1>0, <1>8 DEF CooldownOver, CooldownEnds, api, shown, Unseen
  <1> QED
    BY <1>1, <1>2, <1>3, <1>4, <1>5, <1>6, <1>7, <1>8, Cases

LEMMA RefreshNext == Base /\ HorizonInv /\ RefreshInv /\ [CNext]_cvars => RefreshInv'
  <1> SUFFICES ASSUME Base, HorizonInv, RefreshInv, [CNext]_cvars PROVE RefreshInv'
    OBVIOUS
  <1> USE DEF RefreshInv
  <1>0. /\ "refresh" \in Slots /\ "press" \in Slots
        /\ {status, seen, found} \subseteq Nat
        /\ Horizon \in Nat /\ status <= Horizon /\ seen <= Horizon /\ found <= Horizon
    BY SlotsAssumption, Numbers DEF Base, CTypeOK, HorizonInv, Horizon, Newer
  <1>1. CASE ApiStep /\ UNCHANGED other
    <2>1. ASSUME NEW s \in Slots, Look(s) PROVE RefreshInv'
      <3>1. asked' = asked /\ UNCHANGED <<entry, status, seen, found>>
        BY <1>1, <2>1 DEF Look, other, shown, checks
      <3>2. saw'["refresh"] = saw["refresh"]
            \/ (saw'["refresh"] \in Nat /\ NotOlder(saw'["refresh"], Horizon))
        BY <1>0, <2>1, LookSees, Numbers DEF Base
      <3>3. CASE saw'["refresh"] = saw["refresh"]
        BY <3>1, <3>3 DEF NotOlder
      <3>4. CASE saw'["refresh"] \in Nat /\ NotOlder(saw'["refresh"], Horizon)
        BY <1>0, <3>1, <3>4 DEF NotOlder
      <3> QED
        BY <3>2, <3>3, <3>4
    <2>2. CASE UNCHANGED <<asked, saw>>
      BY <1>1, <2>2 DEF other, shown, checks, NotOlder
    <2> QED
      BY <1>1, <2>1, <2>2 DEF ApiStep, Publish, Learn, Restart, Serve, Reply, Fail
  <1>2. CASE Opens
    <2>1. CASE \E r \in Pressed : Press(r)
      BY <2>1, <1>0 DEF Press, Ask, shown, checks, NotOlder, Base, CTypeOK
    <2>2. CASE FlowStarts \/ RefreshStarts \/ (CooldownEnds /\ debouncer = "due")
      <3>1. asked["refresh"] = "none" /\ asked'["refresh"] = "get_status"
            /\ saw'["refresh"] = Unseen /\ UNCHANGED status
        BY <1>0, <2>2
        DEF FlowStarts, RefreshStarts, CooldownEnds, Ask, Base, SlotInv, Idle, CTypeOK
      <3>2. status = None
        BY <3>1
      <3> QED
        BY <3>1, <3>2 DEF NotOlder
    <2> QED
      BY <1>2, <2>1, <2>2 DEF Opens
  <1>3. CASE Closes
    <2>1. CASE FlowEnds \/ RefreshFails
      <3>1. asked'["refresh"] = "none" /\ status' = None
        BY <1>0, <2>1 DEF FlowEnds, RefreshFails, Errs, Close, Arrived, Base, CTypeOK
      <3> QED
        BY <3>1 DEF NotOlder
    <2>2. CASE ChangesArrive
      BY <1>0, <2>2 DEF ChangesArrive, Close, NotOlder, Base, CTypeOK
    <2>3. CASE PressErrs
      BY <1>0, <2>3 DEF PressErrs, Errs, Close, NotOlder, Base, CTypeOK, shown, checks
    <2>4. CASE PressCloses
      <3>1. /\ asked'["refresh"] = asked["refresh"] /\ saw'["refresh"] = saw["refresh"]
            /\ UNCHANGED <<entry, status, seen, found>>
        BY <1>0, <2>4, PressLeaves DEF Close, Base, CTypeOK, shown
      <3> QED
        BY <3>1 DEF NotOlder
    <2> QED
      BY <1>3, <2>1, <2>2, <2>3, <2>4 DEF Closes
  <1>4. CASE StatusArrives
    <2>1. status' = saw["refresh"] /\ asked["refresh"] = "get_status"
          /\ asked'["refresh"] = "get_changes" /\ saw'["refresh"] = Unseen
          /\ entry # "none" /\ UNCHANGED <<entry, seen, found>>
      BY <1>0, <1>4, AnswerSeen DEF StatusArrives, Questions, Base, CTypeOK, shown, checks
    <2> QED
      BY <2>1 DEF NotOlder
  <1>5. CASE Unload
    BY <1>0, <1>5 DEF Unload, NotOlder
  <1>6. CASE UNCHANGED cvars
    BY <1>6 DEF cvars, api, shown, checks, NotOlder
  <1>7. CASE CheckStarts
    <2>1. asked["refresh"] = "none" /\ asked'["refresh"] = "get_status"
          /\ saw'["refresh"] = Unseen /\ UNCHANGED status
      BY <1>0, <1>7 DEF CheckStarts, PressEnds, Started, Base, SlotInv, Idle, CTypeOK
    <2> QED
      BY <2>1 DEF NotOlder
  <1>8. CASE CooldownOver
    BY <1>8 DEF CooldownOver, CooldownEnds, api, shown, NotOlder
  <1> QED
    BY <1>1, <1>2, <1>3, <1>4, <1>5, <1>6, <1>7, <1>8, Cases

LEMMA ShownNext ==
  Base /\ RefreshInv /\ ShownInv /\ [CNext]_cvars => ShownInv'
  <1> SUFFICES ASSUME Base, RefreshInv, ShownInv, [CNext]_cvars PROVE ShownInv'
    OBVIOUS
  <1> USE DEF ShownInv, EntitiesHaveData, ChangesNotOlder, CheckIsShown, NewestInv, Idle
  <1>0. /\ "refresh" \in Slots /\ "press" \in Slots
        /\ {status, seen, found} \subseteq Nat
    BY SlotsAssumption, Numbers DEF Base, CTypeOK
  <1>1. CASE ApiStep /\ UNCHANGED other
    <2>1. asked' = asked
      BY <1>1
      DEF ApiStep, Publish, Learn, Restart, Serve, Look, Reply, Fail
    <2> QED
      BY <1>1, <2>1 DEF other, shown, checks
  <1>2. CASE Opens
    <2>1. CASE FlowStarts \/ RefreshStarts \/ (CooldownEnds /\ debouncer = "due")
      <3>1. asked'["refresh"] = "get_status" /\ UNCHANGED <<entry, data, seen>>
        BY <1>0, <2>1 DEF FlowStarts, RefreshStarts, CooldownEnds, Ask, shown, Base, CTypeOK
      <3> QED
        BY <3>1
    <2>2. CASE \E r \in Pressed : Press(r)
      <3>1. /\ asked'["refresh"] = asked["refresh"]
            /\ UNCHANGED <<entry, shown, checks>>
        BY <1>0, <2>2 DEF Press, Ask, shown, Base, CTypeOK
      <3> QED
        BY <3>1 DEF shown, checks, NotOlder
    <2> QED
      BY <1>2, <2>1, <2>2 DEF Opens
  <1>3. CASE Closes
    <2>1. CASE FlowEnds
      <3>1. UNCHANGED <<data, seen>> /\ entry = "none" /\ entry' # "loaded"
        BY <2>1 DEF FlowEnds, shown
      <3> QED
        BY <3>1
    <2>2. CASE RefreshFails
      BY <2>2 DEF RefreshFails
    <2>3. CASE PressCloses \/ PressErrs
      <3>1. /\ asked'["refresh"] = asked["refresh"] /\ UNCHANGED <<entry, shown, found>>
            /\ debouncer' = debouncer \/ debouncer' = "due"
        BY <1>0, <2>3, PressLeaves DEF PressErrs, Errs, Close, Base, CTypeOK, checks, shown
      <3> QED
        BY <3>1 DEF shown, NotOlder
    <2>4. CASE ChangesArrive
      <3>1. /\ answer["refresh"].latest = saw["refresh"] /\ saw["refresh"] \in Known
            /\ status \in Known
        BY <1>0, <2>4, AnswerSeen DEF ChangesArrive, Questions, Base, CTypeOK
      <3>2. /\ data' \in Data
            /\ data'["get_status"] = status /\ data'["get_changes"] = saw["refresh"]
        BY <2>4, <3>1, DataTypes DEF ChangesArrive, Questions
      <3>3. NotOlder(saw["refresh"], status)
        BY <2>4 DEF ChangesArrive, RefreshInv
      <3>4. NotOlder(status, found')
        BY <2>4 DEF ChangesArrive, CoolsDown, RefreshInv
      <3>5. NotOlder(status, seen')
        BY <1>0, <2>4 DEF ChangesArrive, RefreshInv, NotOlder, Newer
      <3> QED
        BY <1>0, <3>1, <3>2, <3>3, <3>4, <3>5, Numbers, DataTypes DEF NotOlder
    <2> QED
      BY <1>3, <2>1, <2>2, <2>3, <2>4 DEF Closes
  <1>4. CASE StatusArrives
    <2>1. asked'["refresh"] = "get_changes" /\ UNCHANGED <<entry, data, seen>>
      BY <1>0, <1>4 DEF StatusArrives, shown, Base, CTypeOK
    <2> QED
      BY <2>1
  <1>5. CASE Unload
    <2>1. entry' = "created" /\ data' = NoData
      BY <1>5 DEF Unload
    <2>2. NoData["get_status"] = Unseen /\ Unseen \notin Releases
      BY Numbers DEF NoData, Questions
    <2> QED
      BY <2>1, <2>2 DEF NotOlder
  <1>6. CASE UNCHANGED cvars
    BY <1>6 DEF cvars, api, shown, checks
  <1>7. CASE CheckStarts
    <2>1. asked'["refresh"] = "get_status" /\ UNCHANGED <<entry, data, seen>>
      BY <1>0, <1>7 DEF CheckStarts, PressEnds, Started, shown, Base, CTypeOK
    <2> QED
      BY <2>1
  <1>8. CASE CooldownOver
    BY <1>8 DEF CooldownOver, CooldownEnds, api, shown, NotOlder
  <1> QED
    BY <1>1, <1>2, <1>3, <1>4, <1>5, <1>6, <1>7, <1>8, Cases

LEMMA CInvInit == CInit => CInv
  <1> SUFFICES ASSUME CInit PROVE CInv
    OBVIOUS
  <1> USE Numbers DEF CInit, Init, Idle
  <1>1. CTypeOK
    BY AnswerTypes DEF CTypeOK
  <1>2. KnownInv /\ SlotInv
    BY Answers DEF KnownInv, SlotInv, Arrived, None
  <1>3. HorizonInv
    BY DEF HorizonInv, Horizon, Newer, None, Unseen
  <1>4. RefreshInv
    BY SlotsAssumption DEF RefreshInv, NotOlder
  <1>5. ShownInv
    <2>1. NoData["get_status"] = Unseen /\ Unseen \notin Releases
      BY DEF NoData, Questions
    <2> QED
      BY <2>1 DEF ShownInv, EntitiesHaveData, ChangesNotOlder, CheckIsShown, NewestInv, NotOlder
  <1> QED
    BY <1>1, <1>2, <1>3, <1>4, <1>5 DEF CInv

LEMMA CInvNext == CInv /\ [CNext]_cvars => CInv'
  BY TypeNext, KnownNext, SlotNext, HorizonNext, RefreshNext, ShownNext DEF CInv, Base

LEMMA CInvariance == CSpec => []CInv
  BY CInvInit, CInvNext, PTL DEF CSpec

-----------------------------------------------------------------------------
(* The theorems *)

\* The types of the requests and of the integration are kept.
THEOREM IntegrationTypeCorrect == CSpec => []CTypeOK
  <1>1. CInv => CTypeOK
    BY DEF CInv
  <1> QED
    BY <1>1, CInvariance, PTL

\* async_setup_entry: the entities never meet a coordinator without data.
THEOREM DataThere == CSpec => []EntitiesHaveData
  <1>1. CInv => EntitiesHaveData
    BY DEF CInv, ShownInv
  <1> QED
    BY <1>1, CInvariance, PTL

\* _async_update_data: the two requests of a refresh never pair a status with the
\* changes of an older release, whatever happens to the API between them.
THEOREM PairConsistent == CSpec => []ChangesNotOlder
  <1>1. CInv => ChangesNotOlder
    BY DEF CInv, ShownInv
  <1> QED
    BY <1>1, CInvariance, PTL

\* async_press: once a refresh that followed a check has ended well and none is due,
\* what the check returned is shown.
THEOREM CheckShown == CSpec => []CheckIsShown
  <1>1. CInv => CheckIsShown
    BY DEF CInv, ShownInv
  <1> QED
    BY <1>1, CInvariance, PTL

\* What is shown never goes back, over restarts of the API and reloads of the entry.
THEOREM NeverBack == CSpec => NeverShownOlder
  <1>1. ASSUME CInv, [CNext]_cvars, data'["get_status"] \in Releases, data' # data
        PROVE  data'["get_status"] >= seen
    <2>1. ChangesArrive
      <3>1. NoData["get_status"] \notin Releases
        BY Numbers DEF NoData, Questions
      <3> QED
        BY <1>1, <3>1, Cases
        DEF Opens, Closes, FlowStarts, RefreshStarts, CooldownEnds, Press, FlowEnds, RefreshFails,
            PressCloses, PressEnds, PressErrs, CheckStarts, CooldownOver, StatusArrives, Unload,
            other, shown, cvars
    <2>2. data'["get_status"] = status
      BY <2>1 DEF ChangesArrive, Questions
    <2> QED
      BY <1>1, <2>2, Numbers DEF CInv, RefreshInv, NotOlder
  <1>2. ASSUME CInv, data'["get_status"] \in Releases, data' = data
        PROVE  data'["get_status"] >= seen
    BY <1>2, Numbers DEF CInv, ShownInv, NewestInv, NotOlder
  <1>3. CInv /\ [CNext]_cvars
          => [data'["get_status"] \in Releases => data'["get_status"] >= seen]_cvars
    BY <1>1, <1>2
  <1> QED
    BY <1>3, CInvariance, PTL DEF CSpec, NeverShownOlder
=============================================================================
