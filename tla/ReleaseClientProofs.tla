------------------------- MODULE ReleaseClientProofs -------------------------
(***************************************************************************)
(* What ReleaseClient promises, proved for any number of threads, any TTL  *)
(* and any bounds.                                                         *)
(***************************************************************************)
EXTENDS ReleaseClient, TLAPS

ClientAssumptions ==
  /\ Ttl \in Nat \ {0}
  /\ MaxRelease \in Nat /\ MaxTime \in Nat
  /\ Current \in Known
  /\ Untagged \subseteq Releases /\ Unlisted \subseteq Releases
  /\ Free \notin Threads

LEMMA Constants == ClientAssumptions
  BY TtlAssumption, BoundsAssumption, CurrentAssumption, DefectAssumption, FreeAssumption
     DEF ClientAssumptions

-----------------------------------------------------------------------------
(* The inductive invariant *)

\* The lock is held exactly by the thread that waits for GitHub.
LockInv == \A t \in Threads : pc[t] \in Locked <=> lock = t

\* The latest release, and those to come, are not superseded.
PublishInv == \A r \in Known : r >= published => supersededAt[r] = Never

\* The cached release is a published one, and after a successful attempt it was
\* still the latest when the attempt began.
CacheInv ==
  /\ release <= published
  /\ lastAttempt <= clock
  /\ lastAttempt # Never /\ ~lastError => LatestSince(release, lastAttempt)

\* What the thread that holds the lock knows: it may ask GitHub, and what GitHub
\* answered is not older than the cache it will replace.
RequestInv ==
  \A t \in Threads :
    /\ pc[t] \in Locked => lastAttempt = Never \/ now[t] - lastAttempt >= Ttl
    /\ pc[t] = "response" /\ got[t] # None
         => got[t] >= release /\ LatestSince(got[t], now[t])

TimeInv == \A t \in Threads : now[t] <= clock /\ floor[t] <= release

\* Only get_release_info goes on after _latest_release.
StageInv ==
  \A t \in Threads : pc[t] \in {"info", "fetch", "store"} => method[t] = "get_release_info"

IInv ==
  /\ TypeOK /\ PublishInv /\ LockInv /\ CacheInv /\ RequestInv /\ TimeInv /\ StageInv
  /\ FreshAnswers /\ MonotoneAnswers

-----------------------------------------------------------------------------
(* Type correctness *)

\* The answers are replies.
LEMMA AnswerTypes ==
  ASSUME NEW t \in Threads, NEW r \in Known, method \in [Threads -> Methods]
  PROVE  /\ Answer(t, r) \in Replies
         /\ DegradedAnswer(t, r) \in Replies
         /\ InfoAnswer(r) \in Replies
         /\ Raised \in Replies /\ Dropped \in Replies /\ NoReply \in Replies
  BY DEF Answer, DegradedAnswer, InfoAnswer, Raised, Dropped, NoReply, Replies,
         Known, None, Tag

\* Ending a call, or going on in it, keeps the types of the thread's locals.
CallTypes == /\ pc \in [Threads -> Stages] /\ method \in [Threads -> Methods]
             /\ got \in [Threads -> Known] /\ reply \in [Threads -> Replies]

LEMMA ContinueTypes ==
  ASSUME CallTypes, NEW t \in Threads, NEW r \in Known, Continue(t, r)
  PROVE  /\ pc' \in [Threads -> Stages]
         /\ got' \in [Threads -> Known] /\ reply' \in [Threads -> Replies]
  BY AnswerTypes DEF CallTypes, Continue, Return, Goto, Stages

LEMMA FailTypes ==
  ASSUME CallTypes, NEW t \in Threads, Fail(t)
  PROVE  /\ pc' \in [Threads -> Stages]
         /\ got' \in [Threads -> Known] /\ reply' \in [Threads -> Replies]
  BY AnswerTypes DEF CallTypes, Fail, Return, Goto, Stages

LEMMA TypeInit == Init => TypeOK
  <1>1. NoReply \in Replies
    BY DEF NoReply, Replies, Known, None
  <1>2. None \in Known /\ 0 \in Times
    BY Constants DEF ClientAssumptions, Known, None, Times
  <1> SUFFICES ASSUME Init PROVE TypeOK
    OBVIOUS
  <1>3. /\ published \in Known /\ release \in Known /\ info \in Known /\ clock \in Times
        /\ lastAttempt \in Times \cup {Never} /\ lastError \in BOOLEAN
        /\ lock \in Threads \cup {Free}
    BY <1>2 DEF Init
  <1>4. /\ supersededAt \in [Known -> Times \cup {Never}]
        /\ pc \in [Threads -> Stages] /\ method \in [Threads -> Methods]
        /\ now \in [Threads -> Times] /\ got \in [Threads -> Known]
        /\ reply \in [Threads -> Replies] /\ floor \in [Threads -> Known]
    BY <1>1, <1>2 DEF Init, Stages, Methods
  <1> QED
    BY <1>3, <1>4 DEF TypeOK

LEMMA TypeNext == TypeOK /\ [Next]_vars => TypeOK'
  <1> SUFFICES ASSUME TypeOK, [Next]_vars PROVE TypeOK'
    OBVIOUS
  <1> USE Constants DEF ClientAssumptions, TypeOK, Known, None, Never, Releases, Times, Stages,
                        github, cache, local
  <1>1. CASE Publish
    BY <1>1 DEF Publish
  <1>2. CASE Tick
    BY <1>2 DEF Tick
  <1>3. ASSUME NEW t \in Threads, NEW m \in Methods, Call(t, m) PROVE TypeOK'
    BY <1>3, AnswerTypes DEF Call, Goto
  <1>4. ASSUME NEW t \in Threads, Step(t) PROVE TypeOK'
    <2> USE AnswerTypes DEF Goto, Return
    <2>1. CASE ServeFromCache(t)
      <3>1. CallTypes
        BY DEF CallTypes
      <3> QED
        BY <2>1, <3>1, ContinueTypes, FailTypes DEF ServeFromCache
    <2>2. CASE StartRequest(t)
      BY <2>2 DEF StartRequest
    <2>3. CASE Respond(t)
      BY <2>3 DEF Respond
    <2>4. CASE BreakRequest(t)
      BY <2>4 DEF BreakRequest
    <2>5. CASE StoreRelease(t)
      <3>1. CallTypes /\ got[t] \in Known
        BY DEF CallTypes
      <3> QED
        BY <2>5, <3>1, ContinueTypes DEF StoreRelease
    <2>6. CASE StoreFailure(t)
      <3>1. CallTypes
        BY DEF CallTypes
      <3> QED
        BY <2>6, <3>1, FailTypes DEF StoreFailure
    <2>7. CASE Degrade(t)
      BY <2>7 DEF Degrade
    <2>8. CASE ServeInfo(t)
      BY <2>8 DEF ServeInfo
    <2>9. CASE ReadAssets(t)
      BY <2>9 DEF ReadAssets
    <2>10. CASE FetchChecksums(t)
      BY <2>10 DEF FetchChecksums
    <2>11. CASE FetchFails(t)
      BY <2>11 DEF FetchFails
    <2>12. CASE StoreInfo(t)
      BY <2>12 DEF StoreInfo
    <2> QED
      BY <1>4, <2>1, <2>2, <2>3, <2>4, <2>5, <2>6, <2>7, <2>8, <2>9, <2>10, <2>11, <2>12
         DEF Step
  <1>5. CASE UNCHANGED vars
    BY <1>5 DEF vars
  <1> QED
    BY <1>1, <1>2, <1>3, <1>4, <1>5 DEF Next

\* The types of the client's state and of every thread's locals are kept.
THEOREM TypeCorrect == Spec => []TypeOK
  BY TypeInit, TypeNext, PTL DEF Spec

-----------------------------------------------------------------------------
(* The lock, and the stages of a call *)

LEMMA LockNext == TypeOK /\ LockInv /\ StageInv /\ [Next]_vars => (LockInv /\ StageInv)'
  <1> SUFFICES ASSUME TypeOK, LockInv, StageInv, [Next]_vars PROVE (LockInv /\ StageInv)'
    OBVIOUS
  <1> USE FreeAssumption DEF TypeOK, LockInv, StageInv, Locked, Goto, Return, Methods
  <1>1. CASE Publish \/ Tick \/ UNCHANGED vars
    BY <1>1 DEF Publish, Tick, vars, local
  <1>2. ASSUME NEW t \in Threads, NEW m \in Methods, Call(t, m) PROVE (LockInv /\ StageInv)'
    BY <1>2 DEF Call
  <1>3. ASSUME NEW t \in Threads, Step(t) PROVE (LockInv /\ StageInv)'
    <2>1. CASE ServeFromCache(t)
      BY <2>1 DEF ServeFromCache, Continue, Fail, Resilient
    <2>2. CASE StartRequest(t)
      BY <2>2 DEF StartRequest
    <2>3. CASE Respond(t) \/ BreakRequest(t)
      BY <2>3 DEF Respond, BreakRequest, local
    <2>4. CASE StoreRelease(t)
      BY <2>4 DEF StoreRelease, Continue
    <2>5. CASE StoreFailure(t)
      BY <2>5 DEF StoreFailure, Fail, Resilient
    <2>6. CASE Degrade(t) \/ ServeInfo(t) \/ StoreInfo(t)
      BY <2>6 DEF Degrade, ServeInfo, StoreInfo, local
    <2>7. CASE ReadAssets(t) \/ FetchChecksums(t) \/ FetchFails(t)
      BY <2>7 DEF ReadAssets, FetchChecksums, FetchFails, local
    <2> QED
      BY <1>3, <2>1, <2>2, <2>3, <2>4, <2>5, <2>6, <2>7 DEF Step
  <1> QED
    BY <1>1, <1>2, <1>3 DEF Next

\* No two threads are ever inside a refresh.
THEOREM OneRefresh == Spec => []SingleFlight
  <1>1. Init => LockInv /\ StageInv
    BY FreeAssumption DEF Init, LockInv, StageInv, Locked
  <1>2. LockInv => SingleFlight
    BY DEF LockInv, SingleFlight
  <1> QED
    BY <1>1, <1>2, TypeInit, TypeNext, LockNext, PTL DEF Spec

-----------------------------------------------------------------------------
(* Freshness and monotonicity of the answers *)

\* What a step of one thread leaves alone: GitHub, the clock, the other threads.
Others(t) ==
  \A s \in Threads \ {t} :
    /\ pc'[s] = pc[s] /\ method'[s] = method[s] /\ reply'[s] = reply[s]
    /\ now'[s] = now[s] /\ got'[s] = got[s] /\ floor'[s] = floor[s]

LEMMA StepFrame ==
  ASSUME TypeOK, NEW t \in Threads, Step(t) \/ \E m \in Methods : Call(t, m)
  PROVE  Others(t) /\ UNCHANGED <<github, clock>>
  <1> USE DEF TypeOK, Others, Goto, Return, github, cache, local
  <1>1. CASE \E m \in Methods : Call(t, m)
    BY <1>1 DEF Call
  <1>2. CASE ServeFromCache(t) \/ StoreRelease(t) \/ StoreFailure(t)
    BY <1>2 DEF ServeFromCache, StoreRelease, StoreFailure, Continue, Fail
  <1>3. CASE StartRequest(t) \/ Respond(t) \/ BreakRequest(t) \/ Degrade(t)
    BY <1>3 DEF StartRequest, Respond, BreakRequest, Degrade
  <1>4. CASE ServeInfo(t) \/ ReadAssets(t) \/ FetchChecksums(t) \/ FetchFails(t) \/ StoreInfo(t)
    BY <1>4 DEF ServeInfo, ReadAssets, FetchChecksums, FetchFails, StoreInfo
  <1> QED
    BY <1>1, <1>2, <1>3, <1>4 DEF Step

\* Only the two ends of a refresh write the release cache.
LEMMA CacheFrame ==
  ASSUME [Next]_vars, ~ \E t \in Threads : StoreRelease(t) \/ StoreFailure(t)
  PROVE  UNCHANGED <<release, lastAttempt, lastError>>
  BY DEF Next, Publish, Tick, Step, Call, ServeFromCache, StartRequest, Respond, BreakRequest,
         Degrade, ServeInfo, ReadAssets, FetchChecksums, FetchFails, StoreInfo, vars, cache

\* Neither the clock nor the releases go back.
LEMMA TimeFrame ==
  ASSUME TypeOK, [Next]_vars
  PROVE  clock' >= clock /\ published' >= published
  <1>1. CASE UNCHANGED <<github, clock>>
    BY <1>1 DEF TypeOK, Times, Known, Releases, None, github
  <1>2. CASE Publish \/ Tick
    BY <1>2 DEF Publish, Tick, TypeOK, Times, Known, Releases, None, github
  <1> QED
    BY <1>1, <1>2, StepFrame DEF Next, vars

\* LatestSince of the next state, for values of this one.
StaysLatest(r, s) ==
  /\ r \in Releases /\ r <= published'
  /\ supersededAt'[r] = Never \/ supersededAt'[r] >= s

\* Publishing supersedes a release now, which is no earlier than any time read.
LEMMA LatestKept ==
  ASSUME TypeOK, [Next]_vars, NEW r, NEW s \in Int, s <= clock, LatestSince(r, s)
  PROVE  StaysLatest(r, s)
  <1> USE BoundsAssumption DEF LatestSince, StaysLatest, TypeOK, Known, Releases, Times, None, Never
  <1>1. CASE Publish
    BY <1>1 DEF Publish
  <1>2. CASE UNCHANGED github
    BY <1>2 DEF github
  <1> QED
    BY <1>1, <1>2, StepFrame DEF Next, Tick, vars

LEMMA PublishNext == TypeOK /\ PublishInv /\ [Next]_vars => PublishInv'
  <1> SUFFICES ASSUME TypeOK, PublishInv, [Next]_vars PROVE PublishInv'
    OBVIOUS
  <1>1. CASE Publish
    BY <1>1 DEF Publish, PublishInv, TypeOK, Known, Releases, None
  <1>2. CASE UNCHANGED github
    BY <1>2 DEF PublishInv, github
  <1> QED
    BY <1>1, <1>2, StepFrame DEF Next, Tick, vars

LEMMA IntTypes ==
  ASSUME TypeOK
  PROVE  /\ clock \in Int /\ lastAttempt \in Int /\ release \in Int /\ published \in Int
         /\ \A t \in Threads : now[t] \in Int /\ got[t] \in Int /\ floor[t] \in Int
  BY Constants DEF ClientAssumptions, TypeOK, Times, Never, Known, Releases, None

-----------------------------------------------------------------------------
(* The cache *)

LEMMA CacheNext == IInv /\ TypeOK' /\ [Next]_vars => CacheInv'
  <1> SUFFICES ASSUME IInv, TypeOK', [Next]_vars PROVE CacheInv'
    OBVIOUS
  <1> USE IntTypes, TimeFrame DEF IInv
  <1>1. CASE UNCHANGED <<release, lastAttempt, lastError>>
    <2>1. lastAttempt # Never /\ ~lastError => StaysLatest(release, lastAttempt)
      BY LatestKept DEF CacheInv
    <2>2. release' <= published' /\ lastAttempt' <= clock'
      BY <1>1 DEF CacheInv, TypeOK, Times, Known, Releases, None
    <2>3. lastAttempt' # Never /\ ~lastError' => lastAttempt # Never /\ ~lastError
      BY <1>1, Zenon
    <2> QED
      BY <1>1, <2>1, <2>2, <2>3 DEF CacheInv, StaysLatest, LatestSince
  <1>2. ASSUME NEW t \in Threads, StoreRelease(t) PROVE CacheInv'
    <2>1. StaysLatest(got[t], now[t])
      BY <1>2, LatestKept DEF StoreRelease, RequestInv, TimeInv
    <2> QED
      BY <1>2, <2>1 DEF StoreRelease, CacheInv, TimeInv, StaysLatest, LatestSince, github, Releases
  <1>3. ASSUME NEW t \in Threads, StoreFailure(t) PROVE CacheInv'
    BY <1>3 DEF StoreFailure, CacheInv, TimeInv, github
  <1> QED
    BY <1>1, <1>2, <1>3, CacheFrame

LEMMA RequestNext == IInv /\ TypeOK' /\ LockInv' /\ [Next]_vars => RequestInv'
  <1> SUFFICES ASSUME IInv, TypeOK', LockInv', [Next]_vars, NEW s \in Threads, pc'[s] \in Locked
               PROVE  /\ lastAttempt' = Never \/ now'[s] - lastAttempt' >= Ttl
                      /\ pc'[s] = "response" /\ got'[s] # None
                           => got'[s] >= release' /\ LatestSince(got[s], now[s])'
    BY DEF RequestInv, Locked
  <1> USE Constants, IntTypes DEF IInv, Locked, ClientAssumptions
  \* The thread was waiting already: it holds the lock, so the cache is unchanged.
  <1>1. CASE /\ pc[s] \in Locked /\ pc'[s] = pc[s] /\ now'[s] = now[s] /\ got'[s] = got[s]
    <2>1. UNCHANGED <<release, lastAttempt>>
      BY <1>1, CacheFrame DEF StoreRelease, StoreFailure, LockInv
    <2>2. pc[s] = "response" /\ got[s] # None => StaysLatest(got[s], now[s])
      BY LatestKept DEF RequestInv, TimeInv
    <2> QED
      BY <1>1, <2>1, <2>2 DEF RequestInv, StaysLatest, LatestSince
  <1>2. CASE StartRequest(s)
    BY <1>2 DEF StartRequest, Fresh, TypeOK, cache, Goto
  <1>3. CASE Respond(s)
    <2>1. got'[s] \in {published, None} /\ pc[s] = "request"
      BY <1>3 DEF Respond, TypeOK
    <2>2. UNCHANGED <<release, lastAttempt, published, supersededAt>> /\ now'[s] = now[s]
      BY <1>3 DEF Respond, TypeOK, cache, github
    <2>3. got'[s] # None => got'[s] >= release' /\ StaysLatest(got'[s], now'[s])
      BY <2>1, <2>2 DEF CacheInv, PublishInv, StaysLatest, TypeOK, Known, Releases, None
    <2> QED
      BY <2>1, <2>2, <2>3 DEF RequestInv, StaysLatest, LatestSince
  \* No other step puts a thread at these stages, or moves one that is there.
  <1>4. CASE ~ (StartRequest(s) \/ Respond(s))
    <2>1. ASSUME NEW t \in Threads \ {s}, Step(t) \/ \E m \in Methods : Call(t, m)
          PROVE  pc'[s] = pc[s] /\ now'[s] = now[s] /\ got'[s] = got[s]
      BY <2>1, StepFrame DEF Others
    <2>2. ~ \E m \in Methods : Call(s, m)
      BY DEF Call, Goto, TypeOK
    <2>3. ~ Step(s)
      BY <1>4 DEF Step, TypeOK, Goto, Return, Continue, Fail, ServeFromCache, BreakRequest,
             StoreRelease, StoreFailure, Degrade, ServeInfo, ReadAssets, FetchChecksums,
             FetchFails, StoreInfo
    <2> QED
      BY <1>1, <2>1, <2>2, <2>3 DEF Next, Publish, Tick, vars, local
  <1> QED
    BY <1>2, <1>3, <1>4

LEMMA TimeNext == IInv /\ TypeOK' /\ LockInv' /\ [Next]_vars => TimeInv'
  <1> SUFFICES ASSUME IInv, TypeOK', [Next]_vars, NEW s \in Threads
               PROVE  now'[s] <= clock' /\ floor'[s] <= release'
    BY DEF TimeInv
  <1> USE IntTypes, TimeFrame DEF IInv
  <1>1. release' >= release
    <2>1. ASSUME NEW t \in Threads, StoreRelease(t) PROVE release' >= release
      BY <2>1 DEF StoreRelease, RequestInv
    <2>2. ASSUME NEW t \in Threads, StoreFailure(t) PROVE release' = release
      BY <2>2 DEF StoreFailure
    <2> QED
      BY <2>1, <2>2, CacheFrame
  <1>2. CASE now'[s] = now[s] /\ floor'[s] = floor[s]
    BY <1>1, <1>2 DEF TimeInv, TypeOK, Times, Known, Releases, None
  <1>3. ASSUME NEW m \in Methods, Call(s, m) PROVE now'[s] = 0 /\ floor'[s] = release
    BY <1>3 DEF Call, TypeOK
  <1>4. ASSUME Step(s) PROVE now'[s] \in {now[s], clock} /\ floor'[s] = floor[s]
    BY <1>4 DEF Step, TypeOK, ServeFromCache, StartRequest, Respond, BreakRequest, StoreRelease,
           StoreFailure, Degrade, ServeInfo, ReadAssets, FetchChecksums, FetchFails, StoreInfo,
           local
  <1>5. ASSUME NEW t \in Threads \ {s}, Step(t) \/ \E m \in Methods : Call(t, m)
        PROVE  now'[s] = now[s] /\ floor'[s] = floor[s]
    BY <1>5, StepFrame DEF Others
  <1> QED
    BY <1>1, <1>2, <1>3, <1>4, <1>5 DEF Next, Publish, Tick, vars, local, TimeInv, TypeOK, Times,
       Known, Releases, None

-----------------------------------------------------------------------------
(* The answers *)

\* A call becomes answered, by one of the resilient methods, in three places;
\* otherwise an answered thread was answered already and nothing of it changed.
AnsweredBefore(s) ==
  /\ pc'[s] = pc[s] /\ method'[s] = method[s] /\ reply'[s] = reply[s]
  /\ now'[s] = now[s] /\ got'[s] = got[s] /\ floor'[s] = floor[s]

LEMMA AnswerFrame ==
  ASSUME TypeOK, StageInv, [Next]_vars, NEW s \in Threads, Answered(s, {"ok", "degraded"})'
  PROVE  AnsweredBefore(s) \/ ServeFromCache(s) \/ StoreRelease(s) \/ Degrade(s)
  <1> USE DEF Answered, TypeOK, AnsweredBefore
  <1>1. CASE Publish \/ Tick \/ UNCHANGED vars
    BY <1>1 DEF Publish, Tick, vars, local
  <1>2. ASSUME NEW t \in Threads \ {s}, Step(t) \/ \E m \in Methods : Call(t, m)
        PROVE  AnsweredBefore(s)
    BY <1>2, StepFrame DEF Others
  <1>3. ~ \E m \in Methods : Call(s, m)
    BY DEF Call, Goto
  <1>4. ~ (StartRequest(s) \/ Respond(s) \/ ReadAssets(s) \/ FetchChecksums(s))
    BY DEF StartRequest, Respond, ReadAssets, FetchChecksums, Goto, Return, Raised, NoReply
  <1>5. ~ (BreakRequest(s) \/ StoreFailure(s) \/ FetchFails(s))
    BY DEF BreakRequest, StoreFailure, FetchFails, Fail, Goto, Return, Raised, Dropped, NoReply
  <1>6. ~ (ServeInfo(s) \/ StoreInfo(s))
    BY DEF ServeInfo, StoreInfo, StageInv, Return, Goto, Resilient, local
  <1> QED
    BY <1>1, <1>2, <1>3, <1>4, <1>5, <1>6 DEF Next, Step

LEMMA FreshNext == IInv /\ TypeOK' /\ [Next]_vars => FreshAnswers'
  <1> SUFFICES ASSUME IInv, TypeOK', [Next]_vars, NEW s \in Threads, Answered(s, {"ok"})'
               PROVE  LatestSince(reply[s].version, now[s] - Ttl + 1)'
    BY DEF FreshAnswers
  <1> USE Constants, IntTypes DEF IInv, ClientAssumptions
  <1>1. CASE AnsweredBefore(s)
    BY <1>1, LatestKept DEF AnsweredBefore, Answered, FreshAnswers, TimeInv, StaysLatest, LatestSince
  <1>2. CASE ServeFromCache(s)
    BY <1>2 DEF ServeFromCache, Continue, Fail, Return, Goto, Answer, Raised, NoReply, Answered,
       Fresh, CacheInv, LatestSince, TypeOK, Times, Releases, Never, github
  <1>3. CASE StoreRelease(s)
    BY <1>3 DEF StoreRelease, Continue, Return, Goto, Answer, Raised, NoReply, Answered,
       RequestInv, LatestSince, TypeOK, Times, Releases, Never, github
  <1>4. CASE Degrade(s)
    BY <1>4 DEF Degrade, Return, DegradedAnswer, Raised, NoReply, Answered, TypeOK
  <1>5. Answered(s, {"ok", "degraded"})'
    BY DEF Answered
  <1> QED
    BY <1>1, <1>2, <1>3, <1>4, <1>5, AnswerFrame

LEMMA MonotoneNext == IInv /\ TypeOK' /\ [Next]_vars => MonotoneAnswers'
  <1> SUFFICES ASSUME IInv, TypeOK', [Next]_vars, NEW s \in Threads,
                      Answered(s, {"ok", "degraded"})'
               PROVE  got'[s] >= floor'[s]
    BY DEF MonotoneAnswers
  <1> USE IntTypes DEF IInv
  <1>1. CASE AnsweredBefore(s)
    BY <1>1 DEF AnsweredBefore, Answered, MonotoneAnswers
  <1>2. CASE ServeFromCache(s) \/ Degrade(s)
    BY <1>2 DEF ServeFromCache, Degrade, Continue, Fail, Return, Goto, Raised, NoReply, Answered,
       TimeInv, TypeOK, cache
  <1>3. CASE StoreRelease(s)
    BY <1>3 DEF StoreRelease, Continue, Return, Goto, RequestInv, TimeInv, TypeOK
  <1> QED
    BY <1>1, <1>2, <1>3, AnswerFrame

-----------------------------------------------------------------------------
(* The theorems *)

LEMMA InvInit == Init => IInv
  <1> SUFFICES ASSUME Init PROVE IInv
    OBVIOUS
  <1>1. TypeOK
    BY TypeInit
  <1>2. PublishInv /\ LockInv /\ StageInv /\ CacheInv
    BY <1>1, FreeAssumption DEF Init, PublishInv, LockInv, StageInv, CacheInv, Locked, Known,
       Releases, None, Never
  <1>3. RequestInv /\ TimeInv /\ FreshAnswers /\ MonotoneAnswers
    BY DEF Init, RequestInv, TimeInv, FreshAnswers, MonotoneAnswers, Answered, Locked, None
  <1> QED
    BY <1>1, <1>2, <1>3 DEF IInv

LEMMA InvNext == IInv /\ [Next]_vars => IInv'
  BY TypeNext, PublishNext, LockNext, CacheNext, RequestNext, TimeNext, FreshNext, MonotoneNext
     DEF IInv

LEMMA Invariance == Spec => []IInv
  BY InvInit, InvNext, PTL DEF Spec

\* Whatever the interleaving, an answer not marked degraded was GitHub's latest
\* release less than a TTL before the call read the clock.
THEOREM Freshness == Spec => []FreshAnswers
  BY Invariance, PTL DEF IInv

\* Answers never go back to an older release, through failures and slow responses.
THEOREM Monotonicity == Spec => []MonotoneAnswers
  BY Invariance, PTL DEF IInv

\* Recorded attempts to reach GitHub are at least a TTL apart.
THEOREM Spacing == Spec => AttemptsSpaced
  <1>1. IInv /\ [Next]_vars
          => [lastAttempt' # lastAttempt /\ lastAttempt # Never
                => lastAttempt' - lastAttempt >= Ttl]_vars
    <2> SUFFICES ASSUME IInv, [Next]_vars, lastAttempt' # lastAttempt, lastAttempt # Never
                 PROVE  lastAttempt' - lastAttempt >= Ttl
      OBVIOUS
    <2>1. PICK t \in Threads : StoreRelease(t) \/ StoreFailure(t)
      BY CacheFrame
    <2>2. lastAttempt' = now[t] /\ pc[t] \in Locked
      BY <2>1 DEF StoreRelease, StoreFailure, Locked
    <2> QED
      BY <2>2 DEF IInv, RequestInv
  <1> QED
    BY <1>1, Invariance, PTL DEF Spec, AttemptsSpaced
=============================================================================
