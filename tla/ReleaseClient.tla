---------------------------- MODULE ReleaseClient ----------------------------
(***************************************************************************)
(* The GitHub release client of orchestrator/github_release.py as the      *)
(* status API uses it: one GitHubReleaseClient object, its caches and its  *)
(* re-entrant lock, shared by the request threads of a ThreadingHTTPServer.*)
(* A thread inside a method is at one of the stages below; a stage ends    *)
(* where the method blocks (the lock, the network) or touches shared       *)
(* state, so TLC sees every interleaving the interpreter can produce.      *)
(*                                                                         *)
(* A release is the number of its publication; a release object GitHub     *)
(* serves may lack required fields, which is a fact about that release     *)
(* (Untagged, Unlisted).  Error texts and notes are left out.              *)
(***************************************************************************)
EXTENDS Integers

CONSTANTS
  Threads,     \* request threads of the server
  MaxRelease,  \* bound on the releases GitHub publishes
  Current,     \* the running version: a release, or 0 when it is none of them
  Ttl,         \* cache_ttl, in clock ticks
  MaxTime,     \* bound on the monotonic clock
  Untagged,    \* releases whose object lacks tag_name
  Unlisted,    \* releases with an invalid assets list or no published_at
  Free         \* value of the lock when no thread holds it

None  == 0     \* Python's None where a release is expected
Never == -1    \* Python's None where a time is expected

Releases == 1..MaxRelease
Known    == Releases \cup {None}
Times    == 0..MaxTime

\* The constructor refuses a cache_ttl that is not positive.
ASSUME TtlAssumption     == Ttl \in Nat \ {0}
ASSUME BoundsAssumption  == MaxRelease \in Nat /\ MaxTime \in Nat
ASSUME CurrentAssumption == Current \in Known
ASSUME DefectAssumption  == Untagged \subseteq Releases /\ Unlisted \subseteq Releases
ASSUME FreeAssumption    == Free \notin Threads

Methods == {"check_updates", "get_release_info", "get_release_changes"}

\* The methods that answer from the last good release when a refresh fails.
Resilient == {"check_updates", "get_release_changes"}

Stages == {"idle", "latest", "request", "response", "degraded", "info", "fetch",
           "store", "returned"}

\* The stages at which a thread holds _cache_lock across a step.
Locked == {"request", "response"}

NoReply == [kind |-> "none", version |-> None, update |-> FALSE]
Replies == [kind : {"none", "ok", "degraded", "error", "dropped"},
            version : Known, update : BOOLEAN]

VARIABLES
  published,     \* GitHub: the latest release
  supersededAt,  \* history: when each release stopped being the latest
  clock,         \* the client's monotonic clock
  release,       \* _release_cache
  info,          \* _release_info_cache: the release it describes
  lastAttempt,   \* _last_attempt_at
  lastError,     \* _last_error is not None
  lock,          \* owner of _cache_lock
  pc,            \* per thread: the stage of its call
  method,        \* per thread: the method it called
  now,           \* per thread: the clock it read under the lock
  got,           \* per thread: the release object it works on, None for a failure
  reply,         \* per thread: what the call returned or raised
  floor          \* history, per thread: the cached release when it called

github == <<published, supersededAt>>
cache  == <<release, info, lastAttempt, lastError>>
local  == <<method, now, got, floor>>
vars   == <<github, clock, cache, lock, pc, local, reply>>

Init ==
  /\ published = None
  /\ supersededAt = [r \in Known |-> Never]
  /\ clock = 0
  /\ release = None /\ info = None
  /\ lastAttempt = Never /\ lastError = FALSE
  /\ lock = Free
  /\ pc     = [t \in Threads |-> "idle"]
  /\ method = [t \in Threads |-> "check_updates"]
  /\ now    = [t \in Threads |-> 0]
  /\ got    = [t \in Threads |-> None]
  /\ reply  = [t \in Threads |-> NoReply]
  /\ floor  = [t \in Threads |-> None]

-----------------------------------------------------------------------------
(* GitHub and the clock *)

\* A new release becomes the latest one.
Publish ==
  /\ published < MaxRelease
  /\ published' = published + 1
  /\ supersededAt' = [supersededAt EXCEPT ![published] = clock]
  /\ UNCHANGED <<clock, cache, lock, pc, local, reply>>

Tick ==
  /\ clock < MaxTime
  /\ clock' = clock + 1
  /\ UNCHANGED <<github, cache, lock, pc, local, reply>>

-----------------------------------------------------------------------------
(* How a call ends *)

Goto(t, stage) == pc' = [pc EXCEPT ![t] = stage]

Return(t, answer) ==
  /\ Goto(t, "returned")
  /\ reply' = [reply EXCEPT ![t] = answer]

Raised  == [NoReply EXCEPT !.kind = "error"]     \* an OrchestratorError
Dropped == [NoReply EXCEPT !.kind = "dropped"]   \* any other exception

Tag(r) == IF r \in Untagged THEN None ELSE r

\* check_updates and get_release_changes once _latest_release returned r.  (A
\* missing html_url fails check_updates as a missing tag_name does; left out.)
Answer(t, r) ==
  IF r \in Untagged THEN Raised
  ELSE [kind |-> "ok", version |-> r,
        update |-> method[t] = "check_updates" /\ r # Current]

\* The same methods after an error, from the release still cached: only
\* check_updates insists on its required strings.
DegradedAnswer(t, r) ==
  IF method[t] = "check_updates" /\ r \in Untagged THEN Raised
  ELSE [kind |-> "degraded", version |-> Tag(r), update |-> FALSE]

\* _latest_release returned r to its caller.
Continue(t, r) ==
  /\ got' = [got EXCEPT ![t] = r]
  /\ IF method[t] = "get_release_info"
     THEN Goto(t, "info") /\ UNCHANGED reply
     ELSE Return(t, Answer(t, r))

\* _latest_release raised an OrchestratorError to its caller.
Fail(t) ==
  /\ UNCHANGED got
  /\ IF method[t] \in Resilient
     THEN Goto(t, "degraded") /\ UNCHANGED reply
     ELSE Return(t, Raised)

-----------------------------------------------------------------------------
(* _latest_release *)

Call(t, m) ==
  /\ pc[t] \in {"idle", "returned"}
  /\ method' = [method EXCEPT ![t] = m]
  /\ floor' = [floor EXCEPT ![t] = release]
  /\ reply' = [reply EXCEPT ![t] = NoReply]
  /\ now' = [now EXCEPT ![t] = 0]
  /\ got' = [got EXCEPT ![t] = None]
  /\ Goto(t, "latest")
  /\ UNCHANGED <<github, clock, cache, lock>>

\* Mutant: a failed attempt is not remembered, only a successful one.
FreshAfterSuccess == lastAttempt # Never /\ ~lastError /\ clock - lastAttempt < Ttl

Fresh == lastAttempt # Never /\ clock - lastAttempt < Ttl

\* Within the TTL the last attempt decides: its error, or the release it found.
ServeFromCache(t) ==
  /\ pc[t] = "latest" /\ lock = Free
  /\ Fresh
  /\ now' = [now EXCEPT ![t] = clock]
  /\ IF lastError \/ release = None THEN Fail(t) ELSE Continue(t, release)
  /\ UNCHANGED <<github, clock, cache, lock, method, floor>>

\* Mutant: the lock is not held during the request.
StartRequestUnlocked(t) ==
  /\ pc[t] = "latest" /\ lock = Free
  /\ ~Fresh
  /\ now' = [now EXCEPT ![t] = clock]
  /\ Goto(t, "request")
  /\ UNCHANGED <<github, clock, cache, lock, method, got, floor, reply>>

\* Otherwise the thread asks GitHub, and keeps the lock while it waits.
StartRequest(t) ==
  /\ pc[t] = "latest" /\ lock = Free
  /\ ~Fresh
  /\ now' = [now EXCEPT ![t] = clock]
  /\ lock' = t
  /\ Goto(t, "request")
  /\ UNCHANGED <<github, clock, cache, method, got, floor, reply>>

\* GitHub serves its latest release, or the request fails: no release yet,
\* rate limit, timeout, a body that is no JSON object.
Respond(t) ==
  /\ pc[t] = "request"
  /\ \E r \in {published, None} : got' = [got EXCEPT ![t] = r]
  /\ Goto(t, "response")
  /\ UNCHANGED <<github, clock, cache, lock, method, now, floor, reply>>

\* Mutant: the lock is acquired without a with statement, and an exception that
\* no clause catches leaves it taken.
BreakRequestLocked(t) ==
  /\ pc[t] = "request"
  /\ Return(t, Dropped)
  /\ UNCHANGED <<github, clock, cache, lock, local>>

\* A failure of http.client that is no OSError (a truncated body, a bad status
\* line) passes every except clause: the lock is released, nothing recorded.
BreakRequest(t) ==
  /\ pc[t] = "request"
  /\ lock' = Free
  /\ Return(t, Dropped)
  /\ UNCHANGED <<github, clock, cache, local>>

\* Mutant: the attempt is dated when it ends, not when it began.
StoreReleaseLate(t) ==
  /\ pc[t] = "response" /\ got[t] # None
  /\ release' = got[t]
  /\ info' = None
  /\ lastAttempt' = clock
  /\ lastError' = FALSE
  /\ lock' = Free
  /\ Continue(t, got[t])
  /\ UNCHANGED <<github, clock, method, now, floor>>

StoreRelease(t) ==
  /\ pc[t] = "response" /\ got[t] # None
  /\ release' = got[t]
  /\ info' = None
  /\ lastAttempt' = now[t]
  /\ lastError' = FALSE
  /\ lock' = Free
  /\ Continue(t, got[t])
  /\ UNCHANGED <<github, clock, method, now, floor>>

\* Mutant: a failure empties the release cache.
StoreFailureForgetting(t) ==
  /\ pc[t] = "response" /\ got[t] = None
  /\ release' = None
  /\ lastAttempt' = now[t]
  /\ lastError' = TRUE
  /\ lock' = Free
  /\ Fail(t)
  /\ UNCHANGED <<github, clock, info, method, now, floor>>

\* Mutant: a failure records when the next attempt may be made.
StoreFailureAhead(t) ==
  /\ pc[t] = "response" /\ got[t] = None
  /\ lastAttempt' = now[t] + Ttl
  /\ lastError' = TRUE
  /\ lock' = Free
  /\ Fail(t)
  /\ UNCHANGED <<github, clock, release, info, method, now, floor>>

StoreFailure(t) ==
  /\ pc[t] = "response" /\ got[t] = None
  /\ lastAttempt' = now[t]
  /\ lastError' = TRUE
  /\ lock' = Free
  /\ Fail(t)
  /\ UNCHANGED <<github, clock, release, info, method, now, floor>>

\* The except clause of a resilient method takes the lock again to read the cache.
Degrade(t) ==
  /\ pc[t] = "degraded" /\ lock = Free
  /\ got' = [got EXCEPT ![t] = release]
  /\ Return(t, DegradedAnswer(t, release))
  /\ UNCHANGED <<github, clock, cache, lock, method, now, floor>>

-----------------------------------------------------------------------------
(* get_release_info, once it has the release *)

InfoAnswer(r) == [kind |-> "ok", version |-> r, update |-> FALSE]

\* The cached document, whichever release it was made for.
ServeInfo(t) ==
  /\ pc[t] = "info" /\ lock = Free
  /\ info # None
  /\ Return(t, InfoAnswer(info))
  /\ UNCHANGED <<github, clock, cache, lock, local>>

\* No document: the assets are read and SHA256SUMS is fetched without the lock.
ReadAssets(t) ==
  /\ pc[t] = "info" /\ lock = Free
  /\ info = None
  /\ IF got[t] \in Unlisted
     THEN Return(t, Raised)
     ELSE Goto(t, "fetch") /\ UNCHANGED reply
  /\ UNCHANGED <<github, clock, cache, lock, local>>

\* SHA256SUMS arrived and parsed (or the release has none), then the required
\* strings are read.
FetchChecksums(t) ==
  /\ pc[t] = "fetch"
  /\ IF got[t] \in Untagged
     THEN Return(t, Raised)
     ELSE Goto(t, "store") /\ UNCHANGED reply
  /\ UNCHANGED <<github, clock, cache, lock, local>>

\* The request failed or the file is malformed; bytes that are not UTF-8, like
\* a truncated body, raise an exception nobody catches.
FetchFails(t) ==
  /\ pc[t] = "fetch"
  /\ \E answer \in {Raised, Dropped} : Return(t, answer)
  /\ UNCHANGED <<github, clock, cache, lock, local>>

\* The document is cached for whoever asks next; the release cache may have
\* moved on since the release was read.
StoreInfo(t) ==
  /\ pc[t] = "store" /\ lock = Free
  /\ info' = got[t]
  /\ Return(t, InfoAnswer(got[t]))
  /\ UNCHANGED <<github, clock, release, lastAttempt, lastError, lock, local>>

-----------------------------------------------------------------------------
Step(t) ==
  \/ ServeFromCache(t) \/ StartRequest(t)
  \/ Respond(t) \/ BreakRequest(t)
  \/ StoreRelease(t) \/ StoreFailure(t) \/ Degrade(t)
  \/ ServeInfo(t) \/ ReadAssets(t)
  \/ FetchChecksums(t) \/ FetchFails(t) \/ StoreInfo(t)

Next ==
  \/ Publish
  \/ Tick
  \/ \E t \in Threads : Step(t) \/ \E m \in Methods : Call(t, m)

Spec == Init /\ [][Next]_vars

-----------------------------------------------------------------------------
(* Properties *)

TypeOK ==
  /\ published \in Known
  /\ supersededAt \in [Known -> Times \cup {Never}]
  /\ clock \in Times
  /\ release \in Known /\ info \in Known
  /\ lastAttempt \in Times \cup {Never} /\ lastError \in BOOLEAN
  /\ lock \in Threads \cup {Free}
  /\ pc \in [Threads -> Stages]
  /\ method \in [Threads -> Methods]
  /\ now \in [Threads -> Times]
  /\ got \in [Threads -> Known]
  /\ reply \in [Threads -> Replies]
  /\ floor \in [Threads -> Known]

\* r was still GitHub's latest release at time s or later.
LatestSince(r, s) ==
  r \in Releases /\ r <= published /\ (supersededAt[r] = Never \/ supersededAt[r] >= s)

Answered(t, kinds) ==
  pc[t] = "returned" /\ reply[t].kind \in kinds /\ method[t] \in Resilient

\* However many threads ask at once, one request for the latest release is
\* under way at a time: a refresh is never doubled, and the two answers of two
\* refreshes can never be stored in the wrong order.
SingleFlight ==
  \A s, t \in Threads : pc[s] \in Locked /\ pc[t] \in Locked => s = t

\* Bounded staleness: an answer that is not marked degraded names a release
\* that was GitHub's latest less than Ttl before the call read the clock,
\* however slow the network and whoever filled the cache.
FreshAnswers ==
  \A t \in Threads :
    Answered(t, {"ok"}) => LatestSince(reply[t].version, now[t] - Ttl + 1)

\* Answers never go back: a call, degraded or not, is answered from a release
\* at least as new as the one cached when it started.  Neither a failed refresh
\* nor a slow response loses or replaces the last good release.
MonotoneAnswers ==
  \A t \in Threads : Answered(t, {"ok", "degraded"}) => got[t] >= floor[t]

\* GitHub is spared: a recorded attempt, successful or not, is followed by
\* another one only after the TTL.
AttemptsSpaced ==
  [][lastAttempt' # lastAttempt /\ lastAttempt # Never
       => lastAttempt' - lastAttempt >= Ttl]_vars
=============================================================================
