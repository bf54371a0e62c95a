------------------------- MODULE StatusServiceProofs -------------------------
(***************************************************************************)
(* What the status API promises, proved from what the release client it    *)
(* shares promises: every step of the service is a step of the client, or  *)
(* leaves it alone, so the client's theorems hold of the service.          *)
(***************************************************************************)
EXTENDS StatusService, ReleaseClientProofs

\* An announced update comes from a successful check.
ReplyInv ==
  \A t \in Threads :
    reply[t].update => /\ method[t] = "check_updates"
                       /\ reply[t].kind = "ok" /\ reply[t].version # Current

\* Only a thread that is done has responded.
ResponseInv == \A t \in Threads : http[t].detail = "scheduled" => stage[t] = "done"

ServiceInv ==
  IInv /\ STypeOK /\ ReplyInv /\ ResponseInv /\ OnlyFreshUpdates /\ NotesMatchAnnouncement

-----------------------------------------------------------------------------
(* The service runs the client *)

LEMMA ServiceStep == [SNext]_svars => [Next]_vars
  <1> SUFFICES ASSUME [SNext]_svars PROVE [Next]_vars
    OBVIOUS
  <1>1. CASE (Publish \/ Tick) /\ UNCHANGED service
    BY <1>1 DEF Next
  <1>2. ASSUME NEW t \in Threads, NEW r \in Operations, Receive(t, r) PROVE [Next]_vars
    BY <1>2 DEF Receive, FirstCall, Next, Methods
  <1>3. ASSUME NEW t \in Threads, Handle(t) PROVE [Next]_vars
    BY <1>3 DEF Handle, ClientStep, CallFails, StatusChecked, InfoReturned, ChangesReturned,
           UpdateChecked, PostUpdater, Next, Methods
  <1>4. CASE UNCHANGED svars
    BY <1>4 DEF svars
  <1> QED
    BY <1>1, <1>2, <1>3, <1>4 DEF SNext

\* The service is an implementation of its release client: what holds of every
\* behaviour of ReleaseClient holds here.
THEOREM ServiceImplementsClient == SSpec => Spec
  <1>1. SInit => Init
    BY DEF SInit
  <1> QED
    BY <1>1, ServiceStep, PTL DEF SSpec, Spec

-----------------------------------------------------------------------------
(* Types *)

Responses ==
  [code : {0, 200, 202, 503},
   detail : {"none", "error", "changed", "up_to_date", "scheduled"},
   latest : Known, update : BOOLEAN, changes : Known]

LEMMA ResponseTypes ==
  ASSUME NEW r \in Replies, NEW notes \in Known
  PROVE  /\ NoResponse \in Responses
         /\ StatusOf(r, notes) \in Responses
         /\ \A why \in {"error", "changed"} : Unavailable(why) \in Responses
         /\ \A m \in {"up_to_date", "scheduled"} : Accepted(m) \in Responses
  BY DEF Responses, Replies, NoResponse, StatusOf, Unavailable, Accepted, Response, Known, None

LEMMA ServiceTypeInit == SInit => STypeOK
  <1> SUFFICES ASSUME SInit PROVE STypeOK
    OBVIOUS
  <1>1. TypeOK
    BY TypeInit DEF SInit
  <1>2. NoReply \in Replies /\ NoResponse \in Responses
    BY DEF NoReply, Replies, NoResponse, Response, Responses, Known, None
  <1> QED
    BY <1>1, <1>2 DEF SInit, STypeOK, Operations, Responses

LEMMA ServiceTypeNext == STypeOK /\ [SNext]_svars => STypeOK'
  <1> SUFFICES ASSUME STypeOK, [SNext]_svars PROVE STypeOK'
    OBVIOUS
  <1>0. TypeOK'
    BY ServiceStep, TypeNext DEF STypeOK
  <1> DEFINE Types == /\ stage \in [Threads -> {"new", "calling", "posting", "done"}]
                      /\ route \in [Threads -> Operations]
                      /\ checked \in [Threads -> Replies]
                      /\ http \in [Threads -> Responses]
  <1> SUFFICES Types'
    BY <1>0 DEF STypeOK, Responses
  <1>a. Types /\ \A t \in Threads : reply[t] \in Replies /\ checked[t] \in Replies
    BY DEF STypeOK, TypeOK, Responses
  <1>b. None \in Known /\ \A r \in Replies : r.version \in Known
    BY DEF Known, None, Replies
  <1>1. ASSUME NEW t \in Threads, NEW r \in Operations, Receive(t, r) PROVE Types'
    BY <1>a, <1>1 DEF Receive
  <1>2. ASSUME NEW t \in Threads, Handle(t) PROVE Types'
    <2> USE <1>a, <1>b, ResponseTypes DEF Finish
    <2>1. CASE ClientStep(t)
      BY <2>1 DEF ClientStep, service
    <2>2. CASE CallFails(t)
      BY <2>2 DEF CallFails
    <2>3. CASE StatusChecked(t)
      BY <2>3 DEF StatusChecked
    <2>4. CASE InfoReturned(t)
      BY <2>4 DEF InfoReturned
    <2>5. CASE ChangesReturned(t)
      BY <2>5 DEF ChangesReturned
    <2>6. CASE UpdateChecked(t)
      BY <2>6 DEF UpdateChecked
    <2>7. CASE PostUpdater(t)
      BY <2>7 DEF PostUpdater
    <2> QED
      BY <1>2, <2>1, <2>2, <2>3, <2>4, <2>5, <2>6, <2>7 DEF Handle
  <1>3. CASE UNCHANGED service
    BY <1>a, <1>3 DEF service
  <1> QED
    BY <1>1, <1>2, <1>3 DEF SNext, svars

\* The types of the client and of the service are kept.
THEOREM ServiceTypeCorrect == SSpec => []STypeOK
  BY ServiceTypeInit, ServiceTypeNext, PTL DEF SSpec

-----------------------------------------------------------------------------
(* Announcements and notes *)

LEMMA NotesNext == STypeOK /\ NotesMatchAnnouncement /\ [SNext]_svars => NotesMatchAnnouncement'
  <1> SUFFICES ASSUME STypeOK, NotesMatchAnnouncement, [SNext]_svars
               PROVE  NotesMatchAnnouncement'
    OBVIOUS
  <1> USE DEF STypeOK, NotesMatchAnnouncement
  <1>1. ASSUME NEW t \in Threads, NEW response, Finish(t, response),
               response.code = 200 /\ response.update => response.changes = response.latest
        PROVE  NotesMatchAnnouncement'
    BY <1>1 DEF Finish
  <1>2. CASE UNCHANGED http
    BY <1>2
  <1>3. ASSUME NEW t \in Threads, Handle(t), ~UNCHANGED http PROVE NotesMatchAnnouncement'
    <2> USE DEF NoResponse, StatusOf, Unavailable, Accepted, Response
    <2>1. CASE CallFails(t) \/ PostUpdater(t) \/ UpdateChecked(t)
      BY <1>1, <1>3, <2>1 DEF CallFails, PostUpdater, UpdateChecked
    <2>2. CASE StatusChecked(t)
      BY <1>1, <1>3, <2>2 DEF StatusChecked
    <2>3. CASE InfoReturned(t)
      BY <1>1, <2>3 DEF InfoReturned
    <2>4. CASE ChangesReturned(t)
      BY <1>1, <2>4 DEF ChangesReturned
    <2> QED
      BY <1>3, <2>1, <2>2, <2>3, <2>4 DEF Handle, ClientStep, service
  <1> QED
    BY <1>2, <1>3 DEF SNext, Receive, svars, service

\* A status that announces an update carries the notes of that very release.
THEOREM Announcements == SSpec => []NotesMatchAnnouncement
  <1>1. SInit => NotesMatchAnnouncement
    BY DEF SInit, NotesMatchAnnouncement, NoResponse, Response
  <1> QED
    BY <1>1, NotesNext, ServiceTypeInit, ServiceTypeNext, PTL DEF SSpec

-----------------------------------------------------------------------------
(* Updates *)

\* A call starts without a reply, and only an answer to check_updates is given
\* with an update.
LEMMA ReplyNext == TypeOK /\ StageInv /\ ReplyInv /\ [Next]_vars => ReplyInv'
  <1> SUFFICES ASSUME TypeOK, StageInv, ReplyInv, [Next]_vars,
                      NEW s \in Threads, reply'[s].update
               PROVE  /\ method'[s] = "check_updates"
                      /\ reply'[s].kind = "ok" /\ reply'[s].version # Current
    BY DEF ReplyInv
  <1> USE DEF TypeOK, Goto, Return, local
  <1>1. CASE reply'[s] = reply[s] /\ method'[s] = method[s]
    BY <1>1 DEF ReplyInv
  <1>2. CASE \E m \in Methods : Call(s, m)
    BY <1>2 DEF Call, NoReply
  <1>3. CASE ServeFromCache(s) \/ StoreRelease(s) \/ StoreFailure(s)
    <2>1. ASSUME NEW r, reply'[s] = Answer(s, r)
          PROVE  /\ method[s] = "check_updates"
                 /\ reply'[s].kind = "ok" /\ reply'[s].version # Current
      <3>1. r \notin Untagged
        BY <2>1 DEF Answer, Raised, NoReply
      <3>2. Answer(s, r) = [kind |-> "ok", version |-> r,
                            update |-> method[s] = "check_updates" /\ r # Current]
        BY <3>1 DEF Answer
      <3>3. reply'[s].kind = "ok" /\ reply'[s].version = r
        BY <2>1, <3>2
      <3>4. method[s] = "check_updates" /\ r # Current
        <4>1. SUFFICES ASSUME ~(method[s] = "check_updates" /\ r # Current) PROVE FALSE
          OBVIOUS
        <4>2. (method[s] = "check_updates" /\ r # Current) = FALSE
          BY <4>1
        <4>3. Answer(s, r) = [kind |-> "ok", version |-> r, update |-> FALSE]
          BY <3>2, <4>2, Zenon
        <4> QED
          BY <2>1, <4>3
      <3> QED
        BY <3>3, <3>4
    <2>2. \/ reply'[s] \in {reply[s], Raised}
          \/ \E r : reply'[s] = Answer(s, r)
      BY <1>3 DEF ServeFromCache, StoreRelease, StoreFailure, Continue, Fail
    <2>3. method'[s] = method[s]
      BY <1>3 DEF ServeFromCache, StoreRelease, StoreFailure
    <2> QED
      BY <1>1, <2>1, <2>2, <2>3 DEF Raised, NoReply
  <1>4. CASE StartRequest(s) \/ Respond(s) \/ BreakRequest(s) \/ Degrade(s)
    BY <1>1, <1>4 DEF StartRequest, Respond, BreakRequest, Degrade, DegradedAnswer, Raised,
       Dropped, NoReply
  <1>5. CASE ServeInfo(s) \/ ReadAssets(s) \/ FetchChecksums(s) \/ FetchFails(s) \/ StoreInfo(s)
    BY <1>1, <1>5 DEF ServeInfo, ReadAssets, FetchChecksums, FetchFails, StoreInfo, InfoAnswer,
       Raised, Dropped, NoReply
  <1>6. ASSUME NEW t \in Threads \ {s}, Step(t) \/ \E m \in Methods : Call(t, m)
        PROVE  reply'[s] = reply[s] /\ method'[s] = method[s]
    BY <1>6, StepFrame DEF Others
  <1>7. CASE Publish \/ Tick \/ UNCHANGED vars
    BY <1>1, <1>7 DEF Publish, Tick, vars
  <1> QED
    BY <1>1, <1>2, <1>3, <1>4, <1>5, <1>6, <1>7 DEF Next, Step

\* A thread that has left the client keeps what it decided on.
LEMMA DecisionKept ==
  ASSUME STypeOK, [SNext]_svars, NEW s \in Threads, stage[s] \in {"posting", "done"}
  PROVE  /\ now'[s] = now[s] /\ checked'[s] = checked[s] /\ route'[s] = route[s]
         /\ stage'[s] \in {"posting", "done"}
  <1> USE DEF STypeOK, TypeOK
  <1>1. CASE (Publish \/ Tick) /\ UNCHANGED service
    BY <1>1 DEF Publish, Tick, service, local
  <1>2. ASSUME NEW t \in Threads, NEW r \in Operations, Receive(t, r)
        PROVE  /\ now'[s] = now[s] /\ checked'[s] = checked[s] /\ route'[s] = route[s]
               /\ stage'[s] = stage[s]
    BY <1>2, StepFrame DEF Receive, FirstCall, Methods, Others, vars, local
  <1>3. ASSUME NEW t \in Threads, Handle(t), t # s
        PROVE  /\ now'[s] = now[s] /\ checked'[s] = checked[s] /\ route'[s] = route[s]
               /\ stage'[s] = stage[s]
    <2>1. now'[s] = now[s]
      BY <1>3, StepFrame DEF Handle, ClientStep, CallFails, StatusChecked, InfoReturned,
         ChangesReturned, UpdateChecked, PostUpdater, Methods, Others, vars, local
    <2> QED
      BY <1>3, <2>1 DEF Handle, ClientStep, CallFails, StatusChecked, InfoReturned,
         ChangesReturned, UpdateChecked, PostUpdater, Finish, service
  <1>4. CASE Handle(s)
    <2>1. PostUpdater(s)
      BY <1>4 DEF Handle, ClientStep, CallFails, StatusChecked, InfoReturned, ChangesReturned,
         UpdateChecked, Returned
    <2> QED
      BY <2>1 DEF PostUpdater, Finish, vars, local
  <1>5. CASE UNCHANGED svars
    BY <1>5 DEF svars, vars, service, local
  <1> QED
    BY <1>1, <1>2, <1>3, <1>4, <1>5 DEF SNext

LEMMA ResponseNext == STypeOK /\ ResponseInv /\ [SNext]_svars => ResponseInv'
  <1> SUFFICES ASSUME STypeOK, ResponseInv, [SNext]_svars PROVE ResponseInv'
    OBVIOUS
  <1> USE DEF STypeOK, ResponseInv
  <1>1. ASSUME NEW t \in Threads, NEW response, Finish(t, response) PROVE ResponseInv'
    BY <1>1 DEF Finish
  <1>2. CASE UNCHANGED <<stage, http>>
    BY <1>2
  <1>3. ASSUME NEW t \in Threads, NEW to, stage' = [stage EXCEPT ![t] = to], http' = http,
               stage[t] # "done"
        PROVE  ResponseInv'
    BY <1>3
  <1>4. ASSUME NEW t \in Threads, NEW r \in Operations, Receive(t, r) PROVE ResponseInv'
    BY <1>3, <1>4 DEF Receive
  <1>5. ASSUME NEW t \in Threads, Handle(t) PROVE ResponseInv'
    BY <1>1, <1>2, <1>3, <1>5 DEF Handle, ClientStep, CallFails, StatusChecked, InfoReturned,
       ChangesReturned, UpdateChecked, PostUpdater, Returned, service
  <1> QED
    BY <1>2, <1>4, <1>5 DEF SNext, svars, service

LEMMA UpdatesNext == ServiceInv /\ [SNext]_svars => OnlyFreshUpdates'
  <1> DEFINE Decided(s) == stage[s] = "posting" \/ http[s].detail = "scheduled"
             Justified(s) == /\ checked[s].version # Current
                             /\ LatestSince(checked[s].version, now[s] - Ttl + 1)
  <1> SUFFICES ASSUME ServiceInv, [SNext]_svars,
                      NEW s \in Threads, route'[s] = "request_update", Decided(s)'
               PROVE  Justified(s)'
    BY DEF OnlyFreshUpdates
  <1> USE Constants, IntTypes DEF ServiceInv, IInv, ClientAssumptions
  <1>0. TypeOK /\ [Next]_vars
    BY ServiceStep
  <1>1. CASE stage[s] \in {"posting", "done"} /\ Decided(s)
    <2>1. /\ now'[s] = now[s] /\ checked'[s] = checked[s] /\ route'[s] = route[s]
      BY <1>1, DecisionKept
    <2>2. Justified(s)
      BY <1>1, <2>1 DEF OnlyFreshUpdates
    <2>3. StaysLatest(checked[s].version, now[s] - Ttl + 1)
      BY <1>0, <2>2, LatestKept DEF TimeInv
    <2> QED
      BY <2>1, <2>2, <2>3 DEF StaysLatest, LatestSince
  <1>2. CASE UpdateChecked(s)
    <2>1. stage'[s] = "posting" => reply[s].update
      BY <1>2 DEF UpdateChecked, Finish, STypeOK
    <2>2. http'[s].detail # "scheduled"
      BY <1>2 DEF UpdateChecked, Finish, STypeOK, Accepted, Unavailable, Response, ResponseInv,
         Returned
    <2>3. reply[s].kind = "ok" /\ reply[s].version # Current
      BY <2>1, <2>2 DEF ReplyInv
    <2>4. LatestSince(reply[s].version, now[s] - Ttl + 1)
      BY <1>2, <2>3 DEF UpdateChecked, Returned, FreshAnswers, Answered, Resilient
    <2> QED
      BY <1>2, <2>3, <2>4 DEF UpdateChecked, STypeOK, vars, github, local, LatestSince
  <1>3. CASE ~UpdateChecked(s) /\ ~(stage[s] \in {"posting", "done"} /\ Decided(s))
    <2>1. stage[s] \notin {"posting"} /\ http[s].detail # "scheduled"
      BY <1>3 DEF ResponseInv
    <2> USE DEF STypeOK
    <2>2. ASSUME NEW r \in Operations, Receive(s, r) PROVE FALSE
      BY <2>1, <2>2 DEF Receive
    <2>3. ASSUME Handle(s) PROVE FALSE
      BY <1>3, <2>1, <2>3 DEF Handle, ClientStep, CallFails, StatusChecked, InfoReturned,
         ChangesReturned, PostUpdater, Finish, service, StatusOf, NoResponse, Unavailable, Response
    <2>4. ASSUME NEW t \in Threads, t # s, Handle(t) \/ \E r \in Operations : Receive(t, r)
          PROVE  FALSE
      BY <2>1, <2>4 DEF Receive, Handle, ClientStep, CallFails, StatusChecked, InfoReturned,
         ChangesReturned, UpdateChecked, PostUpdater, Finish, service
    <2> QED
      BY <2>1, <2>2, <2>3, <2>4 DEF SNext, svars, service
  <1> QED
    BY <1>1, <1>2, <1>3

LEMMA ServiceInvInit == SInit => ServiceInv
  <1> SUFFICES ASSUME SInit PROVE ServiceInv
    OBVIOUS
  <1>1. IInv /\ STypeOK
    BY InvInit, ServiceTypeInit DEF SInit
  <1>2. ReplyInv /\ ResponseInv /\ OnlyFreshUpdates /\ NotesMatchAnnouncement
    BY DEF SInit, Init, ReplyInv, ResponseInv, OnlyFreshUpdates, NotesMatchAnnouncement, NoReply,
           NoResponse, Response
  <1> QED
    BY <1>1, <1>2 DEF ServiceInv

LEMMA ServiceInvNext == ServiceInv /\ [SNext]_svars => ServiceInv'
  <1> SUFFICES ASSUME ServiceInv, [SNext]_svars PROVE ServiceInv'
    OBVIOUS
  <1>1. IInv' /\ STypeOK'
    BY InvNext, ServiceStep, ServiceTypeNext DEF ServiceInv
  <1>2. ReplyInv'
    BY ReplyNext, ServiceStep DEF ServiceInv, IInv
  <1>3. ResponseInv' /\ OnlyFreshUpdates' /\ NotesMatchAnnouncement'
    BY ResponseNext, UpdatesNext, NotesNext DEF ServiceInv
  <1> QED
    BY <1>1, <1>2, <1>3 DEF ServiceInv

\* The sidecar is never asked to update on the strength of a degraded or stale
\* answer, nor to the version that already runs.
THEOREM Updates == SSpec => []OnlyFreshUpdates
  <1>1. ServiceInv => OnlyFreshUpdates
    BY DEF ServiceInv
  <1> QED
    BY <1>1, ServiceInvInit, ServiceInvNext, PTL DEF SSpec

-----------------------------------------------------------------------------
(* "Already up to date".  UpToDateMeansCurrent is false of the code; this is  *)
(* what is left of it.                                                        *)

\* A check that reached GitHub announces every version but the running one.
ExactInv ==
  \A t \in Threads :
    method[t] = "check_updates" /\ reply[t].kind = "ok"
      => reply[t].update \/ reply[t].version = Current

\* Said without an update: the running version was GitHub's latest less than a TTL
\* before the check, or GitHub could not be reached.
UpToDateUnlessDegraded ==
  \A t \in Threads :
    http[t].detail = "up_to_date" =>
      \/ checked[t].kind = "degraded"
      \/ checked[t].version = Current /\ LatestSince(Current, now[t] - Ttl + 1)

UpToDateInv ==
  /\ ExactInv /\ UpToDateUnlessDegraded
  /\ \A t \in Threads : http[t].detail = "up_to_date" => stage[t] = "done"

LEMMA ExactNext == TypeOK /\ StageInv /\ ExactInv /\ [Next]_vars => ExactInv'
  <1> SUFFICES ASSUME TypeOK, StageInv, ExactInv, [Next]_vars,
                      NEW s \in Threads, method'[s] = "check_updates", reply'[s].kind = "ok"
               PROVE  reply'[s].update \/ reply'[s].version = Current
    BY DEF ExactInv
  <1> USE DEF TypeOK, Goto, Return, local
  <1>1. CASE reply'[s] = reply[s] /\ method'[s] = method[s]
    BY <1>1 DEF ExactInv
  <1>2. CASE \E m \in Methods : Call(s, m)
    BY <1>2 DEF Call, NoReply
  <1>3. CASE ServeFromCache(s) \/ StoreRelease(s) \/ StoreFailure(s)
    <2>1. method[s] = "check_updates"
      BY <1>3 DEF ServeFromCache, StoreRelease, StoreFailure
    <2>2. ASSUME NEW r, reply'[s] = Answer(s, r)
          PROVE  reply'[s].update \/ reply'[s].version = Current
      <3>1. r \notin Untagged
        BY <2>2 DEF Answer, Raised, NoReply
      <3>2. reply'[s] = [kind |-> "ok", version |-> r,
                         update |-> method[s] = "check_updates" /\ r # Current]
        BY <2>2, <3>1 DEF Answer
      <3>3. reply'[s].version = r
        BY <3>2
      <3>4. CASE r # Current
        <4>1. (method[s] = "check_updates" /\ r # Current) = TRUE
          BY <2>1, <3>4
        <4>2. reply'[s] = [kind |-> "ok", version |-> r, update |-> TRUE]
          BY <3>2, <4>1, Zenon
        <4> QED
          BY <4>2
      <3> QED
        BY <3>3, <3>4
    <2>3. \/ reply'[s] \in {reply[s], Raised}
          \/ \E r : reply'[s] = Answer(s, r)
      BY <1>3 DEF ServeFromCache, StoreRelease, StoreFailure, Continue, Fail
    <2> QED
      BY <1>1, <2>1, <2>2, <2>3 DEF Raised, NoReply
  <1>4. CASE StartRequest(s) \/ Respond(s) \/ BreakRequest(s) \/ Degrade(s)
    BY <1>1, <1>4 DEF StartRequest, Respond, BreakRequest, Degrade, DegradedAnswer, Raised,
       Dropped, NoReply
  <1>5. CASE ServeInfo(s) \/ ReadAssets(s) \/ FetchChecksums(s) \/ FetchFails(s) \/ StoreInfo(s)
    <2>1. method'[s] = "get_release_info"
      BY <1>5 DEF ServeInfo, ReadAssets, FetchChecksums, FetchFails, StoreInfo, StageInv
    <2> QED
      BY <2>1
  <1>6. ASSUME NEW t \in Threads \ {s}, Step(t) \/ \E m \in Methods : Call(t, m)
        PROVE  reply'[s] = reply[s] /\ method'[s] = method[s]
    BY <1>6, StepFrame DEF Others
  <1>7. CASE Publish \/ Tick \/ UNCHANGED vars
    BY <1>1, <1>7 DEF Publish, Tick, vars
  <1> QED
    BY <1>1, <1>2, <1>3, <1>4, <1>5, <1>6, <1>7 DEF Next, Step

\* The answer is given by request_update alone, from what its check returned.
LEMMA SaysUpToDate ==
  ASSUME STypeOK, [SNext]_svars, NEW s \in Threads,
         http'[s].detail = "up_to_date", http[s].detail # "up_to_date"
  PROVE  UpdateChecked(s)
  <1> USE DEF STypeOK
  <1>1. ASSUME NEW t \in Threads, t # s, Handle(t) PROVE FALSE
    BY <1>1 DEF Handle, ClientStep, CallFails, StatusChecked, InfoReturned, ChangesReturned,
       UpdateChecked, PostUpdater, Finish, service
  <1>2. CASE Handle(s)
    BY <1>2 DEF Handle, ClientStep, CallFails, StatusChecked, InfoReturned, ChangesReturned,
       PostUpdater, Finish, service, StatusOf, NoResponse, Unavailable, Accepted, Response
  <1> QED
    BY <1>1, <1>2 DEF SNext, Receive, svars, service

LEMMA UpToDateNext == ServiceInv /\ UpToDateInv /\ [SNext]_svars => UpToDateInv'
  <1> SUFFICES ASSUME ServiceInv, UpToDateInv, [SNext]_svars PROVE UpToDateInv'
    OBVIOUS
  <1> USE Constants, IntTypes DEF ServiceInv, IInv, ClientAssumptions
  <1>0. TypeOK /\ [Next]_vars
    BY ServiceStep
  <1>1. ExactInv'
    BY <1>0, ExactNext DEF UpToDateInv
  <1>2. ASSUME NEW s \in Threads, http'[s].detail = "up_to_date"
        PROVE  /\ stage'[s] = "done"
               /\ \/ checked'[s].kind = "degraded"
                  \/ /\ checked'[s].version = Current
                     /\ LatestSince(Current, now[s] - Ttl + 1)'
    <2>1. CASE http[s].detail = "up_to_date"
      <3>1. stage[s] = "done" /\ now'[s] = now[s] /\ checked'[s] = checked[s]
        BY <2>1, DecisionKept DEF UpToDateInv
      <3>2. stage'[s] = "done"
        BY <3>1 DEF STypeOK, SNext, Receive, Handle, ClientStep, CallFails, StatusChecked,
           InfoReturned, ChangesReturned, UpdateChecked, PostUpdater, Returned, Finish, svars,
           service
      <3>3. \/ checked[s].kind = "degraded"
            \/ checked[s].version = Current /\ LatestSince(Current, now[s] - Ttl + 1)
        BY <2>1 DEF UpToDateInv, UpToDateUnlessDegraded
      <3>4. LatestSince(Current, now[s] - Ttl + 1) => StaysLatest(Current, now[s] - Ttl + 1)
        BY <1>0, LatestKept DEF TimeInv
      <3> QED
        BY <3>1, <3>2, <3>3, <3>4 DEF StaysLatest, LatestSince
    <2>2. CASE http[s].detail # "up_to_date"
      <3>1. UpdateChecked(s)
        BY <1>2, <2>2, SaysUpToDate
      <3>2. /\ stage'[s] = "done" /\ checked'[s] = reply[s] /\ reply[s].version # None
            /\ reply[s].kind \in {"ok", "degraded"} /\ ~reply[s].update
        BY <1>2, <2>2, <3>1
        DEF UpdateChecked, Finish, STypeOK, Accepted, Unavailable, Response
      <3>3. CASE reply[s].kind = "ok"
        <4>1. method[s] = "check_updates" /\ pc[s] = "returned"
          BY <3>1 DEF UpdateChecked, Returned
        <4>2. reply[s].version = Current
          BY <3>2, <3>3, <4>1 DEF UpToDateInv, ExactInv
        <4>3. LatestSince(Current, now[s] - Ttl + 1)
          BY <3>3, <4>1, <4>2 DEF FreshAnswers, Answered, Resilient
        <4> QED
          BY <3>1, <3>2, <4>2, <4>3 DEF UpdateChecked, vars, github, local, LatestSince
      <3> QED
        BY <3>2, <3>3
    <2> QED
      BY <2>1, <2>2
  <1> QED
    BY <1>1, <1>2 DEF UpToDateInv, UpToDateUnlessDegraded

\* request_update: whenever GitHub could be reached, "Already up to date" is true.
THEOREM UpToDateRight == SSpec => []UpToDateUnlessDegraded
  <1>1. SInit => UpToDateInv
    BY DEF SInit, Init, UpToDateInv, ExactInv, UpToDateUnlessDegraded, NoReply, NoResponse, Response
  <1>2. UpToDateInv => UpToDateUnlessDegraded
    BY DEF UpToDateInv
  <1> QED
    BY <1>1, <1>2, UpToDateNext, ServiceInvInit, ServiceInvNext, PTL DEF SSpec

-----------------------------------------------------------------------------
(* The promise *)

\* Which client call a thread is in, by its operation and whether check_updates
\* has returned to it.
LinkInv ==
  \A t \in Threads :
    /\ stage[t] = "new" => pc[t] = "idle" /\ checked[t] = NoReply
    /\ stage[t] = "calling" =>
         \/ /\ checked[t] = NoReply /\ route[t] # "request_restart"
            /\ method[t] = FirstCall(route[t])
         \/ /\ checked[t].kind \in {"ok", "degraded"} /\ route[t] = "get_status"
            /\ method[t] = "get_release_info"
    /\ stage[t] = "posting" => route[t] \in {"request_update", "request_restart"}

\* What a step for one request leaves alone: the other requests.
OtherRequests(t) ==
  \A s \in Threads \ {t} :
    /\ stage'[s] = stage[s] /\ route'[s] = route[s]
    /\ checked'[s] = checked[s] /\ http'[s] = http[s]

LEMMA ServiceFrame ==
  ASSUME STypeOK, NEW t \in Threads, Handle(t) \/ \E r \in Operations : Receive(t, r)
  PROVE  Others(t) /\ OtherRequests(t) /\ published' = published
  <1> USE DEF STypeOK
  <1>1. OtherRequests(t)
    BY DEF OtherRequests, Handle, Receive, ClientStep, CallFails, StatusChecked, InfoReturned,
       ChangesReturned, UpdateChecked, PostUpdater, Finish, service
  <1>2. CASE UNCHANGED vars
    BY <1>1, <1>2 DEF Others, vars, local, github
  <1>3. CASE Step(t) \/ \E m \in Methods : Call(t, m)
    BY <1>1, <1>3, StepFrame DEF github
  <1>4. UNCHANGED vars \/ Step(t) \/ \E m \in Methods : Call(t, m)
    BY DEF Handle, Receive, FirstCall, Methods, ClientStep, CallFails, StatusChecked,
       InfoReturned, ChangesReturned, UpdateChecked, PostUpdater
  <1> QED
    BY <1>1, <1>2, <1>3, <1>4

\* The client's own step does not change which call the thread is in.
LEMMA StepCall ==
  ASSUME TypeOK, NEW t \in Threads, Step(t)
  PROVE  method' = method /\ pc'[t] # "idle"
  BY DEF Step, ServeFromCache, StartRequest, Respond, BreakRequest, StoreRelease, StoreFailure,
     Degrade, ServeInfo, ReadAssets, FetchChecksums, FetchFails, StoreInfo, Continue, Fail,
     Return, Goto, TypeOK, local

LEMMA LinkNext == STypeOK /\ LinkInv /\ [SNext]_svars => LinkInv'
  <1> SUFFICES ASSUME STypeOK, LinkInv, [SNext]_svars PROVE LinkInv'
    OBVIOUS
  <1> USE DEF STypeOK, TypeOK, LinkInv
  <1>1. ASSUME NEW t \in Threads, Handle(t) \/ \E r \in Operations : Receive(t, r)
        PROVE  LinkInv'
    <2>1. Others(t) /\ OtherRequests(t)
      BY <1>1, ServiceFrame
    <2> SUFFICES
          /\ stage'[t] = "new" => pc'[t] = "idle" /\ checked'[t] = NoReply
          /\ stage'[t] = "calling" =>
               \/ /\ checked'[t] = NoReply /\ route'[t] # "request_restart"
                  /\ method'[t] = FirstCall(route'[t])
               \/ /\ checked'[t].kind \in {"ok", "degraded"} /\ route'[t] = "get_status"
                  /\ method'[t] = "get_release_info"
          /\ stage'[t] = "posting" => route'[t] \in {"request_update", "request_restart"}
      BY <2>1 DEF Others, OtherRequests, FirstCall
    <2>2. CASE ClientStep(t)
      BY <2>2, StepCall DEF ClientStep, service
    <2>3. ASSUME NEW r \in Operations, Receive(t, r)
          PROVE  /\ stage'[t] = IF r = "request_restart" THEN "posting" ELSE "calling"
                 /\ checked'[t] = NoReply /\ route'[t] = r
                 /\ r # "request_restart" => method'[t] = FirstCall(r)
      BY <2>3 DEF Receive, Call
    <2>4. CASE StatusChecked(t)
      BY <2>4 DEF StatusChecked, Returned, Finish, Call
    <2>5. CASE UpdateChecked(t)
      BY <2>5 DEF UpdateChecked, Returned, Finish
    <2>6. CASE CallFails(t) \/ InfoReturned(t) \/ ChangesReturned(t) \/ PostUpdater(t)
      BY <2>6 DEF CallFails, InfoReturned, ChangesReturned, PostUpdater, Finish
    <2> QED
      BY <1>1, <2>2, <2>3, <2>4, <2>5, <2>6 DEF Handle
  <1>2. CASE UNCHANGED <<pc, method, service>>
    BY <1>2 DEF service, FirstCall
  <1>3. ((Publish \/ Tick) /\ UNCHANGED service) \/ UNCHANGED svars
          => UNCHANGED <<pc, method, service>>
    BY DEF Publish, Tick, svars, vars, local
  <1> QED
    BY <1>1, <1>2, <1>3 DEF SNext

LEMMA PromiseInit == SInit => Promise!Init
  BY DEF SInit, Init, Promise!Init, Promise!Pending, Promise!Unseen, Promise!None,
         AskedOf, SawBy, AnswerOf, NoReply, None

\* What a step for one request does to the mapped state: at most that request's part.
LEMMA Pointwise ==
  ASSUME STypeOK, NEW t \in Threads, Others(t), OtherRequests(t)
  PROVE  /\ [s \in Threads |-> AskedOf(s)]'
              = [[s \in Threads |-> AskedOf(s)] EXCEPT ![t] = AskedOf(t)']
         /\ [s \in Threads |-> SawBy(s)]'
              = [[s \in Threads |-> SawBy(s)] EXCEPT ![t] = SawBy(t)']
         /\ [s \in Threads |-> AnswerOf(s)]'
              = [[s \in Threads |-> AnswerOf(s)] EXCEPT ![t] = AnswerOf(t)']
  <1>1. \A s \in Threads \ {t} : /\ AskedOf(s)' = AskedOf(s)
                                /\ SawBy(s)' = SawBy(s)
                                /\ AnswerOf(s)' = AnswerOf(s)
    BY DEF Others, OtherRequests, AskedOf, SawBy, AnswerOf
  <1> HIDE DEF AskedOf, SawBy, AnswerOf
  <1> QED
    BY <1>1

LEMMA Stutters ==
  ASSUME STypeOK, NEW t \in Threads, Others(t), OtherRequests(t),
         published' = published, release' = release,
         AskedOf(t)' = AskedOf(t), SawBy(t)' = SawBy(t), AnswerOf(t)' = AnswerOf(t)
  PROVE  UNCHANGED Promise!api
  <1> HIDE DEF AskedOf, SawBy, AnswerOf
  <1> QED
    BY Pointwise DEF Promise!api, None

\* The mapped steps of one request, each from what it does to the request's part.
LEMMA MappedSteps ==
  ASSUME STypeOK, NEW t \in Threads, Others(t), OtherRequests(t), published' = published
  PROVE  /\ \A r \in Operations :
              /\ release' = release /\ AskedOf(t) = "none" /\ AskedOf(t)' = r
              /\ SawBy(t)' = SawBy(t) /\ AnswerOf(t)' = AnswerOf(t)
              => Promise!Ask(t, r)
         /\ /\ release' = release /\ AskedOf(t)' = AskedOf(t) /\ SawBy(t)' = SawBy(t)
            /\ AskedOf(t) # "none" /\ AnswerOf(t) = Promise!Pending
            => /\ AnswerOf(t)' = Promise!Failed => Promise!Fail(t)
               /\ (\E v \in Known :
                      /\ AnswerOf(t)' = Promise!Good(v)
                      /\ \/ AskedOf(t) \in Promise!Questions /\ SawBy(t) = v
                         \/ AskedOf(t) \in Promise!Commands /\ v = None)
                    => Promise!Reply(t)
         /\ /\ AskedOf(t)' = AskedOf(t) /\ AnswerOf(t)' = AnswerOf(t)
            /\ release' = release \/ Promise!Learnt(release')
            /\ release' \in Releases \/ release' = release
            => /\ SawBy(t)' = SawBy(t) => Promise!Learn \/ UNCHANGED Promise!api
               /\ /\ AskedOf(t) \notin {"none", "request_restart"}
                  /\ AnswerOf(t) = Promise!Pending /\ SawBy(t) = Promise!Unseen
                  /\ \/ SawBy(t)' = release'
                     \/ SawBy(t)' = None /\ AskedOf(t) = "get_changes"
                  => Promise!Look(t)
  <1>1. Promise!Releases = Releases /\ Promise!None = None
    BY DEF Promise!Releases, Releases, Promise!None, None
  <1> HIDE DEF AskedOf, SawBy, AnswerOf, Releases, None
  <1>2. ASSUME NEW r \in Operations, release' = release, AskedOf(t) = "none", AskedOf(t)' = r,
               SawBy(t)' = SawBy(t), AnswerOf(t)' = AnswerOf(t)
        PROVE  Promise!Ask(t, r)
    BY <1>2, Pointwise DEF Promise!Ask
  <1>3. ASSUME release' = release, AskedOf(t)' = AskedOf(t), SawBy(t)' = SawBy(t),
               AskedOf(t) # "none", AnswerOf(t) = Promise!Pending
        PROVE  /\ AnswerOf(t)' = Promise!Failed => Promise!Fail(t)
               /\ (\E v \in Known :
                      /\ AnswerOf(t)' = Promise!Good(v)
                      /\ \/ AskedOf(t) \in Promise!Questions /\ SawBy(t) = v
                         \/ AskedOf(t) \in Promise!Commands /\ v = None)
                    => Promise!Reply(t)
    <2>1. \A v \in Known : v # Promise!Unseen
      BY DEF Known, Releases, None, Promise!Unseen
    <2> QED
      BY <1>1, <1>3, <2>1, Pointwise
      DEF Promise!Fail, Promise!Reply, Promise!Open, Promise!Questions, Promise!Commands
  <1>4. ASSUME AskedOf(t)' = AskedOf(t), AnswerOf(t)' = AnswerOf(t),
               release' = release \/ Promise!Learnt(release'),
               release' \in Releases \/ release' = release
        PROVE  /\ SawBy(t)' = SawBy(t) => Promise!Learn \/ UNCHANGED Promise!api
               /\ /\ AskedOf(t) \notin {"none", "request_restart"}
                  /\ AnswerOf(t) = Promise!Pending /\ SawBy(t) = Promise!Unseen
                  /\ \/ SawBy(t)' = release'
                     \/ SawBy(t)' = None /\ AskedOf(t) = "get_changes"
                  => Promise!Look(t)
    BY <1>1, <1>4, Pointwise, Stutters DEF Promise!Learn, Promise!Look, Promise!Open
  <1> QED
    BY <1>2, <1>3, <1>4

PromiseInv == ServiceInv /\ LinkInv

\* The release cache changes when a refresh succeeds, to a release GitHub served.
LEMMA CacheLearns ==
  ASSUME IInv, NEW t \in Threads, Step(t)
  PROVE  /\ release' = release \/ Promise!Learnt(release')
         /\ release' \in Releases \/ release' = release
  <1> USE DEF IInv, TypeOK
  <1>1. CASE StoreRelease(t)
    <2>1. release' = got[t] /\ got[t] # None /\ got[t] >= release /\ got[t] \in Releases
          /\ got[t] <= published
      BY <1>1 DEF StoreRelease, RequestInv, LatestSince
    <2> QED
      BY <2>1, IntTypes, Constants
      DEF ClientAssumptions, Promise!Learnt, Promise!None, None, Known, Releases
  <1>2. CASE ~StoreRelease(t)
    <2>1. release' = release
      BY <1>2 DEF Step, ServeFromCache, StartRequest, Respond, BreakRequest, StoreFailure,
         Degrade, ServeInfo, ReadAssets, FetchChecksums, FetchFails, StoreInfo, cache
    <2> QED
      BY <2>1
  <1> QED
    BY <1>1, <1>2

\* A thread without a reply gets one from the cache as the step leaves it.
LEMMA AnswersFromCache ==
  ASSUME IInv, NEW t \in Threads, Step(t), method[t] \in Resilient, pc'[t] = "returned",
         reply'[t].kind \in {"ok", "degraded"}
  PROVE  \/ reply'[t].version = release'
         \/ reply'[t].version = None /\ method[t] = "get_release_changes"
  <1> USE DEF IInv, TypeOK, Return, Goto
  <1>1. method' = method /\ Answered(t, {"ok", "degraded"})'
    BY StepCall DEF Answered
  <1>2. ~AnsweredBefore(t)
    BY DEF AnsweredBefore, Step, ServeFromCache, StartRequest, Respond, BreakRequest,
       StoreRelease, StoreFailure, Degrade, ServeInfo, ReadAssets, FetchChecksums, FetchFails,
       StoreInfo
  <1>3. CASE ServeFromCache(t)
    BY <1>3 DEF ServeFromCache, Continue, Fail, Answer, Raised, NoReply, Resilient, cache
  <1>4. CASE StoreRelease(t)
    BY <1>4 DEF StoreRelease, Continue, Answer, Raised, NoReply, Resilient
  <1>5. CASE Degrade(t)
    BY <1>5 DEF Degrade, DegradedAnswer, Tag, Raised, NoReply, Resilient, cache
  <1> QED
    BY <1>1, <1>2, <1>3, <1>4, <1>5, AnswerFrame DEF Next

LEMMA ClientMaps ==
  ASSUME PromiseInv, NEW t \in Threads, ClientStep(t)
  PROVE  Promise!Next \/ UNCHANGED Promise!api
  <1> USE DEF PromiseInv, ServiceInv
  <1>1. Others(t) /\ OtherRequests(t) /\ published' = published
    BY ServiceFrame DEF Handle
  <1>2. /\ release' = release \/ Promise!Learnt(release')
        /\ release' \in Releases \/ release' = release
    BY CacheLearns DEF ClientStep
  <1>3. /\ AskedOf(t)' = AskedOf(t) /\ AnswerOf(t)' = AnswerOf(t)
        /\ AskedOf(t) # "none" /\ AnswerOf(t) = Promise!Pending
    BY DEF ClientStep, service, AskedOf, AnswerOf, Promise!Pending, Promise!None, None,
       STypeOK, Operations
  <1>4. CASE SawBy(t)' = SawBy(t)
    BY <1>1, <1>2, <1>3, <1>4, MappedSteps DEF Promise!Next
  <1>5. CASE SawBy(t)' # SawBy(t)
    <2>1. checked[t] = NoReply /\ checked'[t] = NoReply /\ route[t] # "request_restart"
          /\ method[t] = FirstCall(route[t])
      BY <1>5 DEF ClientStep, service, LinkInv, SawBy, NoReply
    <2>2. pc[t] # "returned"
      BY DEF ClientStep, Step, ServeFromCache, StartRequest, Respond, BreakRequest,
         StoreRelease, StoreFailure, Degrade, ServeInfo, ReadAssets, FetchChecksums,
         FetchFails, StoreInfo
    <2>3. SawBy(t) = Promise!Unseen
      BY <2>1, <2>2 DEF SawBy, Promise!Unseen
    <2>4. /\ pc'[t] = "returned" /\ reply'[t].kind \in {"ok", "degraded"}
          /\ SawBy(t)' = reply'[t].version
      BY <1>5, <2>1, <2>2 DEF SawBy
    <2>5. \/ SawBy(t)' = release'
          \/ SawBy(t)' = None /\ AskedOf(t) = "get_changes"
      BY <2>1, <2>4, AnswersFromCache DEF ClientStep, FirstCall, Resilient, AskedOf
    <2>6. AskedOf(t) # "request_restart"
      BY <2>1 DEF AskedOf, ClientStep
    <2>7. Promise!Look(t)
      BY <1>1, <1>2, <1>3, <2>3, <2>5, <2>6, MappedSteps
    <2> QED
      BY <2>7 DEF Promise!Next, Promise!Serve
  <1> QED
    BY <1>4, <1>5

\* A step of the handlers between two calls of the client.
LEMMA HandlerMaps ==
  ASSUME PromiseInv, NEW t \in Threads, Handle(t), ~ClientStep(t)
  PROVE  Promise!Next \/ UNCHANGED Promise!api
  <1> USE DEF PromiseInv, ServiceInv, STypeOK
  <1>1. Others(t) /\ OtherRequests(t) /\ published' = published
    BY ServiceFrame
  <1>2. release' = release /\ AskedOf(t)' = AskedOf(t) /\ AskedOf(t) = route[t]
        /\ stage[t] \in {"calling", "posting"} /\ AskedOf(t) # "none"
        /\ AnswerOf(t) = Promise!Pending
    BY DEF Handle, CallFails, StatusChecked, InfoReturned, ChangesReturned, UpdateChecked,
       PostUpdater, Returned, Finish, Call, vars, cache, AskedOf, AnswerOf, Operations,
       Promise!Pending, Promise!None, None
  <1>3. ASSUME SawBy(t)' = SawBy(t), stage'[t] = "done", http'[t].code \notin {200, 202}
        PROVE  Promise!Fail(t)
    <2>1. AnswerOf(t)' = Promise!Failed
      BY <1>3 DEF AnswerOf, Promise!Failed, Promise!None, None
    <2> QED
      BY <1>1, <1>2, <1>3, <2>1, MappedSteps
  <1>4. ASSUME SawBy(t)' = SawBy(t), stage'[t] = "done", http'[t].code \in {200, 202},
               http'[t].latest \in Known,
               \/ route[t] \in {"get_status", "get_changes"} /\ SawBy(t) = http'[t].latest
               \/ route[t] \in {"request_update", "request_restart"} /\ http'[t].latest = None
        PROVE  Promise!Reply(t)
    <2>1. AnswerOf(t)' = Promise!Good(http'[t].latest)
      BY <1>4 DEF AnswerOf, Promise!Good
    <2> QED
      BY <1>1, <1>2, <1>4, <2>1, MappedSteps DEF Promise!Questions, Promise!Commands
  <1>5. ASSUME SawBy(t)' = SawBy(t), stage'[t] # "done" PROVE UNCHANGED Promise!api
    <2>1. AnswerOf(t)' = AnswerOf(t)
      BY <1>2, <1>5 DEF AnswerOf
    <2> QED
      BY <1>1, <1>2, <1>5, <2>1, Stutters
  <1>6. CASE CallFails(t)
    <2>1. SawBy(t)' = SawBy(t) /\ stage'[t] = "done" /\ http'[t].code \notin {200, 202}
      BY <1>6 DEF CallFails, Finish, Unavailable, NoResponse, Response, SawBy, vars
    <2> QED
      BY <1>3, <2>1 DEF Promise!Next, Promise!Serve
  <1>7. CASE StatusChecked(t)
    <2>1. checked[t] = NoReply
      BY <1>7 DEF StatusChecked, Returned, LinkInv
    <2>2. SawBy(t)' = SawBy(t) /\ SawBy(t) = reply[t].version /\ reply[t].version \in Known
      BY <1>7, <2>1 DEF StatusChecked, Returned, SawBy, NoReply, TypeOK, Replies
    <2>3. CASE reply[t].update
      BY <1>5, <1>7, <2>2, <2>3 DEF StatusChecked, Returned
    <2>4. CASE ~reply[t].update
      <3>1. stage'[t] = "done" /\ http'[t] = StatusOf(reply[t], None)
        BY <1>7, <2>4 DEF StatusChecked, Finish
      <3> QED
        BY <1>4, <1>7, <2>2, <3>1 DEF StatusChecked, StatusOf, Promise!Next, Promise!Serve
    <2> QED
      BY <2>3, <2>4
  <1>8. CASE InfoReturned(t)
    <2>1. route[t] = "get_status" /\ checked[t].kind \in {"ok", "degraded"}
      BY <1>8 DEF InfoReturned, Returned, LinkInv, FirstCall
    <2>2. SawBy(t)' = SawBy(t) /\ SawBy(t) = checked[t].version /\ checked[t].version \in Known
      BY <1>8, <2>1 DEF InfoReturned, SawBy, NoReply, Replies
    <2>3. stage'[t] = "done"
          /\ http'[t] \in {Unavailable("changed"), StatusOf(checked[t], reply[t].version)}
      BY <1>8 DEF InfoReturned, Finish
    <2>4. CASE http'[t] = Unavailable("changed")
      <3>1. http'[t].code = 503
        BY <2>4 DEF Unavailable, Response
      <3>2. Promise!Fail(t)
        BY <1>3, <2>2, <2>3, <3>1
      <3> QED
        BY <3>2 DEF Promise!Next, Promise!Serve
    <2>5. CASE http'[t] = StatusOf(checked[t], reply[t].version)
      <3>1. http'[t].code = 200 /\ http'[t].latest = checked[t].version
        BY <2>5 DEF StatusOf
      <3>2. Promise!Reply(t)
        BY <1>4, <2>1, <2>2, <2>3, <3>1
      <3> QED
        BY <3>2 DEF Promise!Next, Promise!Serve
    <2> QED
      BY <2>3, <2>4, <2>5
  <1>9. CASE ChangesReturned(t)
    <2>1. route[t] = "get_changes" /\ checked[t] = NoReply
      BY <1>9 DEF ChangesReturned, Returned, LinkInv, FirstCall
    <2>2. SawBy(t)' = SawBy(t) /\ SawBy(t) = reply[t].version /\ reply[t].version \in Known
      BY <1>9, <2>1 DEF ChangesReturned, Returned, SawBy, TypeOK, Replies, vars
    <2>3. stage'[t] = "done" /\ http'[t] = StatusOf(reply[t], reply[t].version)
      BY <1>9 DEF ChangesReturned, Finish
    <2> QED
      BY <1>4, <2>1, <2>2, <2>3 DEF StatusOf, Promise!Next, Promise!Serve
  <1>10. CASE UpdateChecked(t)
    <2>1. checked[t] = NoReply /\ route[t] = "request_update"
      BY <1>10 DEF UpdateChecked, Returned, LinkInv
    <2>2. SawBy(t)' = SawBy(t)
      BY <1>10, <2>1 DEF UpdateChecked, Returned, SawBy, NoReply, vars
    <2>3. \/ stage'[t] = "posting"
          \/ stage'[t] = "done" /\ http'[t] \in {Unavailable("error"), Accepted("up_to_date")}
      BY <1>10 DEF UpdateChecked, Finish
    <2> QED
      BY <1>3, <1>4, <1>5, <2>1, <2>2, <2>3
      DEF Unavailable, Accepted, Response, Known, Promise!Next, Promise!Serve
  <1>11. CASE PostUpdater(t)
    <2>1. SawBy(t)' = SawBy(t) /\ route[t] \in {"request_update", "request_restart"}
      BY <1>11 DEF PostUpdater, LinkInv, SawBy, vars
    <2>2. stage'[t] = "done"
          /\ http'[t] \in {Accepted("scheduled"), Unavailable("error"), NoResponse}
      BY <1>11 DEF PostUpdater, Finish
    <2> QED
      BY <1>3, <1>4, <2>1, <2>2
      DEF Unavailable, Accepted, NoResponse, Response, Known, Promise!Next, Promise!Serve
  <1> QED
    BY <1>6, <1>7, <1>8, <1>9, <1>10, <1>11 DEF Handle

LEMMA ServiceMaps == PromiseInv /\ [SNext]_svars => [Promise!Next]_Promise!api
  <1> SUFFICES ASSUME PromiseInv, [SNext]_svars PROVE Promise!Next \/ UNCHANGED Promise!api
    OBVIOUS
  <1> USE DEF PromiseInv, ServiceInv
  <1>1. ASSUME NEW t \in Threads, NEW r \in Operations, Receive(t, r)
        PROVE  Promise!Next
    <2>1. Others(t) /\ OtherRequests(t) /\ published' = published
      BY <1>1, ServiceFrame
    <2>2. pc[t] = "idle" /\ checked[t] = NoReply /\ checked'[t] = NoReply
          /\ pc'[t] \in {"idle", "latest"}
      BY <1>1 DEF Receive, Call, Goto, LinkInv, STypeOK, TypeOK, vars
    <2>3. /\ release' = release /\ AskedOf(t) = "none" /\ AskedOf(t)' = r
          /\ AnswerOf(t)' = AnswerOf(t)
      BY <1>1 DEF Receive, Call, AskedOf, AnswerOf, STypeOK, vars, cache
    <2>4. SawBy(t)' = SawBy(t)
      BY <2>2 DEF SawBy
    <2>5. Promise!Ask(t, r)
      BY <2>1, <2>3, <2>4, MappedSteps
    <2> QED
      BY <2>5 DEF Promise!Next, Promise!Routes, Promise!Questions, Promise!Commands, Operations
  <1>2. ASSUME NEW t \in Threads, Handle(t) PROVE Promise!Next \/ UNCHANGED Promise!api
    BY <1>2, ClientMaps, HandlerMaps
  <1>3. CASE Publish /\ UNCHANGED service
    BY <1>3 DEF Publish, service, cache, local, AskedOf, SawBy, AnswerOf, None,
       Promise!Next, Promise!Publish
  <1>4. CASE (Tick /\ UNCHANGED service) \/ UNCHANGED svars
    BY <1>4 DEF Tick, svars, vars, github, service, cache, local, AskedOf, SawBy, AnswerOf, None,
       Promise!api
  <1> QED
    BY <1>1, <1>2, <1>3, <1>4 DEF SNext

\* StatusService and the release client under it implement ApiPromise: each answer is
\* the release cached at one moment of the request, and the cache never gets older.
THEOREM PromiseKept == SSpec => KeepsPromise
  <1>1. SInit => PromiseInv
    <2>1. ASSUME SInit PROVE LinkInv
      <3>1. \A t \in Threads : stage[t] = "new" /\ checked[t] = NoReply
        BY <2>1 DEF SInit
      <3>2. \A t \in Threads : pc[t] = "idle"
        BY <2>1 DEF SInit, Init
      <3> QED
        BY <3>1, <3>2 DEF LinkInv
    <2> QED
      BY <2>1, ServiceInvInit DEF PromiseInv
  <1>2. PromiseInv /\ [SNext]_svars => PromiseInv'
    BY ServiceInvNext, LinkNext DEF PromiseInv, ServiceInv
  <1> QED
    BY <1>1, <1>2, PromiseInit, ServiceMaps, PTL DEF SSpec, KeepsPromise, Promise!Spec
=============================================================================
