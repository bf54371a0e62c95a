---------------------------- MODULE StatusService ----------------------------
(***************************************************************************)
(* The HTTP API of homeassistant/server.py and homeassistant/api.py on top *)
(* of the shared release client.  ThreadingHTTPServer starts one thread    *)
(* per request, so a thread serves one request and is done; a request is a *)
(* sequence of client calls, each of which is the calls and steps of       *)
(* ReleaseClient, unchanged.  The updater sidecar answers a POST or fails; *)
(* its own behaviour is module Updater.                                    *)
(***************************************************************************)
EXTENDS ReleaseClient

\* The operations behind the five endpoints: check_now returns get_status.
Operations == {"get_status", "get_changes", "request_update", "request_restart"}

Response(code, detail) ==
  [code |-> code, detail |-> detail, latest |-> None, update |-> FALSE, changes |-> None]

NoResponse           == Response(0, "none")
Unavailable(why)     == Response(503, why)
Accepted(message)    == Response(202, message)
StatusOf(r, notes)   ==
  [code |-> 200, detail |-> "none", latest |-> r.version, update |-> r.update,
   changes |-> notes]

VARIABLES
  stage,    \* per thread: "new", "calling" the client, "posting" to the updater, "done"
  route,    \* per thread: the operation requested
  checked,  \* per thread: the reply of its check_updates
  http      \* per thread: the HTTP response

service == <<stage, route, checked, http>>
svars   == <<vars, service>>

SInit ==
  /\ Init
  /\ stage   = [t \in Threads |-> "new"]
  /\ route   = [t \in Threads |-> "get_status"]
  /\ checked = [t \in Threads |-> NoReply]
  /\ http    = [t \in Threads |-> NoResponse]

-----------------------------------------------------------------------------
(* Requests *)

\* Mutant: the operation's own name is looked up on the client.
FirstCallByName(r) == r

\* The client method an operation calls first; request_restart calls none.
FirstCall(r) == IF r = "get_changes" THEN "get_release_changes" ELSE "check_updates"

Receive(t, r) ==
  /\ stage[t] = "new"
  /\ route' = [route EXCEPT ![t] = r]
  /\ IF r = "request_restart"
     THEN stage' = [stage EXCEPT ![t] = "posting"] /\ UNCHANGED vars
     ELSE stage' = [stage EXCEPT ![t] = "calling"] /\ Call(t, FirstCall(r))
  /\ UNCHANGED <<checked, http>>

\* The response is written and the thread ends.
Finish(t, response) ==
  /\ stage' = [stage EXCEPT ![t] = "done"]
  /\ http' = [http EXCEPT ![t] = response]

Returned(t, m) == stage[t] = "calling" /\ pc[t] = "returned" /\ method[t] = m

\* The handlers turn an OrchestratorError into 503; any other exception ends the
\* thread and the connection closes without a response.
CallFails(t) ==
  /\ stage[t] = "calling" /\ pc[t] = "returned"
  /\ reply[t].kind \in {"error", "dropped"}
  /\ Finish(t, IF reply[t].kind = "error" THEN Unavailable("error") ELSE NoResponse)
  /\ UNCHANGED <<vars, route, checked>>

-----------------------------------------------------------------------------
(* get_status, which check_now returns as well *)

\* check_updates returned: without an update the status is complete, with one
\* the handler goes on to read the release notes.
StatusChecked(t) ==
  /\ Returned(t, "check_updates") /\ route[t] = "get_status"
  /\ reply[t].kind \in {"ok", "degraded"}
  /\ checked' = [checked EXCEPT ![t] = reply[t]]
  /\ IF reply[t].update
     THEN Call(t, "get_release_info") /\ UNCHANGED <<stage, http>>
     ELSE Finish(t, StatusOf(reply[t], None)) /\ UNCHANGED vars
  /\ UNCHANGED route

\* Mutant: the two releases are not compared.
InfoReturnedUnchecked(t) ==
  /\ Returned(t, "get_release_info")
  /\ reply[t].kind = "ok"
  /\ Finish(t, StatusOf(checked[t], reply[t].version))
  /\ UNCHANGED <<vars, route, checked>>

\* The notes must be those of the release that check_updates announced.
InfoReturned(t) ==
  /\ Returned(t, "get_release_info")
  /\ reply[t].kind = "ok"
  /\ Finish(t, IF reply[t].version # checked[t].version
               THEN Unavailable("changed")
               ELSE StatusOf(checked[t], reply[t].version))
  /\ UNCHANGED <<vars, route, checked>>

-----------------------------------------------------------------------------
(* get_changes, request_update, request_restart *)

ChangesReturned(t) ==
  /\ Returned(t, "get_release_changes")
  /\ reply[t].kind \in {"ok", "degraded"}
  /\ Finish(t, StatusOf(reply[t], reply[t].version))
  /\ UNCHANGED <<vars, route, checked>>

\* Mutant: the versions are compared again instead of reading has_update.
UpdateCheckedByVersion(t) ==
  /\ Returned(t, "check_updates") /\ route[t] = "request_update"
  /\ reply[t].kind \in {"ok", "degraded"}
  /\ checked' = [checked EXCEPT ![t] = reply[t]]
  /\ IF reply[t].version \notin {None, Current}
     THEN stage' = [stage EXCEPT ![t] = "posting"] /\ UNCHANGED http
     ELSE Finish(t, Accepted("up_to_date"))
  /\ UNCHANGED <<vars, route>>

UpdateChecked(t) ==
  /\ Returned(t, "check_updates") /\ route[t] = "request_update"
  /\ reply[t].kind \in {"ok", "degraded"}
  /\ checked' = [checked EXCEPT ![t] = reply[t]]
  /\ IF reply[t].version # None /\ reply[t].update
     THEN stage' = [stage EXCEPT ![t] = "posting"] /\ UNCHANGED http
     ELSE Finish(t, IF reply[t].version = None THEN Unavailable("error")
                    ELSE Accepted("up_to_date"))
  /\ UNCHANGED <<vars, route>>

\* UpdaterClient._post: the sidecar schedules the operation, or refuses it, or no
\* answer comes within five seconds; an answer cut short ends the thread, since
\* that exception of http.client is in no except clause.
PostUpdater(t) ==
  /\ stage[t] = "posting"
  /\ \E answer \in {Accepted("scheduled"), Unavailable("error"), NoResponse} :
       Finish(t, answer)
  /\ UNCHANGED <<vars, route, checked>>

-----------------------------------------------------------------------------
ClientStep(t) == stage[t] = "calling" /\ Step(t) /\ UNCHANGED service

Handle(t) ==
  \/ ClientStep(t)
  \/ CallFails(t) \/ StatusChecked(t) \/ InfoReturned(t)
  \/ ChangesReturned(t) \/ UpdateChecked(t) \/ PostUpdater(t)

SNext ==
  \/ (Publish \/ Tick) /\ UNCHANGED service
  \/ \E t \in Threads : Handle(t) \/ \E r \in Operations : Receive(t, r)

\* A runnable thread runs, a request to GitHub or to the sidecar ends (both have
\* a timeout), and a thread that waits for the lock gets it once it stays free.
\* Nothing makes GitHub publish, time pass or a client send a request.
SSpec == SInit /\ [][SNext]_svars /\ \A t \in Threads : WF_svars(Handle(t))

-----------------------------------------------------------------------------
(* Properties *)

STypeOK ==
  /\ TypeOK
  /\ stage \in [Threads -> {"new", "calling", "posting", "done"}]
  /\ route \in [Threads -> Operations]
  /\ checked \in [Threads -> Replies]
  /\ http \in [Threads ->
       [code : {0, 200, 202, 503},
        detail : {"none", "error", "changed", "up_to_date", "scheduled"},
        latest : Known, update : BOOLEAN, changes : Known]]

\* A status that announces an update shows the notes of the very release it
\* announces, whatever other threads did to the two caches between the calls.
NotesMatchAnnouncement ==
  \A t \in Threads :
    http[t].code = 200 /\ http[t].update => http[t].changes = http[t].latest

\* The sidecar is asked to update only to a release that is not the running
\* version and was GitHub's latest less than a TTL before the check: never on
\* the strength of a degraded answer.
OnlyFreshUpdates ==
  \A t \in Threads :
    route[t] = "request_update" /\ (stage[t] = "posting" \/ http[t].detail = "scheduled")
      => /\ checked[t].version # Current
         /\ LatestSince(checked[t].version, now[t] - Ttl + 1)

\* Every request ends, with a response or a closed connection: no thread waits
\* for ever for the lock, whatever the thread holding it runs into.
EveryRequestEnds ==
  \A t \in Threads : stage[t] \in {"calling", "posting"} ~> stage[t] = "done"

\* What the callers see of a thread: the operation it serves, the release it looked
\* at, which check_updates or get_release_changes returned, whatever
\* get_release_info returned after it, and its answer.
AskedOf(t) == IF stage[t] = "new" THEN "none" ELSE route[t]

SawBy(t) ==
  IF checked[t] # NoReply THEN checked[t].version
  ELSE IF pc[t] = "returned" /\ reply[t].kind \in {"ok", "degraded"} THEN reply[t].version
  ELSE -1

AnswerOf(t) ==
  IF stage[t] # "done" THEN [kind |-> "pending", latest |-> None]
  ELSE IF http[t].code \in {200, 202} THEN [kind |-> "good", latest |-> http[t].latest]
  ELSE [kind |-> "failed", latest |-> None]

Promise == INSTANCE ApiPromise
  WITH Slots <- Threads, base <- None, known <- release,
       asked <- [t \in Threads |-> AskedOf(t)],
       saw <- [t \in Threads |-> SawBy(t)], answer <- [t \in Threads |-> AnswerOf(t)]

\* The API implements its promise: whatever the threads do to the two caches,
\* each answer is the release that was cached at one moment of the request, in an
\* order in which the cached release never gets older.
KeepsPromise == Promise!Spec

\* "Orchestrator release changed during status check": the 503 is sent when the
\* release get_release_info worked on is not the one check_updates announced.
ChangedMeansChanged ==
  \A t \in Threads : http[t].detail = "changed" => got[t] # checked[t].version

\* "Already up to date" is said when the running version is the latest one known.
UpToDateMeansCurrent ==
  \A t \in Threads : http[t].detail = "up_to_date" => checked[t].version = Current
=============================================================================
