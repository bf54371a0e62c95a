------------------------------ MODULE Deployment ------------------------------
(***************************************************************************)
(* The two containers of docker-compose.yml together: threads of the API   *)
(* post to the updater sidecar and wait for its answer, while the sidecar  *)
(* restarts or replaces the container they run in.  Nothing ties a POST to *)
(* the thread that sent it: the sidecar serves it also after the thread's  *)
(* five seconds are over, or when the API died, and an answer may be lost. *)
(***************************************************************************)
EXTENDS Updater

CONSTANT Earlier  \* requests of an API process that is gone, not served yet

ASSUME EarlierAssumption == Earlier \subseteq Requests

VARIABLE caller   \* per request, its API thread: "none", "waiting", "accepted",
                  \* "failed", or "gone" with the API process

dvars == <<vars, caller>>

DInit ==
  /\ Init
  /\ caller = [r \in Requests |-> IF r \in Earlier THEN "gone" ELSE "none"]

Waiting == {r \in Requests : caller[r] = "waiting"}

-----------------------------------------------------------------------------
(* UpdaterClient._post *)

Post(r) ==
  /\ caller[r] = "none"
  /\ caller' = [caller EXCEPT ![r] = "waiting"]
  /\ UNCHANGED vars

\* The sidecar accepts the connection and serves the request.
Deliver(r) ==
  /\ caller[r] # "none"
  /\ \E o \in Operations : Submit(r, o)
  /\ UNCHANGED caller

\* Mutant: any JSON object counts as an acceptance, a 409's too.
AcceptedAnyAnswer(r) ==
  /\ caller[r] = "waiting" /\ handler[r] \in {"scheduled", "refused"}
  /\ caller' = [caller EXCEPT ![r] = "accepted"]
  /\ UNCHANGED vars

\* The 202 arrives.
Accepted(r) ==
  /\ caller[r] = "waiting" /\ handler[r] = "scheduled"
  /\ caller' = [caller EXCEPT ![r] = "accepted"]
  /\ UNCHANGED vars

\* An UpdaterClientError: the 409 arrives, the connection fails or breaks, or the
\* timeout passes, whatever the sidecar has done or will do.
Fails(r) ==
  /\ caller[r] = "waiting"
  /\ caller' = [caller EXCEPT ![r] = "failed"]
  /\ UNCHANGED vars

-----------------------------------------------------------------------------
(* The API process *)

Gone == caller' = [r \in Requests |-> IF r \in Waiting THEN "gone" ELSE caller[r]]

\* It crashes; docker restarts it.
ApiDies == Waiting # {} /\ Gone /\ UNCHANGED vars

\* A rollback recreates the container by force; else compose up recreates it when
\* the image changed; a restart that fails may have left it alone.
Replaced(r) ==
  \/ worker[r] = "up_back" /\ worker'[r] = "done" /\ outcome'[r] = "restored"
  \/ container'.image # container.image
  \/ worker[r] = "restart" /\ outcome'[r] = "completed"

Spared(r) == worker[r] \notin {"restart", "up", "up_back"} \/ outcome'[r] = "os_error"

SidecarWorks(r) ==
  /\ Work(r)
  /\ \/ ~Spared(r) /\ Gone
     \/ ~Replaced(r) /\ UNCHANGED caller

\* The sidecar dies; a compose up it had started may have replaced the container.
SidecarDies ==
  /\ Crash
  /\ \/ (\E r \in Requests : worker[r] \in {"restart", "up", "up_back"}) /\ Gone
     \/ container'.image = container.image /\ UNCHANGED caller

-----------------------------------------------------------------------------
DNext ==
  \/ \E r \in Requests :
       \/ Post(r) \/ Deliver(r) \/ Accepted(r) \/ Fails(r)
       \/ (StartWorker(r) \/ StartFails(r)) /\ UNCHANGED caller
       \/ SidecarWorks(r)
  \/ HealthChanges /\ UNCHANGED caller
  \/ ApiDies \/ SidecarDies

\* The sidecar's fairness.  No POST need ever arrive, no answer come back.
DSpec ==
  /\ DInit /\ [][DNext]_dvars
  /\ \A r \in Requests :
       /\ WF_dvars(SidecarWorks(r))
       /\ WF_dvars((StartWorker(r) \/ StartFails(r)) /\ UNCHANGED caller)

-----------------------------------------------------------------------------
(* Properties *)

Callers == {"none", "waiting", "accepted", "failed", "gone"}

DTypeOK == TypeOK /\ caller \in [Requests -> Callers]

\* A caller is told "scheduled" only of an operation that has a worker of its own,
\* or had one, whatever timeouts, crashes and other callers came in between.
AcceptedIsScheduled ==
  \A r \in Requests :
    caller[r] = "accepted" => handler[r] = "scheduled" /\ worker[r] # "none"

\* What was accepted is brought to an end on record, also when it ends the very
\* API process that accepted it, or the sidecar dies.
AcceptedEnds == \A r \in Requests \ Earlier : caller[r] = "accepted" ~> outcome[r] # "none"
=============================================================================
