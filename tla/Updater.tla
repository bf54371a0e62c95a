------------------------------- MODULE Updater -------------------------------
(***************************************************************************)
(* The privileged sidecar: the HTTP handlers and the OperationQueue of     *)
(* updater/server.py, and the health-checked rollout of                    *)
(* updater/pipeline.py.  Each POST is served by a thread of its own; the   *)
(* queue's lock is taken without blocking, handed to a background worker,  *)
(* and released by it.  A worker's stage is the docker command it is about *)
(* to run.  Docker itself is external: two local tags and the container; the   *)
(* registry may serve another image at every pull.                         *)
(***************************************************************************)
CONSTANTS
  Requests,    \* the POST requests, authenticated
  Images,      \* images of the API
  Sound,       \* the images whose container passes its healthcheck
  FirstImage,  \* the image deployed at first
  NoImage,     \* no image yet
  Free         \* value of the lock when nobody holds it

ASSUME ImagesAssumption == Sound \subseteq Images /\ FirstImage \in Sound
ASSUME NoImageAssumption == NoImage \notin Images
ASSUME FreeAssumption == Free \notin Requests

Operations == {"update", "restart"}

\* The docker commands of an update inside the try block, and in its handler.
Rollout  == {"pull", "up"}
Rollback == {"retag", "up_back"}

\* The stages at which the worker of a request is alive.
Working == {"sleep", "inspect", "tag_old", "restart"} \cup Rollout \cup Rollback

\* How an operation ended: "failed" before the rollout, "both_failed" when the
\* rollback failed too, "os_error" when a command could not be run at all,
\* "lost" with the updater process.
Outcomes == {"completed", "restored", "both_failed", "failed", "os_error", "lost"}

Containers == [image : Images, healthy : BOOLEAN]

VARIABLES
  lock,       \* OperationQueue._lock: the request that acquired it
  handler,    \* per request: "new", "locked", "scheduled" (202), "refused" (409),
              \* "dropped" without a response
  operation,  \* per request: update or restart
  worker,     \* per request: the stage of its worker, "none" before and "done" after
  outcome,    \* per request: how its operation ended, "none" before
  old,        \* per request: old_image, the image found at its start
  latest,     \* docker: the local tag the service is deployed from
  rollback,   \* docker: the local rollback tag
  container   \* docker: the API container

queue  == <<lock, handler, operation>>
work   == <<worker, outcome, old>>
docker == <<latest, rollback, container>>
vars   == <<queue, work, docker>>

Init ==
  /\ lock = Free
  /\ handler   = [r \in Requests |-> "new"]
  /\ operation = [r \in Requests |-> "update"]
  /\ worker    = [r \in Requests |-> "none"]
  /\ outcome   = [r \in Requests |-> "none"]
  /\ old       = [r \in Requests |-> NoImage]
  /\ latest = FirstImage /\ rollback = NoImage
  /\ container = [image |-> FirstImage, healthy |-> TRUE]

-----------------------------------------------------------------------------
(* OperationQueue.submit *)

\* Mutant: every request is accepted.
SubmitAlways(r, o) ==
  /\ handler[r] = "new"
  /\ operation' = [operation EXCEPT ![r] = o]
  /\ lock' = r /\ handler' = [handler EXCEPT ![r] = "locked"]
  /\ UNCHANGED <<work, docker>>

\* Mutant: the 202 is sent before the worker is started.
SubmitAcknowledging(r, o) ==
  /\ handler[r] = "new"
  /\ operation' = [operation EXCEPT ![r] = o]
  /\ IF lock = Free
     THEN lock' = r /\ handler' = [handler EXCEPT ![r] = "scheduled"]
     ELSE handler' = [handler EXCEPT ![r] = "refused"] /\ UNCHANGED lock
  /\ UNCHANGED <<work, docker>>

Submit(r, o) ==
  /\ handler[r] = "new"
  /\ operation' = [operation EXCEPT ![r] = o]
  /\ IF lock = Free
     THEN lock' = r /\ handler' = [handler EXCEPT ![r] = "locked"]
     ELSE handler' = [handler EXCEPT ![r] = "refused"] /\ UNCHANGED lock
  /\ UNCHANGED <<work, docker>>

StartWorker(r) ==
  /\ handler[r] = "locked"
  /\ handler' = [handler EXCEPT ![r] = "scheduled"]
  /\ worker' = [worker EXCEPT ![r] = "sleep"]
  /\ UNCHANGED <<lock, operation, outcome, old, docker>>

\* No thread can be started: the handler dies of the exception, and the lock it
\* acquired stays taken.
StartFails(r) ==
  /\ handler[r] = "locked"
  /\ handler' = [handler EXCEPT ![r] = "dropped"]
  /\ UNCHANGED <<lock, operation, work, docker>>

-----------------------------------------------------------------------------
(* OperationQueue._run *)

Advance(r, from, to) ==
  /\ worker[r] = from
  /\ worker' = [worker EXCEPT ![r] = to]
  /\ UNCHANGED <<queue, outcome>>

\* The operation returned or raised; the finally clause releases the lock.
End(r, how) ==
  /\ worker' = [worker EXCEPT ![r] = "done"]
  /\ outcome' = [outcome EXCEPT ![r] = how]
  /\ old' = [old EXCEPT ![r] = NoImage]
  /\ lock' = Free
  /\ UNCHANGED <<handler, operation>>

Wake(r) ==
  /\ Advance(r, "sleep", IF operation[r] = "update" THEN "inspect" ELSE "restart")
  /\ UNCHANGED <<old, docker>>

-----------------------------------------------------------------------------
(* DockerPipeline.restart *)

\* The container comes back with the image it had, healthy or not, or stays down.
Restart(r) ==
  /\ worker[r] = "restart"
  /\ container' \in {c \in Containers : /\ c.image = container.image
                                        /\ c.healthy => c.image \in Sound}
  /\ \E how \in {"completed", "failed"} : End(r, how)
  /\ UNCHANGED <<latest, rollback>>

-----------------------------------------------------------------------------
(* DockerPipeline.update *)

\* Mutant: the output of the inspection is lost.
InspectNothing(r) ==
  /\ Advance(r, "inspect", "tag_old")
  /\ UNCHANGED <<old, docker>>

Inspect(r) ==
  /\ Advance(r, "inspect", "tag_old")
  /\ old' = [old EXCEPT ![r] = container.image]
  /\ UNCHANGED docker

\* Mutant: the tag the service is deployed from is kept, not the running image.
TagLatest(r) ==
  /\ Advance(r, "tag_old", "pull")
  /\ rollback' = latest
  /\ UNCHANGED <<old, latest, container>>

TagOld(r) ==
  /\ Advance(r, "tag_old", "pull")
  /\ rollback' = old[r]
  /\ UNCHANGED <<old, latest, container>>

\* A command before the try block fails: nothing is rolled back, or needs to be.
FailEarly(r) ==
  /\ worker[r] \in {"inspect", "tag_old"}
  /\ End(r, "failed")
  /\ UNCHANGED docker

Pull(r) ==
  /\ Advance(r, "pull", "up")
  /\ latest' \in Images
  /\ UNCHANGED <<old, rollback, container>>

PullFails(r) ==
  /\ Advance(r, "pull", "retag")
  /\ UNCHANGED <<old, docker>>

\* Mutant: the command does not wait for the healthcheck.
DeployedUnawaited == container' = [image |-> latest, healthy |-> latest \in Sound]

\* docker compose up --wait: the container runs the local tag's image and passed
\* its healthcheck.  Without force a container of that image is left running.
Deployed ==
  /\ latest \in Sound
  /\ container' = [image |-> latest, healthy |-> TRUE]

\* It failed before it touched the container, or the new container is unhealthy.
NotDeployed == container' \in {container, [image |-> latest, healthy |-> FALSE]}

Up(r) ==
  /\ worker[r] = "up"
  /\ Deployed
  /\ End(r, "completed")
  /\ UNCHANGED <<latest, rollback>>

\* Mutant: only a failed pull is rolled back.
UpFailsForGood(r) ==
  /\ worker[r] = "up"
  /\ NotDeployed
  /\ End(r, "failed")
  /\ UNCHANGED <<latest, rollback>>

UpFails(r) ==
  /\ Advance(r, "up", "retag")
  /\ NotDeployed
  /\ UNCHANGED <<old, latest, rollback>>

\* Mutant: the rollback forgets to move the local tag back.
RetagNothing(r) ==
  /\ Advance(r, "retag", "up_back")
  /\ UNCHANGED <<old, docker>>

Retag(r) ==
  /\ Advance(r, "retag", "up_back")
  /\ latest' = rollback
  /\ UNCHANGED <<old, rollback, container>>

RetagFails(r) ==
  /\ worker[r] = "retag"
  /\ End(r, "both_failed")
  /\ UNCHANGED docker

UpBack(r) ==
  /\ worker[r] = "up_back"
  /\ Deployed
  /\ End(r, "restored")
  /\ UNCHANGED <<latest, rollback>>

UpBackFails(r) ==
  /\ worker[r] = "up_back"
  /\ NotDeployed
  /\ End(r, "both_failed")
  /\ UNCHANGED <<latest, rollback>>

\* Mutant: the lock is released after a failed command only, not by a finally clause.
CannotRunLocked(r) ==
  /\ worker[r] \in Working \ {"sleep"}
  /\ worker' = [worker EXCEPT ![r] = "done"]
  /\ outcome' = [outcome EXCEPT ![r] = "os_error"]
  /\ old' = [old EXCEPT ![r] = NoImage]
  /\ UNCHANGED <<queue, docker>>

\* The docker client cannot be executed.  OSError is no CalledProcessError: even
\* inside the try block nothing is rolled back.
CannotRun(r) ==
  /\ worker[r] \in Working \ {"sleep"}
  /\ End(r, "os_error")
  /\ UNCHANGED docker

-----------------------------------------------------------------------------
(* The environment *)

\* A container's health changes by itself; an unsound image never gets healthy.
HealthChanges ==
  /\ container' = [container EXCEPT !.healthy = ~@]
  /\ container'.healthy => container.image \in Sound
  /\ UNCHANGED <<queue, work, latest, rollback>>

\* The updater process dies with its threads and is restarted: the queue starts
\* empty, docker keeps what the commands did; one of them may have been half done.
Crash ==
  /\ handler' = [r \in Requests |-> IF handler[r] = "locked" THEN "dropped" ELSE handler[r]]
  /\ worker'  = [r \in Requests |-> IF worker[r] \in Working THEN "done" ELSE worker[r]]
  /\ outcome' = [r \in Requests |-> IF worker[r] \in Working THEN "lost" ELSE outcome[r]]
  /\ lock' = Free
  /\ IF \E r \in Requests : worker[r] \in {"up", "up_back"}
     THEN NotDeployed ELSE UNCHANGED container
  /\ old' = [r \in Requests |-> NoImage]
  /\ UNCHANGED <<operation, latest, rollback>>

-----------------------------------------------------------------------------
Work(r) ==
  \/ Wake(r) \/ Restart(r)
  \/ Inspect(r) \/ TagOld(r) \/ FailEarly(r)
  \/ Pull(r) \/ PullFails(r) \/ Up(r) \/ UpFails(r)
  \/ Retag(r) \/ RetagFails(r) \/ UpBack(r) \/ UpBackFails(r)
  \/ CannotRun(r)

Next ==
  \/ \E r \in Requests : \/ \E o \in Operations : Submit(r, o)
                         \/ StartWorker(r) \/ StartFails(r)
                         \/ Work(r)
  \/ HealthChanges \/ Crash

\* A started worker runs, and docker commands end (compose up by its own
\* timeout; a pull has none, so that is assumed of docker).
Spec ==
  /\ Init /\ [][Next]_vars
  /\ \A r \in Requests : WF_vars(Work(r)) /\ WF_vars(StartWorker(r) \/ StartFails(r))
-----------------------------------------------------------------------------
(* Properties *)

TypeOK ==
  /\ lock \in Requests \cup {Free}
  /\ handler \in [Requests -> {"new", "locked", "scheduled", "refused", "dropped"}]
  /\ operation \in [Requests -> Operations]
  /\ worker \in [Requests -> Working \cup {"none", "done"}]
  /\ outcome \in [Requests -> Outcomes \cup {"none"}]
  /\ old \in [Requests -> Images \cup {NoImage}]
  /\ latest \in Images /\ rollback \in Images \cup {NoImage}
  /\ container \in Containers

\* "Run one destructive Docker operation at a time": two workers are never alive
\* together, across refusals, failures and restarts of the updater.
OneAtATime ==
  \A r, s \in Requests : worker[r] \in Working /\ worker[s] \in Working => r = s

\* From the moment an update starts to pull until it ends, the rollback tag names
\* the image it found running: no other operation moves the tag in between.
RollbackTagHeld ==
  \A r \in Requests : worker[r] \in Rollout \cup Rollback => rollback = old[r]

\* "previous healthy image restored": when an update ends so, the container runs
\* the image the update had found, and it is healthy.
RestoredIsOld ==
  [][\A r \in Requests :
       outcome[r] # outcome'[r] /\ outcome'[r] = "restored"
         => container' = [image |-> old[r], healthy |-> TRUE]]_vars

\* No sequence of bad releases breaks the deployment: as long as no rollback
\* failed, no docker client was missing and the updater did not die, the API runs
\* a sound image whenever no rollback is under way.
NoBadImageLeft ==
  (\A r \in Requests : /\ outcome[r] \notin {"both_failed", "os_error", "lost"}
                       /\ worker[r] \notin Rollback)
    => container.image \in Sound

\* The sidecar never refuses for ever: whoever acquired the lock gives it back,
\* however its operation fails, unless its worker could not be started at all.
LockGivenBack ==
  \A r \in Requests : lock = r ~> lock # r \/ handler[r] = "dropped"

\* "Operation already running": a 409 is only sent while an operation runs.
ConflictMeansRunning ==
  [][\A r \in Requests :
       handler[r] # handler'[r] /\ handler'[r] = "refused"
         => \E s \in Requests : handler[s] = "locked" \/ worker[s] \in Working]_vars

\* The image an ended operation left deployed: while an update works, still the
\* image it found.
Committed ==
  IF lock # Free /\ worker[lock] \in {"tag_old"} \cup Rollout \cup Rollback
  THEN old[lock] ELSE container.image

Promise == INSTANCE AtomicRollout WITH running <- lock, committed <- Committed, verdict <- outcome

\* The queue and the pipeline together are a transaction on the deployed image:
\* whatever command fails and wherever, an update that is not on record as broken
\* ends with the new image healthy or with the image it found (module AtomicRollout).
Transactional == Promise!Spec

\* UpdateError, "Raised after a failed rollout has been rolled back": an update
\* that ends with it leaves the image it had found in the container.
RaisedMeansRolledBack ==
  [][\A r \in Requests :
       outcome[r] # outcome'[r] /\ outcome'[r] \in {"restored", "both_failed"}
         => container'.image = old[r]]_vars
=============================================================================
