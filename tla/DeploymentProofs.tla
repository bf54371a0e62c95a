--------------------------- MODULE DeploymentProofs ---------------------------
(***************************************************************************)
(* The sidecar keeps all it promises when real callers post to it, and an  *)
(* acceptance is never wrong, proved for any requests and images.          *)
(***************************************************************************)
EXTENDS Deployment, UpdaterProofs

\* A scheduled request has its worker, running or done, and was not accepted before.
ScheduledInv ==
  \A r \in Requests :
    /\ handler[r] = "scheduled" => worker[r] # "none"
    /\ caller[r] = "accepted" => handler[r] = "scheduled"

DInv ==
  /\ IInv
  /\ caller \in [Requests -> Callers]
  /\ ScheduledInv

\* Whatever the callers do, the sidecar takes a step of its own or none.
LEMMA StepImplements == [DNext]_dvars => [Next]_vars
  BY DEF DNext, dvars, Next, Post, Deliver, Accepted, Fails, SidecarWorks, ApiDies, SidecarDies,
         Operations

LEMMA CallerNext ==
  caller \in [Requests -> Callers] /\ [DNext]_dvars => caller' \in [Requests -> Callers]
  BY DEF DNext, dvars, Post, Deliver, Accepted, Fails, SidecarWorks, ApiDies, SidecarDies, Gone,
         Callers

\* No step takes a scheduled request back, and none schedules it but StartWorker.
LEMMA HandlerNext ==
  ASSUME TypeOK, [Next]_vars, NEW r \in Requests
  PROVE  /\ handler[r] = "scheduled" => handler'[r] = "scheduled"
         /\ worker[r] # "none" => worker'[r] # "none"
         /\ handler'[r] = "scheduled" => handler[r] = "scheduled" \/ worker'[r] # "none"
  <1> USE DEF TypeOK, queue, work
  <1>1. ASSUME NEW s \in Requests, Work(s)
        PROVE  handler' = handler /\ (worker[r] # "none" => worker'[r] # "none")
    <2>1. ASSUME NEW from \in Working, NEW to \in Working, Advance(s, from, to)
          PROVE  handler' = handler /\ (worker[r] # "none" => worker'[r] # "none")
      BY <2>1 DEF Advance, Working, Rollout, Rollback
    <2>2. ASSUME NEW how \in Outcomes, End(s, how)
          PROVE  handler' = handler /\ (worker[r] # "none" => worker'[r] # "none")
      BY <2>2 DEF End
    <2> QED
      BY <1>1, <2>1, <2>2, WorkAdvancesOrEnds
  <1>2. ASSUME NEW s \in Requests, NEW o \in Operations, Submit(s, o)
        PROVE  /\ worker' = worker
               /\ handler[r] = "scheduled" <=> handler'[r] = "scheduled"
    BY <1>2 DEF Submit
  <1>3. ASSUME NEW s \in Requests, StartWorker(s) \/ StartFails(s)
        PROVE  /\ handler[r] = "scheduled" => handler'[r] = "scheduled"
               /\ worker[r] # "none" => worker'[r] # "none"
               /\ handler'[r] = "scheduled" => handler[r] = "scheduled" \/ worker'[r] # "none"
    BY <1>3 DEF StartWorker, StartFails
  <1>4. CASE Crash
    BY <1>4 DEF Crash
  <1>5. CASE HealthChanges \/ UNCHANGED vars
    BY <1>5 DEF HealthChanges, vars
  <1> QED
    BY <1>1, <1>2, <1>3, <1>4, <1>5 DEF Next

LEMMA DInvInit == DInit => DInv
  <1> SUFFICES ASSUME DInit PROVE DInv
    OBVIOUS
  <1>1. IInv
    BY InitHolds DEF DInit
  <1>2. caller \in [Requests -> Callers]
    BY DEF DInit, Callers
  <1>3. ScheduledInv
    BY DEF DInit, Init, ScheduledInv
  <1> QED
    BY <1>1, <1>2, <1>3 DEF DInv

LEMMA DInvNext == DInv /\ [DNext]_dvars => DInv'
  <1> SUFFICES ASSUME DInv, [DNext]_dvars PROVE DInv'
    OBVIOUS
  <1>1. IInv'
    BY StepImplements, StepHolds DEF DInv
  <1>2. caller' \in [Requests -> Callers]
    BY CallerNext DEF DInv
  <1>3. ASSUME NEW r \in Requests, caller'[r] = "accepted" PROVE handler[r] = "scheduled"
    <2>1. caller[r] = "accepted" \/ \E s \in Requests : Accepted(s) /\ s = r
      BY <1>3 DEF DInv, DNext, dvars, Post, Deliver, Accepted, Fails, SidecarWorks, ApiDies,
                  SidecarDies, Gone
    <2> QED
      BY <2>1 DEF DInv, ScheduledInv, Accepted
  <1>4. TypeOK
    BY DEF DInv, IInv
  <1>5. ScheduledInv'
    BY <1>3, <1>4, HandlerNext, StepImplements DEF DInv, ScheduledInv
  <1> QED
    BY <1>1, <1>2, <1>5 DEF DInv

LEMMA DInvariance == DSpec => []DInv
  BY DInvInit, DInvNext, PTL DEF DSpec

\* The deployment only takes steps of the sidecar: what UpdaterProofs proves of it
\* from its next-state relation holds with real callers.
THEOREM DeploymentImplementsSidecar == DSpec => Init /\ [][Next]_vars
  <1>1. DInit => Init
    BY DEF DInit
  <1> QED
    BY <1>1, StepImplements, PTL DEF DSpec

\* The types of the sidecar, of docker and of the callers are kept.
THEOREM DeploymentTypeCorrect == DSpec => []DTypeOK
  <1>1. DInv => DTypeOK
    BY DEF DInv, IInv, DTypeOK
  <1> QED
    BY <1>1, DInvariance, PTL

\* Exclusion, the tag of the rollback and soundness hold in the whole deployment.
THEOREM DeploymentSafe == DSpec => [](OneAtATime /\ RollbackTagHeld /\ NoBadImageLeft)
  <1>1. DInv => OneAtATime /\ RollbackTagHeld /\ NoBadImageLeft
    BY Exclusive DEF DInv, IInv, OneAtATime
  <1> QED
    BY <1>1, DInvariance, PTL

\* Each operation stays a transaction on the deployed image, and what a rollback
\* restored is what its update found, also when the operation replaces the container
\* of the very API that asked for it, and whoever is still waiting or long gone.
THEOREM DeploymentAtomic == DSpec => Transactional /\ RestoredIsOld
  BY DeploymentImplementsSidecar, Restores, Implements, PTL

\* request_update and request_restart: "scheduled" is only said of an operation that
\* has, or had, its worker, for any number of posts, timeouts and crashes.
THEOREM Acceptance == DSpec => []AcceptedIsScheduled
  <1>1. DInv => AcceptedIsScheduled
    BY DEF DInv, ScheduledInv, AcceptedIsScheduled
  <1> QED
    BY <1>1, DInvariance, PTL
=============================================================================
