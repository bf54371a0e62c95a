---------------------------- MODULE UpdaterProofs ----------------------------
(***************************************************************************)
(* What the sidecar promises, proved for any set of requests and images.   *)
(***************************************************************************)
EXTENDS Updater, TLAPS

\* The stages at which a worker holds the image it found.
HoldsOld == {"tag_old"} \cup Rollout \cup Rollback

\* A request whose handler or worker is alive past the submission owns the lock;
\* a worker runs only once its handler has started it.
LockInv ==
  \A r \in Requests :
    /\ handler[r] = "locked" \/ worker[r] \in Working => lock = r
    /\ worker[r] # "none" => handler[r] = "scheduled"

\* A worker that goes on past the inspection has an image to return to.
OldInv == \A r \in Requests : worker[r] \in HoldsOld => old[r] \in Images

\* An operation has one outcome, at its end.
OutcomeInv == \A r \in Requests : worker[r] # "done" => outcome[r] = "none"

\* The rollback deploys the image the update found.
RetagInv == \A r \in Requests : worker[r] = "up_back" => latest = old[r]

IInv ==
  /\ TypeOK
  /\ LockInv
  /\ OldInv
  /\ OutcomeInv
  /\ RollbackTagHeld
  /\ RetagInv
  /\ NoBadImageLeft

-----------------------------------------------------------------------------
LEMMA InitHolds == Init => IInv
  BY ImagesAssumption, FreeAssumption
  DEF Init, IInv, TypeOK, LockInv, OldInv, OutcomeInv, RollbackTagHeld, RetagInv,
      NoBadImageLeft, HoldsOld, Working, Rollout, Rollback, Operations, Containers

\* What compose up leaves behind is a container.
LEMMA ContainerOf ==
  ASSUME NEW image \in Images, NEW healthy \in BOOLEAN
  PROVE  [image |-> image, healthy |-> healthy] \in Containers
  BY DEF Containers

LEMMA DeployedType ==
  ASSUME container \in Containers, latest \in Images, Deployed \/ NotDeployed
  PROVE  container' \in Containers
  <1>1. /\ [image |-> latest, healthy |-> TRUE] \in Containers
        /\ [image |-> latest, healthy |-> FALSE] \in Containers
    BY ContainerOf
  <1> QED
    BY <1>1 DEF Deployed, NotDeployed

\* Types.  Retag deploys from the rollback tag: that it names an image is the
\* rollback invariant, not a type.
LEMMA TypeNext == TypeOK /\ OldInv /\ RollbackTagHeld /\ [Next]_vars => TypeOK'
  <1> SUFFICES ASSUME TypeOK, OldInv, RollbackTagHeld, [Next]_vars PROVE TypeOK'
    OBVIOUS
  <1> USE DEF TypeOK, queue, work, docker
  <1>1. ASSUME NEW r \in Requests, NEW o \in Operations, Submit(r, o) PROVE TypeOK'
    BY <1>1 DEF Submit
  <1>2. ASSUME NEW r \in Requests, StartWorker(r) \/ StartFails(r) PROVE TypeOK'
    BY <1>2 DEF StartWorker, StartFails, Working
  <1>3. ASSUME NEW r \in Requests, Work(r) PROVE TypeOK'
    <2> USE DEF Advance, End, Working, Rollout, Rollback, Outcomes
    <2>1. CASE Wake(r) \/ TagOld(r) \/ PullFails(r)
      BY <2>1 DEF Wake, TagOld, PullFails
    <2>2. CASE Inspect(r) \/ Pull(r)
      BY <2>2 DEF Inspect, Pull, Containers
    <2>3. CASE Restart(r)
      BY <2>3 DEF Restart
    <2>4. CASE FailEarly(r) \/ RetagFails(r) \/ CannotRun(r)
      BY <2>4 DEF FailEarly, RetagFails, CannotRun
    <2>5. CASE Up(r) \/ UpBack(r)
      <3>1. container' \in Containers
        BY <2>5, DeployedType DEF Up, UpBack
      <3> QED
        BY <2>5, <3>1 DEF Up, UpBack
    <2>6. CASE UpFails(r) \/ UpBackFails(r)
      <3>1. container' \in Containers
        BY <2>6, DeployedType DEF UpFails, UpBackFails
      <3> QED
        BY <2>6, <3>1 DEF UpFails, UpBackFails
    <2>7. CASE Retag(r)
      BY <2>7 DEF Retag, OldInv, RollbackTagHeld, HoldsOld
    <2> QED
      BY <1>3, <2>1, <2>2, <2>3, <2>4, <2>5, <2>6, <2>7 DEF Work
  <1>4. CASE HealthChanges
    BY <1>4 DEF HealthChanges, Containers
  <1>5. CASE Crash
    <2>1. container' \in Containers
      BY <1>5, DeployedType DEF Crash
    <2> QED
      BY <1>5, <2>1 DEF Crash, Outcomes
  <1>6. CASE UNCHANGED vars
    BY <1>6 DEF vars
  <1> QED
    BY <1>1, <1>2, <1>3, <1>4, <1>5, <1>6 DEF Next

-----------------------------------------------------------------------------
(* The lock.  Advance and End are what every worker step does to the queue.*)

LEMMA WorkAdvancesOrEnds ==
  ASSUME NEW r \in Requests, Work(r)
  PROVE  /\ worker[r] \in Working
         /\ \/ \E from, to \in Working : Advance(r, from, to)
            \/ \E how \in Outcomes : End(r, how)
  BY DEF Work, Wake, Restart, Inspect, TagOld, FailEarly, Pull, PullFails, Up, UpFails,
         Retag, RetagFails, UpBack, UpBackFails, CannotRun, Advance, End, Working,
         Rollout, Rollback, Outcomes

LEMMA LockNext == TypeOK /\ LockInv /\ [Next]_vars => LockInv'
  <1> SUFFICES ASSUME TypeOK, LockInv, [Next]_vars PROVE LockInv'
    OBVIOUS
  <1> USE DEF TypeOK, LockInv, queue, work
  <1>1. ASSUME NEW r \in Requests, NEW o \in Operations, Submit(r, o) PROVE LockInv'
    BY <1>1, FreeAssumption DEF Submit
  <1>2. ASSUME NEW r \in Requests, StartWorker(r) \/ StartFails(r) PROVE LockInv'
    BY <1>2 DEF StartWorker, StartFails
  <1>3. ASSUME NEW r \in Requests, Work(r) PROVE LockInv'
    <2>1. worker[r] \in Working /\ lock = r
      BY <1>3, WorkAdvancesOrEnds
    <2>2. ASSUME NEW from \in Working, NEW to \in Working, Advance(r, from, to) PROVE LockInv'
      BY <2>1, <2>2 DEF Advance, Working, Rollout, Rollback
    <2>3. ASSUME NEW how \in Outcomes, End(r, how) PROVE LockInv'
      BY <2>1, <2>3 DEF End, Working, Rollout, Rollback
    <2> QED
      BY <1>3, <2>2, <2>3, WorkAdvancesOrEnds
  <1>4. CASE HealthChanges
    BY <1>4 DEF HealthChanges
  <1>5. CASE Crash
    BY <1>5 DEF Crash, Working, Rollout, Rollback
  <1>6. CASE UNCHANGED vars
    BY <1>6 DEF vars
  <1> QED
    BY <1>1, <1>2, <1>3, <1>4, <1>5, <1>6 DEF Next

LEMMA OutcomeNext == TypeOK /\ LockInv /\ OutcomeInv /\ [Next]_vars => OutcomeInv'
  <1> SUFFICES ASSUME TypeOK, LockInv, OutcomeInv, [Next]_vars PROVE OutcomeInv'
    OBVIOUS
  <1> USE DEF TypeOK, OutcomeInv, queue, work
  <1>1. ASSUME NEW r \in Requests, NEW o \in Operations, Submit(r, o) PROVE OutcomeInv'
    BY <1>1 DEF Submit
  <1>2. ASSUME NEW r \in Requests, StartWorker(r) \/ StartFails(r) PROVE OutcomeInv'
    BY <1>2 DEF StartWorker, StartFails, LockInv
  <1>3. ASSUME NEW r \in Requests, Work(r) PROVE OutcomeInv'
    <2>1. ASSUME NEW from \in Working, NEW to \in Working, Advance(r, from, to)
          PROVE  OutcomeInv'
      BY <2>1 DEF Advance, Working, Rollout, Rollback
    <2>2. ASSUME NEW how \in Outcomes, End(r, how) PROVE OutcomeInv'
      BY <2>2 DEF End
    <2> QED
      BY <1>3, <2>1, <2>2, WorkAdvancesOrEnds
  <1>4. CASE HealthChanges
    BY <1>4 DEF HealthChanges
  <1>5. CASE Crash
    BY <1>5 DEF Crash
  <1>6. CASE UNCHANGED vars
    BY <1>6 DEF vars
  <1> QED
    BY <1>1, <1>2, <1>3, <1>4, <1>5, <1>6 DEF Next

-----------------------------------------------------------------------------
(* The rollback: at most one worker holds an image to return to, so only its *)
(* own steps move the tags.                                                  *)

LEMMA Exclusive ==
  ASSUME LockInv, NEW r \in Requests, NEW s \in Requests,
         worker[r] \in Working, worker[s] \in Working
  PROVE  r = s
  BY DEF LockInv

LEMMA TagsNext ==
  TypeOK /\ LockInv /\ OldInv /\ RollbackTagHeld /\ RetagInv /\ [Next]_vars
    => OldInv' /\ RollbackTagHeld' /\ RetagInv'
  <1> SUFFICES ASSUME TypeOK, LockInv, OldInv, RollbackTagHeld, RetagInv, [Next]_vars
               PROVE  OldInv' /\ RollbackTagHeld' /\ RetagInv'
    OBVIOUS
  <1> DEFINE Goal == OldInv' /\ RollbackTagHeld' /\ RetagInv'
  <1> SUFFICES Goal
    OBVIOUS
  <1> USE DEF OldInv, RollbackTagHeld, RetagInv, queue, work, docker, HoldsOld, Rollout,
              Rollback
  <1>1. ASSUME NEW r \in Requests, NEW o \in Operations, Submit(r, o) PROVE Goal
    BY <1>1 DEF Submit
  <1>2. ASSUME NEW r \in Requests, StartWorker(r) \/ StartFails(r) PROVE Goal
    BY <1>2 DEF StartWorker, StartFails, TypeOK
  <1>3. ASSUME NEW r \in Requests, Work(r) PROVE Goal
    <2> USE DEF TypeOK
    <2>1. worker[r] \in Working
      BY <1>3, WorkAdvancesOrEnds
    <2>2. ASSUME NEW s \in Requests, s # r PROVE worker[s] \notin HoldsOld
      BY <2>1, <2>2, Exclusive DEF Working
    <2>3. ASSUME NEW how \in Outcomes, End(r, how) PROVE Goal
      BY <2>2, <2>3 DEF End
    <2>4. CASE Wake(r)
      BY <2>4 DEF Wake, Advance
    <2>5. CASE Inspect(r)
      <3>1. container.image \in Images
        BY DEF Containers
      <3> QED
        BY <2>2, <2>5, <3>1 DEF Inspect, Advance
    <2>6. CASE TagOld(r)
      BY <2>2, <2>6 DEF TagOld, Advance
    <2>7. CASE Pull(r) \/ PullFails(r) \/ UpFails(r)
      BY <2>2, <2>7 DEF Pull, PullFails, UpFails, Advance
    <2>8. CASE Retag(r)
      BY <2>2, <2>8 DEF Retag, Advance
    <2> QED
      BY <1>3, <2>3, <2>4, <2>5, <2>6, <2>7, <2>8
      DEF Work, Restart, FailEarly, Up, RetagFails, UpBack, UpBackFails, CannotRun, Outcomes
  <1>4. CASE HealthChanges
    BY <1>4 DEF HealthChanges
  <1>5. CASE Crash
    BY <1>5 DEF Crash, Working
  <1>6. CASE UNCHANGED vars
    BY <1>6 DEF vars
  <1> QED
    BY <1>1, <1>2, <1>3, <1>4, <1>5, <1>6 DEF Next

\* The image in the container.  A step that ends a rollback otherwise than by a
\* healthy deployment leaves an outcome that says so for ever.
LEMMA SoundNext ==
  TypeOK /\ LockInv /\ OutcomeInv /\ NoBadImageLeft /\ [Next]_vars => NoBadImageLeft'
  <1> SUFFICES ASSUME TypeOK, LockInv, OutcomeInv, NoBadImageLeft, [Next]_vars
               PROVE  NoBadImageLeft'
    OBVIOUS
  <1> DEFINE Bad == {"both_failed", "os_error", "lost"}
             Tame == \A r \in Requests : outcome[r] \notin Bad /\ worker[r] \notin Rollback
  <1>0. Tame => container.image \in Sound
    BY DEF NoBadImageLeft
  <1> SUFFICES ASSUME Tame' PROVE container'.image \in Sound
    BY DEF NoBadImageLeft
  <1> USE DEF TypeOK, queue, work, docker, Rollback
  <1>1. ASSUME NEW r \in Requests, NEW o \in Operations, Submit(r, o)
        PROVE  container'.image \in Sound
    BY <1>0, <1>1 DEF Submit
  <1>2. ASSUME NEW r \in Requests, StartWorker(r) \/ StartFails(r)
        PROVE  container'.image \in Sound
    <2>1. worker[r] \notin Rollback
      BY <1>2 DEF StartWorker, StartFails, LockInv
    <2> QED
      BY <1>0, <1>2, <2>1 DEF StartWorker, StartFails
  <1>3. ASSUME NEW r \in Requests, Work(r) PROVE container'.image \in Sound
    <2>0. outcome[r] = "none" /\ worker[r] \in Working
      BY <1>3, WorkAdvancesOrEnds DEF OutcomeInv, Working, Rollout
    <2>1. CASE Wake(r) \/ Inspect(r) \/ TagOld(r) \/ Pull(r)
      BY <1>0, <2>1 DEF Wake, Inspect, TagOld, Pull, Advance
    <2>2. CASE Restart(r) \/ FailEarly(r)
      <3>1. container'.image = container.image
        BY <2>2 DEF Restart, FailEarly
      <3>2. Tame
        BY <2>0, <2>2 DEF Restart, FailEarly, End
      <3> QED
        BY <1>0, <3>1, <3>2
    <2>3. CASE Up(r) \/ UpBack(r)
      BY <2>3 DEF Up, UpBack, Deployed
    <2>4. CASE PullFails(r) \/ UpFails(r) \/ Retag(r)
      BY <2>4 DEF PullFails, UpFails, Retag, Advance
    <2>5. CASE RetagFails(r) \/ UpBackFails(r) \/ CannotRun(r)
      BY <2>5 DEF RetagFails, UpBackFails, CannotRun, End
    <2> QED
      BY <1>3, <2>1, <2>2, <2>3, <2>4, <2>5 DEF Work
  <1>4. CASE HealthChanges
    BY <1>0, <1>4 DEF HealthChanges, Containers
  <1>5. CASE Crash
    <2>1. \A r \in Requests : worker[r] \notin Working
      BY <1>5 DEF Crash
    <2>2. UNCHANGED <<container, outcome, worker>>
      BY <1>5, <2>1 DEF Crash, Working, Rollout
    <2> QED
      BY <1>0, <2>2
  <1>6. CASE UNCHANGED vars
    BY <1>0, <1>6 DEF vars
  <1> QED
    BY <1>1, <1>2, <1>3, <1>4, <1>5, <1>6 DEF Next

-----------------------------------------------------------------------------
(* The theorems *)

LEMMA StepHolds == IInv /\ [Next]_vars => IInv'
  BY TypeNext, LockNext, OutcomeNext, TagsNext, SoundNext DEF IInv

LEMMA Invariance == Spec => []IInv
  BY InitHolds, StepHolds, PTL DEF Spec

\* The types of the queue, the workers and docker are kept.
THEOREM TypeCorrect == Spec => []TypeOK
  <1>1. IInv => TypeOK
    BY DEF IInv
  <1> QED
    BY <1>1, Invariance, PTL

\* OperationQueue: never two operations at a time, for any number of requests,
\* failures and restarts.
THEOREM MutualExclusion == Spec => []OneAtATime
  <1>1. IInv => OneAtATime
    BY Exclusive DEF IInv, OneAtATime
  <1> QED
    BY <1>1, Invariance, PTL

\* DockerPipeline.update: the rollback tag names the image found at the start for
\* as long as the rollback may need it.
THEOREM TagHeld == Spec => []RollbackTagHeld
  <1>1. IInv => RollbackTagHeld
    BY DEF IInv
  <1> QED
    BY <1>1, Invariance, PTL

\* Next alone gives it, so it holds of every system that only takes these steps.
LEMMA Restores == Init /\ [][Next]_vars => RestoredIsOld
  <1>1. ASSUME IInv, [Next]_vars,
               NEW r \in Requests, outcome[r] # outcome'[r], outcome'[r] = "restored"
        PROVE  container' = [image |-> old[r], healthy |-> TRUE]
    <2> USE DEF queue, work, docker
    <2>1. UpBack(r)
      <3> USE DEF IInv, TypeOK
      <3>1. ASSUME NEW s \in Requests, Work(s) PROVE UpBack(s) /\ r = s
        BY <1>1, <3>1
        DEF Work, Wake, Restart, Inspect, TagOld, FailEarly, Pull, PullFails, Up, UpFails,
            Retag, RetagFails, UpBack, UpBackFails, CannotRun, Advance, End
      <3>2. ASSUME NEW s \in Requests, NEW o \in Operations,
                   Submit(s, o) \/ StartWorker(s) \/ StartFails(s)
            PROVE  FALSE
        BY <1>1, <3>2 DEF Submit, StartWorker, StartFails
      <3>3. CASE HealthChanges \/ Crash \/ UNCHANGED vars
        BY <1>1, <3>3 DEF HealthChanges, Crash, vars
      <3> QED
        BY <1>1, <3>1, <3>2, <3>3 DEF Next, Operations
    <2> QED
      BY <1>1, <2>1 DEF UpBack, Deployed, IInv, RetagInv
  <1>2. IInv /\ [Next]_vars
          => [\A r \in Requests :
                outcome[r] # outcome'[r] /\ outcome'[r] = "restored"
                  => container' = [image |-> old[r], healthy |-> TRUE]]_vars
    BY <1>1
  <1> QED
    BY <1>2, InitHolds, StepHolds, PTL DEF RestoredIsOld

\* DockerPipeline.update: what a rollback restored is what the update had found.
THEOREM Restoration == Spec => RestoredIsOld
  BY Restores, PTL DEF Spec

\* No sequence of bad releases leaves an unsound image in the container while every
\* rollback works.
THEOREM Soundness == Spec => []NoBadImageLeft
  <1>1. IInv => NoBadImageLeft
    BY DEF IInv
  <1> QED
    BY <1>1, Invariance, PTL

-----------------------------------------------------------------------------
(* The refinement.  The mapped image changes only when an operation ends, for  *)
(* while an update works it is the image found at the start.                   *)

\* Until compose up, the container runs the image the worker found.
FoundInv ==
  \A r \in Requests :
    worker[r] \in {"tag_old"} \cup Rollout => container.image = old[r]

RInv == IInv /\ FoundInv

LEMMA FoundNext == IInv /\ FoundInv /\ [Next]_vars => FoundInv'
  <1> SUFFICES ASSUME IInv, FoundInv, [Next]_vars PROVE FoundInv'
    OBVIOUS
  <1> USE DEF IInv, TypeOK, FoundInv, queue, work, docker, Rollout
  <1>1. ASSUME NEW r \in Requests, NEW o \in Operations, Submit(r, o) PROVE FoundInv'
    BY <1>1 DEF Submit
  <1>2. ASSUME NEW r \in Requests, StartWorker(r) \/ StartFails(r) PROVE FoundInv'
    BY <1>2 DEF StartWorker, StartFails
  <1>3. ASSUME NEW r \in Requests, Work(r) PROVE FoundInv'
    <2>1. worker[r] \in Working
      BY <1>3, WorkAdvancesOrEnds
    <2>2. ASSUME NEW s \in Requests, s # r PROVE worker[s] \notin {"tag_old"} \cup Rollout
      BY <2>1, <2>2, Exclusive DEF Working
    <2>3. ASSUME NEW how \in Outcomes, End(r, how) PROVE FoundInv'
      BY <2>2, <2>3 DEF End
    <2>4. CASE Wake(r) \/ TagOld(r) \/ Pull(r)
      BY <2>2, <2>4 DEF Wake, TagOld, Pull, Advance
    <2>5. CASE Inspect(r)
      BY <2>2, <2>5 DEF Inspect, Advance
    <2>6. CASE PullFails(r) \/ UpFails(r) \/ Retag(r)
      BY <2>2, <2>6 DEF PullFails, UpFails, Retag, Advance
    <2> QED
      BY <1>3, <2>3, <2>4, <2>5, <2>6
      DEF Work, Restart, FailEarly, Up, RetagFails, UpBack, UpBackFails, CannotRun, Outcomes
  <1>4. CASE HealthChanges
    BY <1>4 DEF HealthChanges, Containers
  <1>5. CASE Crash
    BY <1>5 DEF Crash, Working
  <1>6. CASE UNCHANGED vars
    BY <1>6 DEF vars
  <1> QED
    BY <1>1, <1>2, <1>3, <1>4, <1>5, <1>6 DEF Next

LEMMA InitMaps == Init => Promise!Init
  BY FreeAssumption DEF Init, Promise!Init, Committed

\* A step of the worker that does not end the operation leaves the mapped image.
LEMMA AdvanceMaps ==
  ASSUME RInv, NEW r \in Requests,
         NEW from \in Working, NEW to \in Working, Work(r), Advance(r, from, to)
  PROVE  UNCHANGED Promise!vars
  <1> USE DEF RInv, IInv, TypeOK, LockInv, FoundInv, RetagInv, queue, work, docker,
              Rollout, Rollback, Working
  <1>1. lock = r /\ r # Free /\ lock' = lock /\ outcome' = outcome
    BY FreeAssumption DEF Advance
  <1>2. CASE Wake(r)
    BY <1>1, <1>2 DEF Wake, Advance, Committed, Promise!vars
  <1>3. CASE Inspect(r)
    BY <1>1, <1>3 DEF Inspect, Advance, Committed, Promise!vars
  <1>4. CASE TagOld(r) \/ Pull(r) \/ PullFails(r) \/ UpFails(r) \/ Retag(r)
    BY <1>1, <1>4
    DEF TagOld, Pull, PullFails, UpFails, Retag, Advance, Committed, Promise!vars
  <1>5. CASE \E how \in Outcomes : End(r, how)
    BY <1>5 DEF End, Advance
  <1>6. Wake(r) \/ Inspect(r) \/ TagOld(r) \/ Pull(r) \/ PullFails(r) \/ UpFails(r) \/ Retag(r)
        \/ \E how \in Outcomes : End(r, how)
    BY DEF Work, Restart, FailEarly, Up, RetagFails, UpBack, UpBackFails, CannotRun, Outcomes
  <1> QED
    BY <1>2, <1>3, <1>4, <1>5, <1>6

\* One that ends it is a commit, an abort or a break.
LEMMA EndMaps ==
  ASSUME RInv, NEW r \in Requests, Work(r), NEW how \in Outcomes, End(r, how)
  PROVE  Promise!Commit(r) \/ Promise!Abort(r) \/ Promise!Break(r)
  <1> USE DEF RInv, IInv, TypeOK, LockInv, OutcomeInv, FoundInv, RetagInv, OldInv, queue, work,
              docker, Rollout, Rollback, Working, HoldsOld
  <1>1. /\ lock = r /\ r # Free /\ lock' = Free
        /\ outcome[r] = "none" /\ Committed' = container'.image
    BY WorkAdvancesOrEnds, FreeAssumption DEF End, Committed
  <1>2. Promise!Settle(r, how)
    BY <1>1 DEF End, Promise!Settle
  <1>3. container.image \in Images /\ container'.image \in Images
    <2>1. container' \in Containers
      <3>1. CASE Up(r) \/ UpBack(r) \/ UpBackFails(r)
        BY <3>1, DeployedType DEF Up, UpBack, UpBackFails
      <3>2. CASE Restart(r) \/ FailEarly(r) \/ RetagFails(r) \/ CannotRun(r)
        BY <3>2 DEF Restart, FailEarly, RetagFails, CannotRun
      <3> QED
        BY <3>1, <3>2 DEF Work, Wake, Inspect, TagOld, Pull, PullFails, UpFails, Retag,
                          Advance, End
    <2> QED
      BY <2>1 DEF Containers
  <1>4. CASE Restart(r)
    <2>1. worker[r] = "restart" /\ container'.image = container.image
      BY <1>4 DEF Restart
    <2>2. Committed = container.image
      BY <1>1, <2>1 DEF Committed
    <2>3. how \in {"completed", "failed"}
      BY <1>4, <1>1 DEF Restart, End
    <2> QED
      BY <1>1, <1>2, <2>1, <2>2, <2>3 DEF Promise!Commit, Promise!Abort
  <1>5. CASE FailEarly(r)
    <2>1. how = "failed" /\ Committed = container.image /\ container' = container
      BY <1>1, <1>5 DEF FailEarly, End, Committed
    <2> QED
      BY <1>1, <1>2, <2>1 DEF Promise!Abort
  <1>6. CASE Up(r)
    <2>1. how = "completed" /\ container'.image \in Sound
      BY <1>1, <1>6 DEF Up, End, Deployed
    <2> QED
      BY <1>1, <1>2, <2>1 DEF Promise!Commit
  <1>7. CASE UpBack(r)
    <2>1. how = "restored" /\ container'.image = old[r] /\ Committed = old[r]
      BY <1>1, <1>7 DEF UpBack, End, Deployed, Committed
    <2> QED
      BY <1>1, <1>2, <2>1 DEF Promise!Abort
  <1>8. CASE RetagFails(r) \/ UpBackFails(r) \/ CannotRun(r)
    <2>1. how \in {"both_failed", "os_error"}
      BY <1>1, <1>8 DEF RetagFails, UpBackFails, CannotRun, End
    <2> QED
      BY <1>1, <1>2, <1>3, <2>1 DEF Promise!Break
  <1> QED
    BY <1>4, <1>5, <1>6, <1>7, <1>8
    DEF Work, Wake, Inspect, TagOld, Pull, PullFails, UpFails, Retag, Advance, End

LEMMA CrashMaps ==
  ASSUME RInv, Crash
  PROVE  (\E r \in Requests : Promise!Lose(r)) \/ UNCHANGED Promise!vars
  <1> USE DEF RInv, IInv, TypeOK, LockInv, OutcomeInv, OldInv, HoldsOld, queue, work, docker,
              Rollout, Rollback, Working
  <1>1. lock' = Free /\ Committed' = container'.image
    BY DEF Crash, Committed
  <1>2. container' \in Containers /\ container'.image \in Images
    BY DeployedType DEF Crash, Containers
  <1>3. CASE lock = Free
    <2>1. \A r \in Requests : worker[r] \notin Working
      BY <1>3, FreeAssumption
    <2>2. UNCHANGED <<container, outcome>>
      BY <2>1 DEF Crash
    <2> QED
      BY <1>1, <1>3, <2>2 DEF Promise!vars, Committed
  <1>4. CASE lock # Free /\ worker[lock] \in Working
    <2>1. lock \in Requests
      BY <1>4
    <2>2. outcome' = [outcome EXCEPT ![lock] = "lost"]
      BY <1>4, <2>1 DEF Crash
    <2>3. Promise!Lose(lock)
      BY <1>1, <1>2, <1>4, <2>1, <2>2 DEF Promise!Lose
    <2> QED
      BY <2>1, <2>3
  <1>5. CASE lock # Free /\ worker[lock] \notin Working
    <2>1. \A r \in Requests : worker[r] \notin Working
      BY <1>5
    <2>2. UNCHANGED <<container, outcome>> /\ lock \in Requests
      BY <1>5, <2>1 DEF Crash
    <2>3. Promise!Lose(lock)
      BY <1>1, <1>5, <2>2 DEF Promise!Lose, Committed
    <2> QED
      BY <2>2, <2>3
  <1> QED
    BY <1>3, <1>4, <1>5

LEMMA StepMaps == RInv /\ [Next]_vars => [Promise!Next]_Promise!vars
  <1> SUFFICES ASSUME RInv, [Next]_vars PROVE Promise!Next \/ UNCHANGED Promise!vars
    OBVIOUS
  <1> USE DEF RInv, IInv, TypeOK, queue, work, docker
  <1>1. ASSUME NEW r \in Requests, NEW o \in Operations, Submit(r, o)
        PROVE  Promise!Begin(r) \/ UNCHANGED Promise!vars
    <2> USE DEF LockInv, OutcomeInv, Working
    <2>1. outcome[r] = "none" /\ worker[r] = "none"
      BY <1>1 DEF Submit
    <2>2. CASE lock = Free
      BY <1>1, <2>1, <2>2 DEF Submit, Promise!Begin, Committed, Rollout, Rollback
    <2>3. CASE lock # Free
      BY <1>1, <2>3 DEF Submit, Promise!vars, Committed
    <2> QED
      BY <2>2, <2>3
  <1>2. ASSUME NEW r \in Requests, StartWorker(r) \/ StartFails(r)
        PROVE  UNCHANGED Promise!vars
    <2>1. worker[r] = "none"
      BY <1>2 DEF StartWorker, StartFails, LockInv
    <2>2. Committed' = Committed
      BY <1>2, <2>1 DEF StartWorker, StartFails, Committed, Rollout, Rollback
    <2> QED
      BY <1>2, <2>2 DEF StartWorker, StartFails, Promise!vars
  <1>3. ASSUME NEW r \in Requests, Work(r)
        PROVE  Promise!Next \/ UNCHANGED Promise!vars
    BY <1>3, WorkAdvancesOrEnds, AdvanceMaps, EndMaps DEF Promise!Next
  <1>4. CASE HealthChanges
    BY <1>4 DEF HealthChanges, Promise!vars, Committed, Containers
  <1>5. CASE Crash
    BY <1>5, CrashMaps DEF Promise!Next
  <1>6. CASE UNCHANGED vars
    BY <1>6 DEF vars, Promise!vars, Committed
  <1> QED
    BY <1>1, <1>2, <1>3, <1>4, <1>5, <1>6 DEF Next, Promise!Next

\* Next alone gives this one too.
LEMMA Implements == Init /\ [][Next]_vars => Transactional
  <1>1. Init => RInv
    BY InitHolds DEF Init, RInv, FoundInv, Rollout
  <1>2. RInv /\ [Next]_vars => RInv'
    BY StepHolds, FoundNext DEF RInv
  <1> QED
    BY <1>1, <1>2, InitMaps, StepMaps, PTL DEF Transactional, Promise!Spec

\* OperationQueue and DockerPipeline together: operations follow one another and
\* each is a transaction on the deployed image, unless its record says otherwise.
THEOREM Atomicity == Spec => Transactional
  BY Implements, PTL DEF Spec

-----------------------------------------------------------------------------
(* The 409.  ConflictMeansRunning is false of the code; this is what is left  *)
(* of it.                                                                     *)

\* Whoever holds the lock is about to start its worker, has one alive, or died
\* when no thread could be started.
HolderInv ==
  lock # Free => handler[lock] \in {"locked", "dropped"} \/ worker[lock] \in Working

LEMMA HolderNext == IInv /\ HolderInv /\ [Next]_vars => HolderInv'
  <1> SUFFICES ASSUME IInv, HolderInv, [Next]_vars, lock' # Free
               PROVE  handler'[lock'] \in {"locked", "dropped"} \/ worker'[lock'] \in Working
    BY DEF HolderInv
  <1> USE DEF IInv, TypeOK, HolderInv, queue, work
  <1>1. ASSUME NEW r \in Requests, NEW o \in Operations, Submit(r, o) PROVE HolderInv'
    BY <1>1 DEF Submit, LockInv
  <1>2. ASSUME NEW r \in Requests, StartWorker(r) \/ StartFails(r) PROVE HolderInv'
    BY <1>2 DEF StartWorker, StartFails, Working
  <1>3. ASSUME NEW r \in Requests, Work(r) PROVE HolderInv'
    <2>1. worker[r] \in Working /\ lock = r
      BY <1>3, WorkAdvancesOrEnds DEF LockInv
    <2>2. ASSUME NEW from \in Working, NEW to \in Working, Advance(r, from, to) PROVE HolderInv'
      BY <2>1, <2>2 DEF Advance, Working, Rollout, Rollback
    <2>3. ASSUME NEW how \in Outcomes, End(r, how) PROVE HolderInv'
      BY <2>3 DEF End
    <2> QED
      BY <1>3, <2>2, <2>3, WorkAdvancesOrEnds
  <1>4. CASE HealthChanges \/ UNCHANGED vars
    BY <1>4 DEF HealthChanges, vars
  <1>5. CASE Crash
    BY <1>5 DEF Crash
  <1> QED
    BY <1>1, <1>2, <1>3, <1>4, <1>5 DEF Next

\* An operation runs or is being started, or the lock is left of one that no thread
\* could be started for.
Taken ==
  \/ \E s \in Requests : handler[s] = "locked" \/ worker[s] \in Working
  \/ lock # Free /\ handler[lock] = "dropped"

\* OperationQueue.submit: nothing but these makes it refuse, so the thread that could
\* not be started is the only way in which ConflictMeansRunning fails.
THEOREM Refusals ==
  Spec => [][\A r \in Requests :
               handler[r] # handler'[r] /\ handler'[r] = "refused"
                 => Taken]_vars
  <1>1. Init => HolderInv
    BY DEF Init, HolderInv
  <1>2. ASSUME IInv, HolderInv, [Next]_vars, NEW r \in Requests,
               handler[r] # handler'[r], handler'[r] = "refused"
        PROVE  lock \in Requests
    <2> USE DEF IInv, TypeOK, queue, work
    <2>1. ASSUME NEW s \in Requests, Work(s) PROVE handler' = handler
      BY <2>1, WorkAdvancesOrEnds DEF Advance, End
    <2>2. ASSUME NEW s \in Requests, StartWorker(s) \/ StartFails(s) PROVE FALSE
      BY <1>2, <2>2 DEF StartWorker, StartFails
    <2>3. CASE HealthChanges \/ Crash \/ UNCHANGED vars
      BY <1>2, <2>3 DEF HealthChanges, Crash, vars
    <2>4. ASSUME NEW s \in Requests, NEW o \in Operations, Submit(s, o)
          PROVE  lock # Free
      BY <1>2, <2>4 DEF Submit
    <2> QED
      BY <1>2, <2>1, <2>2, <2>3, <2>4 DEF Next
  <1>3. IInv /\ HolderInv /\ [Next]_vars
          => [\A r \in Requests :
                handler[r] # handler'[r] /\ handler'[r] = "refused"
                  => Taken]_vars
    BY <1>2, FreeAssumption DEF HolderInv, Taken
  <1> QED
    BY <1>1, <1>3, Invariance, HolderNext, PTL DEF Spec
=============================================================================
