----------------------------- MODULE AtomicRollout ----------------------------
(***************************************************************************)
(* What the sidecar promises whoever posts to it: operations follow one    *)
(* another, and each is a transaction on the deployed image.  It commits   *)
(* to an image that passed its healthcheck, or aborts and leaves the image *)
(* that was deployed when it began.  Only an operation on record as broken *)
(* or lost leaves anything else behind.                                    *)
(***************************************************************************)
CONSTANTS
  Requests,    \* the POST requests
  Images,      \* images of the API
  Sound,       \* those whose container passes its healthcheck
  FirstImage,  \* the image deployed at first
  Free         \* nobody's operation

VARIABLES
  running,    \* the request whose operation runs, or Free
  committed,  \* the image deployed by the last operation that ended
  verdict     \* per request: how its operation ended, "none" before

vars == <<running, committed, verdict>>

Init ==
  /\ running = Free
  /\ committed = FirstImage
  /\ verdict = [r \in Requests |-> "none"]

Begin(r) ==
  /\ running = Free /\ verdict[r] = "none"
  /\ running' = r
  /\ UNCHANGED <<committed, verdict>>

Settle(r, how) ==
  /\ running = r /\ verdict[r] = "none"
  /\ running' = Free
  /\ verdict' = [verdict EXCEPT ![r] = how]

\* A rollout leaves a sound image, a restart the image it found.
Commit(r) == Settle(r, "completed") /\ committed' \in Sound \cup {committed}

Abort(r) ==
  /\ \E how \in {"failed", "restored"} : Settle(r, how)
  /\ UNCHANGED committed

Break(r) ==
  /\ \E how \in {"both_failed", "os_error"} : Settle(r, how)
  /\ committed' \in Images

\* The sidecar dies with the operation, which may not have begun its work.
Lose(r) ==
  /\ running = r
  /\ running' = Free
  /\ \/ UNCHANGED <<committed, verdict>>
     \/ verdict[r] = "none" /\ verdict' = [verdict EXCEPT ![r] = "lost"] /\ committed' \in Images

Next == \E r \in Requests : Begin(r) \/ Commit(r) \/ Abort(r) \/ Break(r) \/ Lose(r)

Spec == Init /\ [][Next]_vars
=============================================================================
