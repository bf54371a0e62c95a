------------------------------ MODULE ApiPromise ------------------------------
(***************************************************************************)
(* What the status API promises its callers, without threads' steps, locks *)
(* or time: a process knows one release; a request looks at it once,       *)
(* perhaps after learning of a newer one, and is answered with what it     *)
(* saw, or fails.  StatusService implements this; Coordinator relies on it.*)
(* A restart of the process, which StatusService leaves out, is here: the  *)
(* new process knows nothing, and whatever it learns of is at least as new *)
(* as what GitHub served when it started.                                  *)
(***************************************************************************)
EXTENDS Integers

CONSTANTS
  Slots,      \* requests that may be open at a time
  MaxRelease  \* bound on the releases GitHub publishes

None     == 0
Releases == 1..MaxRelease
Known    == Releases \cup {None}

Questions == {"get_status", "get_changes"}
Commands  == {"request_update", "request_restart"}
Routes    == Questions \cup Commands

Unseen  == -1                     \* the request has not looked yet
Pending == [kind |-> "pending", latest |-> None]
Failed  == [kind |-> "failed", latest |-> None]
Good(r) == [kind |-> "good", latest |-> r]

VARIABLES
  published,  \* GitHub's latest release
  base,       \* GitHub's latest release when the process started
  known,      \* the release the process has cached
  asked,      \* per slot: the operation of its request, or "none"
  saw,        \* per slot: the release its request saw
  answer      \* per slot: the response to its request

api == <<published, base, known, asked, saw, answer>>

Init ==
  /\ published = None /\ base = None /\ known = None
  /\ asked  = [s \in Slots |-> "none"]
  /\ saw    = [s \in Slots |-> Unseen]
  /\ answer = [s \in Slots |-> Pending]

Open(s) == asked[s] # "none" /\ answer[s] = Pending

Publish ==
  /\ published < MaxRelease
  /\ published' = published + 1
  /\ UNCHANGED <<base, known, asked, saw, answer>>

Ask(s, r) ==
  /\ asked[s] = "none"
  /\ asked' = [asked EXCEPT ![s] = r]
  /\ UNCHANGED <<published, base, known, saw, answer>>

\* Mutant: the release one request fetched may be stored after a newer one.
LearntLate(r) == r \in base..published /\ r # None

\* A release GitHub served to this process, after all those it served before.
Learnt(r) == r \in known..published /\ r >= base /\ r # None

\* The cache is refreshed for anyone: the API has other callers, and a request that
\* was given up is served to its end.
Learn ==
  /\ known' \in {r \in Releases : Learnt(r)}
  /\ UNCHANGED <<published, base, asked, saw, answer>>

\* Changes of a release without a tag name no version.
Look(s) ==
  /\ Open(s) /\ asked[s] # "request_restart" /\ saw[s] = Unseen
  /\ known' \in {r \in Releases : Learnt(r)} \cup {known}
  /\ saw' \in {[saw EXCEPT ![s] = r] :
                 r \in {known'} \cup (IF asked[s] = "get_changes" THEN {None} ELSE {})}
  /\ UNCHANGED <<published, base, asked, answer>>

Reply(s) ==
  /\ Open(s)
  /\ asked[s] \in Questions => saw[s] # Unseen
  /\ answer' = [answer EXCEPT ![s] = Good(IF asked[s] \in Questions THEN saw[s] ELSE None)]
  /\ UNCHANGED <<published, base, known, asked, saw>>

\* An error response, or the connection closes without one.
Fail(s) ==
  /\ Open(s)
  /\ answer' = [answer EXCEPT ![s] = Failed]
  /\ UNCHANGED <<published, base, known, asked, saw>>

\* The caller has read the response, or waits no longer.
Close(s) ==
  /\ asked[s] # "none"
  /\ asked'  = [asked EXCEPT ![s] = "none"]
  /\ saw'    = [saw EXCEPT ![s] = Unseen]
  /\ answer' = [answer EXCEPT ![s] = Pending]
  /\ UNCHANGED <<published, base, known>>

\* The open requests die with the process; a response already sent still arrives.
Restart ==
  /\ base' = published /\ known' = None
  /\ answer' = [s \in Slots |-> IF Open(s) THEN Failed ELSE answer[s]]
  /\ UNCHANGED <<published, asked, saw>>

Serve(s) == Look(s) \/ Reply(s) \/ Fail(s)

Next ==
  \/ Publish \/ Learn \/ Restart
  \/ \E s \in Slots : Serve(s) \/ Close(s) \/ \E r \in Routes : Ask(s, r)

Spec == Init /\ [][Next]_api
=============================================================================
