------------------------------ MODULE Coordinator ------------------------------
(***************************************************************************)
(* The Home Assistant integration, custom_components/urdb, on top of what  *)
(* the status API promises: the config flow, the set-up of the entry, the  *)
(* coordinator's refresh (two requests, one after the other), the buttons, *)
(* reloads of the entry and restarts of the API between any two steps.     *)
(*                                                                         *)
(* Home Assistant is external: it runs one refresh of a coordinator at a   *)
(* time and repeats a set-up that was not ready.  async_request_refresh    *)
(* goes through a debouncer, which drops a call made under a refresh,      *)
(* whoever started that, and keeps a call made in the cooldown after a     *)
(* refresh of its own for the end of the cooldown.  A task has one request *)
(* open at a time: the flow and the refresh, which never run together,     *)
(* share a slot.                                                           *)
(***************************************************************************)
EXTENDS ApiPromise

ASSUME SlotsAssumption   == Slots = {"refresh", "press"}
ASSUME ReleaseAssumption == MaxRelease \in Nat

\* coordinator.data: the releases of the status and of the changes.
Data   == [Questions -> Known]
NoData == [q \in Questions |-> Unseen]

VARIABLES
  entry,      \* the config entry: "none", "created", "loaded"
  status,     \* the release of the status the running refresh has read
  data,       \* coordinator.data
  success,    \* last_update_success
  debouncer,  \* "off", "running" its refresh, in "cooldown" after it, or in
              \* cooldown with a refresh "due" at its end
  seen,       \* history: the newest release shown
  found,      \* history: the newest release of the checks a refresh followed
  missed      \* history: the newest release of those no refresh has followed yet

shown  == <<data, success, seen>>
checks == <<debouncer, found, missed>>
cvars  == <<api, entry, status, shown, checks>>

CInit ==
  /\ Init
  /\ entry = "none" /\ status = None
  /\ data = NoData /\ success = TRUE
  /\ debouncer = "off"
  /\ seen = None /\ found = None /\ missed = Unseen

Newer(a, b) == IF a > b THEN a ELSE b

Idle(s)    == asked[s] = "none"
Arrived(s) == ~Idle(s) /\ answer[s].kind = "good"

-----------------------------------------------------------------------------
(* URDBAPIClient._request *)

\* Mutant: the request has no timeout.
ErrsUntimed(s) == ~Idle(s) /\ answer[s] = Failed /\ Close(s)

\* A URDBAPIError: a status that raise_for_status refuses, a closed connection, or
\* nothing within 30 seconds, whatever the API goes on to do.
Errs(s) == ~Idle(s) /\ answer[s].kind # "good" /\ Close(s)

-----------------------------------------------------------------------------
(* URDBConfigFlow.async_step_user *)

FlowStarts ==
  /\ entry = "none"
  /\ Ask("refresh", "get_status")
  /\ UNCHANGED <<entry, status, shown, checks>>

\* An answer creates the entry; an error shows the form again.
FlowEnds ==
  /\ entry = "none"
  /\ \/ Arrived("refresh") /\ Close("refresh") /\ entry' = "created"
     \/ Errs("refresh") /\ UNCHANGED entry
  /\ UNCHANGED <<status, shown, checks>>

-----------------------------------------------------------------------------
(* URDBCoordinator._async_update_data: for the set-up, the timer or a button *)

\* A refresh follows every check that was answered before it.
Follow == found' = Newer(found, missed) /\ missed' = Unseen

\* The set-up or the timer.  Any refresh ends a cooldown, and what was due with it.
RefreshStarts ==
  /\ entry # "none"
  /\ Ask("refresh", "get_status")
  /\ debouncer' = "off" /\ Follow
  /\ UNCHANGED <<entry, status, shown>>

\* The ten seconds are over.
CooldownEnds ==
  /\ \/ /\ debouncer = "cooldown" /\ debouncer' = "off"
        /\ UNCHANGED <<api, found, missed>>
     \/ /\ debouncer = "due" /\ debouncer' = "running"
        /\ Ask("refresh", "get_status") /\ Follow
  /\ UNCHANGED <<entry, status, shown>>

\* The second request follows at once.
StatusArrives ==
  /\ entry # "none" /\ asked["refresh"] = "get_status" /\ Arrived("refresh")
  /\ status' = answer["refresh"].latest
  /\ asked'  = [asked EXCEPT !["refresh"] = "get_changes"]
  /\ saw'    = [saw EXCEPT !["refresh"] = Unseen]
  /\ answer' = [answer EXCEPT !["refresh"] = Pending]
  /\ UNCHANGED <<published, base, known, entry, shown, checks>>

\* The debouncer cools down after a refresh of its own, whether it ended well or not.
CoolsDown ==
  /\ debouncer' = IF debouncer = "running" THEN "cooldown" ELSE debouncer
  /\ UNCHANGED <<found, missed>>

\* Only a complete pair becomes data; the first one lets the platforms be set up.
ChangesArrive ==
  /\ asked["refresh"] = "get_changes" /\ Arrived("refresh")
  /\ data' = [q \in Questions |->
                IF q = "get_status" THEN status ELSE answer["refresh"].latest]
  /\ seen' = Newer(seen, status)
  /\ success' = TRUE /\ status' = None /\ entry' = "loaded"
  /\ Close("refresh") /\ CoolsDown

\* Mutant: the entry is set up without waiting for the first refresh.
RefreshFailsLoaded ==
  /\ entry # "none" /\ Errs("refresh")
  /\ success' = FALSE /\ status' = None /\ entry' = "loaded"
  /\ CoolsDown /\ UNCHANGED <<data, seen>>

\* Mutant: the half that was read is kept.
RefreshFailsHalf ==
  /\ entry # "none" /\ Errs("refresh")
  /\ data' = IF asked["refresh"] = "get_changes"
             THEN [data EXCEPT !["get_status"] = status] ELSE data
  /\ success' = FALSE /\ status' = None
  /\ CoolsDown /\ UNCHANGED <<entry, seen>>

\* UpdateFailed, which for a first refresh is ConfigEntryNotReady.
RefreshFails ==
  /\ entry # "none" /\ Errs("refresh")
  /\ success' = FALSE /\ status' = None
  /\ CoolsDown /\ UNCHANGED <<entry, data, seen>>

-----------------------------------------------------------------------------
(* URDBButton.async_press *)

\* A check is answered with a status.
Pressed == Routes \ {"get_changes"}

Press(r) ==
  /\ entry = "loaded"
  /\ Ask("press", r)
  /\ UNCHANGED <<entry, status, shown, checks>>

\* async_request_refresh, after a check that returned a release.
Dropped(release) ==
  /\ ~Idle("refresh")
  /\ missed' = Newer(missed, release)
  /\ Close("press") /\ UNCHANGED <<debouncer, found>>

Deferred(release) ==
  /\ debouncer \in {"cooldown", "due"}
  /\ debouncer' = "due" /\ missed' = Newer(missed, release)
  /\ Close("press") /\ UNCHANGED found

\* Mutant: a check leaves the refresh to the timer.
StartedLater(release) ==
  /\ Idle("refresh") /\ debouncer = "off"
  /\ found' = Newer(found, release)
  /\ Close("press") /\ UNCHANGED <<debouncer, missed>>

\* The refresh starts before anything else happens.
Started(release) ==
  /\ Idle("refresh") /\ debouncer = "off"
  /\ debouncer' = "running" /\ found' = Newer(found, Newer(missed, release)) /\ missed' = Unseen
  /\ asked'  = [asked EXCEPT !["press"] = "none", !["refresh"] = "get_status"]
  /\ saw'    = [saw EXCEPT !["press"] = Unseen]
  /\ answer' = [answer EXCEPT !["press"] = Pending]
  /\ UNCHANGED <<published, base, known>>

\* Only a check asks for a refresh.
PressEnds ==
  /\ Arrived("press")
  /\ LET release == answer["press"].latest
     IN  IF asked["press"] = "get_status"
         THEN Dropped(release) \/ Deferred(release) \/ Started(release)
         ELSE Close("press") /\ UNCHANGED checks
  /\ UNCHANGED <<entry, status, shown>>

\* A HomeAssistantError.
PressErrs ==
  /\ Errs("press")
  /\ UNCHANGED <<entry, status, shown, checks>>

-----------------------------------------------------------------------------
\* async_unload_entry, or a restart of Home Assistant: the tasks end, the API
\* serves their requests to nobody, and the entry is set up again.
Unload ==
  /\ entry # "none" /\ entry' = "created"
  /\ data' = NoData /\ success' = TRUE /\ debouncer' = "off" /\ status' = None
  /\ asked'  = [s \in Slots |-> "none"]
  /\ saw'    = [s \in Slots |-> Unseen]
  /\ answer' = [s \in Slots |-> Pending]
  /\ UNCHANGED <<published, base, known, seen, found, missed>>

RefreshEnds == ChangesArrive \/ RefreshFails

CNext ==
  \/ (Publish \/ Learn \/ Restart) /\ UNCHANGED <<entry, status, shown, checks>>
  \/ \E s \in Slots : Serve(s) /\ UNCHANGED <<entry, status, shown, checks>>
  \/ FlowStarts \/ FlowEnds
  \/ RefreshStarts \/ CooldownEnds \/ StatusArrives \/ RefreshEnds
  \/ \E r \in Pressed : Press(r)
  \/ PressEnds \/ PressErrs
  \/ Unload

\* The timer starts a refresh when none is running, and a refresh that runs is run
\* on: every request has a timeout.  Nothing is assumed of the debouncer or of the
\* API, which may never answer.
CSpec ==
  /\ CInit /\ [][CNext]_cvars
  /\ WF_cvars(RefreshStarts) /\ WF_cvars(StatusArrives \/ RefreshEnds)

-----------------------------------------------------------------------------
(* Properties *)

CTypeOK ==
  /\ {published, base, known, status, seen, found} \subseteq Known
  /\ asked \in [Slots -> Routes \cup {"none"}]
  /\ saw \in [Slots -> Known \cup {Unseen}]
  /\ answer \in [Slots -> {Pending, Failed} \cup {Good(r) : r \in Known}]
  /\ entry \in {"none", "created", "loaded"}
  /\ data \in Data \cup {NoData}
  /\ success \in BOOLEAN /\ missed \in Known \cup {Unseen}
  /\ debouncer \in {"off", "running", "cooldown", "due"}

\* The sensors read coordinator.data["status"] without a guard: while the entry is
\* loaded there is data, whatever failed during and after its set-up.
EntitiesHaveData == entry = "loaded" => data # NoData

\* The pair is read in two requests with releases, refreshes and restarts between
\* them: the changes shown are never those of an older release than the status.
ChangesNotOlder ==
  LET old == data["get_status"]  new == data["get_changes"]
  IN  {old, new} \subseteq Releases => old <= new

\* What the dashboard shows never goes back to an older release, through failed
\* refreshes, given-up requests, restarts of the API and reloads of the entry.
NeverShownOlder ==
  [][data'["get_status"] \in Releases => data'["get_status"] >= seen]_cvars

\* A check that no refresh was running under is followed by one, at once or when the
\* cooldown is over; one that was dropped, by the next.  Once a refresh that followed
\* a check has ended well, and none is due, the status shows no older release than
\* the check returned.
CheckIsShown ==
  /\ entry = "loaded" /\ success
  /\ debouncer # "due" /\ Idle("refresh")
  => data["get_status"] = None \/ data["get_status"] >= found

\* A check is in the end followed by a refresh, also when the one it was dropped under
\* hangs with the API.
CheckIsFollowed == missed # Unseen ~> missed = Unseen
=============================================================================
