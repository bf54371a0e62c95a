# URDB: a verification development

TLA+ modules, TLC runs and TLAPS proofs about URDB (`happ-routing`): the service
that watches GitHub for routing releases, tells Home Assistant about them, and
rolls them out through a privileged sidecar; and the pipeline that makes those
releases from lists of domains and a routing policy.

## 1. The system

| component | state it keeps | operations | hard behaviour | what makes it correct |
|---|---|---|---|---|
| **Release client** `orchestrator/github_release.py` | last release, last release document, time and error of the last attempt, a lock | `check_updates`, `get_release_info`, `get_release_changes`, `download_release` | shared by all request threads; a refresh holds the lock during the request, the document is fetched without it; failures are cached too | one refresh at a time; answers fresh, never going back; GitHub asked at most once a TTL |
| **Status API** `homeassistant/api.py`, `server.py` | none of its own: a thread per request | `GET /api/status`, `/api/changes`, `POST /api/check`, `/api/update`, `/api/restart` | a request is several client calls with other threads between them; some exceptions are in no `except` | notes belong to the announced release; only a fresh positive check reaches the updater; every request ends |
| **Updater client** `homeassistant/updater_client.py` | none | `_post` with a five-second timeout | the sidecar may have accepted what the caller sees fail | an operation reported as accepted was scheduled |
| **Operation queue** `updater/server.py` | a lock without owner | `submit`, `_run` | acquired by a handler, released by a worker thread; threads that cannot start; a process that dies | one operation at a time; the lock comes back |
| **Docker pipeline** `updater/pipeline.py` | none of its own: two image tags and a container in docker | `update`, `restart` | each command may fail, and so may the rollback | what runs after a failed update is what ran before it |
| **Domain compiler** `routing_engine/core` | memo of resolved lists, stack of lists being resolved | `compile_domain_ir` | recursion, cycles, filters applied to lists already pruned | the same set as the naive expansion |
| **Policy and generators** `routing_engine/model.py`, `generators/` | none | one policy to a Happ profile and an Xray configuration | two formats with different notions of order and default; a domain strategy that says when IP rules count | what Xray decides is what the policy decides |
| **Keenetic backend** `routing_engine/backends`, `keenetic_cli.py` | import files of earlier runs | `generate_keenetic` | a list that cannot be exported, a write that fails | refused or whole; covers what its lists cover, and more only below a full rule |
| **Registry, category lists, coverage** `routing_engine/` | none | validation, grouping, reporting | duplicates, order | deterministic, nothing lost |
| **Home Assistant integration** `custom_components/urdb` | last status and changes | config flow, set-up, refresh, three buttons, unload | two requests per refresh; a restart of the API or a reload in between; a check under a running refresh gets none of its own | the two halves agree, never go back, and show a check once a refresh has followed it |
| **Lovelace card** `frontend/src/urdb-card.js` | the running action and its timers | `_run` | timers | one action at a time |
| **Build and release** `scripts/`, `.github/workflows` | the cached clone of the upstream lists, `dist/` | every command of `build.sh`, `make configs`, `make clean`, publish | leftovers of earlier, failed and partial runs; upstream moves meanwhile | artifacts match their checksums and their sources |

The card presses a button of the integration; the integration calls the status
API; the API's threads share one release client and post to the sidecar; the
sidecar drives docker, which replaces the container the API runs in. GitHub
serves the releases the build pipeline made from the routing engine.

## 2. The modules

| module | models | refines or extends |
|---|---|---|
| `ReleaseClient` | `github_release.py` | - |
| `StatusService` | `api.py`, `server.py` | extends `ReleaseClient` and runs its actions; implements its `Spec` and `ApiPromise` |
| `ApiPromise` | what a caller of the API may rely on | abstract |
| `Coordinator` | `custom_components/urdb` | extends `ApiPromise`: the integration on top of the promise |
| `Updater` | `updater/server.py`, `updater/pipeline.py` | implements `AtomicRollout` |
| `AtomicRollout` | what the sidecar promises | abstract |
| `Deployment` | `updater_client.py`, `docker-compose.yml` | extends `Updater` with the callers it may kill |
| `DomainSource` | `routing_engine/core/domain_source.py`, `domain_ir.py` | - |
| `Keenetic` | `backends/keenetic.py`, `keenetic_cli.py` | extends `DomainSource` with the export |
| `RoutingPolicy` | `model.py`, `loader.py`, `generators/` | - |
| `Build` | `build.sh`, `release_metadata.py`, `validate.py`, `release.yml` | extends `RoutingPolicy`: the generators are commands of the build |
| `MC*` | small instances for TLC | |
| `*Proofs` | theorems, checked by TLAPS | |

**ReleaseClient.** `release`, `info`, `lastAttempt`, `lastError`, `lock` are
`_release_cache`, `_release_info_cache`, `_last_attempt_at`, `_last_error` (only
whether there is one) and `_cache_lock`. A thread's `pc` says where in its call
it is; `now`, `got` and `reply` are its local variables. A step ends where the
method blocks (the lock, the network) or touches shared state, so every
interleaving of the threads the interpreter can produce on shared state is there.
`_latest_release` is `ServeFromCache`, or `StartRequest`, `Respond` and
`StoreRelease` or `StoreFailure` with the lock held from the first to the last;
`BreakRequest` is the exception no clause catches. A release is the number of its
publication, so "newer" is `>`; `Untagged` and `Unlisted` are the releases whose
JSON lacks what a method insists on. GitHub is `Publish` and the choice in
`Respond`. `supersededAt` and `floor` are history variables the properties read
and nothing else does.

**StatusService.** A thread serves one request: `Receive`, then steps of the
client, then one action per return of a client call (`StatusChecked`,
`InfoReturned`, `ChangesReturned`, `UpdateChecked`, `CallFails`), then
`PostUpdater` for an update or a restart. `check_now` is `get_status`.

**ApiPromise.** The abstract API: a process knows one release, `known`; a request
looks at it once (`saw`), perhaps after the process learnt of a newer one, and is
answered with what it saw, or fails. `StatusService` is mapped to it by `AskedOf`,
`SawBy` and `AnswerOf`; the release client's threads, lock, second cache and time are
gone. `Restart` has no counterpart in `StatusService`, which is one process: a new
process knows nothing (`GitHubReleaseClient.__init__`), and learns only what GitHub
has served since it started (`base`).

**Coordinator.** `entry` is the config entry, `data` is `coordinator.data`,
`status` the half of a running refresh that has been read. A check asks for a
refresh with `async_request_refresh`, which goes through Home Assistant's debouncer,
external and modelled from its documented behaviour: a call under a running refresh,
the timer's too, is dropped (`Dropped`); one within ten seconds after a refresh of the
debouncer's own is kept for the end of the cooldown (`Deferred`, `CooldownEnds`); any
other starts a refresh at once (`Started`). The flow and the refresh share a slot of the
API, the buttons have the other. A request whose caller gave up leaves its slot: all it can still
change is what the process knows (`Learn`). `Unload` is a reload of the entry or a
restart of Home Assistant. History are `seen`, the newest release shown, `found`, the
newest of the checks a refresh has followed, and `missed`, of those none has yet.

**Updater.** `lock` is the queue's lock, with the request that took it, which the
code does not record and no action reads. `worker[r]` is the docker command the
worker of `r` is about to run; an action is a command that succeeds or fails, and
the `finally` clause (`End`) is part of the action that ends the operation.
Docker is two tags and a container; a pull may move the tag to any image, and an
image outside `Sound` never passes its healthcheck. `Crash` is the sidecar dying
at any point and compose restarting it: its memory is lost, docker's is not.

**AtomicRollout.** One operation at a time, each a transaction on the deployed
image: it commits to a sound image, aborts to the image it found, or is on record
as broken or lost. `Committed` maps to it: while an update works, the deployed
image is still the one it found.

**Deployment.** `caller[r]` is the API thread that posts `r`; the requests in `Earlier`
were sent by an API process that is gone and are still to be served. The sidecar may take
a request, an update or a restart, at any later time (`Deliver`), also when its caller
has given up;
`Fails` may happen at any moment of the wait, so the timeout races every answer;
`SidecarWorks` is a step of `Updater` that may replace the container the callers
live in, and then they are `gone`.

**DomainSource.** `compile_domain_ir` is sequential, and a state is a moment of
its recursion: `stack` has a frame per call of `resolve` (the list, the next
include, the set `values`), `resolved` and `rules` are its memo, and the names on
the stack are `resolving`. `Request` and `Descend` are the calls for a list that
is not in the memo (`Enter`: a cycle, an unreadable list, or a new frame),
`Collect` and `Deliver` the calls answered from it, `Leave` the end of a call. What
`load` reads is an input, chosen at the start: a domain is a model value, and
`Above` its suffixes after a dot, which is all `_polish` looks at. The references the
properties compare with, `Expansion` and `Reached`, are least closed sets: the lists
that carry a rule through includes, and the lists reached by them, to any depth and
with cycles, and no recursion that a proof could not follow.

**Keenetic.** After a compilation, `Generate` makes all artifacts or refuses, and
`WriteNext` and `WriteFails` write them over the files of an earlier run, one after
another. An import file is a set of names, without the kinds of the rules; how the router
matches them, a name and all below it (`Below`), is external. The properties compare what
a file routes with `Covered` of the expansion, in which a full rule covers one domain.

**RoutingPolicy.** No state: what `load_policy` accepts (`Loads`), what the two
generators make of a policy (`HappProfile`, `XrayDocument`), what Xray then does
with a connection (`Route`, external), and what the policy itself says (`Decide`). A
connection goes to a name or to an address, and is the domain rules that match its name
and the IP rules that match its addresses. Xray takes the first rule that applies; the
`domainStrategy` of the document says whether a name has addresses at once
(`IPOnDemand`), in a second pass if no rule applied in the first (`IPIfNonMatch`), or
never (`AsIs`, and every other string). The policy owns the strategy, so `Decide` reads it
in the same sense: IP rules count for a name at once, when no domain rule matches it, or
never.

**Build.** `step` is the command of `build.sh` about to run; each one may fail
(`Fails`) and leave its file cut short. `clone` is the cached clone, its HEAD and its
working tree, in which `git reset --hard` leaves untracked files alone; `dist` is the
content of every file of `dist/`. A digest is the content it was taken of. A `git reset`
that fails leaves any mix of the old tree and the new, with HEAD where it was. `served` is
history: the geoip version whose digest the mirror served to this run. `Begin`
is `make build` or the release workflow in a fresh checkout, `Configs` is `make
configs`, `Clean` is `make clean`; the sources are edited between runs, upstream and
the geoip mirror move at any time.

## 3. The runs

| run | instance | states | what it shows |
|---|---|---|---|
| `release_client` | 2 threads, 3 releases (one untagged, one without assets), TTL 2, clock 0..3 | 1.0 M | `SingleFlight`, `FreshAnswers`, `MonotoneAnswers`, `AttemptsSpaced` |
| `status_service` | 2 requests of any kind, 3 releases, TTL 1, clock 0..1 | 117 k | `NotesMatchAnnouncement`, `OnlyFreshUpdates`, `EveryRequestEnds`, and the refinement `KeepsPromise` |
| `coordinator` | 2 releases, any number of refreshes, presses, reloads and restarts | 1.3 M | `EntitiesHaveData`, `ChangesNotOlder`, `CheckIsShown`, `NeverShownOlder`, `CheckIsFollowed` |
| `deployment` | 3 requests of any operation, two of them of an earlier API process; 3 images (two sound, one not) | 388 k | `OneAtATime`, `RollbackTagHeld`, `NoBadImageLeft`, `RestoredIsOld`, `LockGivenBack`, `AcceptedIsScheduled`, `AcceptedEnds`, and the refinement `Transactional` |
| `domain_source` | 3 lists including one another in every direction, 2 domains (one below the other), 1 attribute, 19,008 source directories | 116 k | `PolishCommutes`, `NoDomainLost`, `MemoClosed`, `ErrorsAreReal`, `NeverReentered`, `ExportWhole`, `ExportCovers` |
| `build` | 3 runs of any kind, 2 lists, 2 geoip versions, 5 policies, 2 changes of the sources | 5.1 M | `BuiltSealed`, `BuiltFromSources`, `ReleaseVerifiable`, `GeoipIsServed`, `XrayFollowsPolicy` |
| `stale_notes` | 2 requests, 2 releases | to the violation | `ChangedMeansChanged` fails |
| `up_to_date` | 2 requests, 2 releases | to the violation | `UpToDateMeansCurrent` fails |
| `conflict` | 3 requests, 3 images, the sidecar alone | to the violation | `ConflictMeansRunning` fails |
| `rolled_back` | as `conflict` | to the violation | `RaisedMeansRolledBack` fails |
| `widened` | as `domain_source` | to the violation | `NothingWidened` fails |
| `leftover_list` | as `build` | to the violation | `OnlyKnownLists` fails |

*Bounds.* A race on the client needs one thread that is slow and one that
overtakes it, so two threads; three releases so that the one a slow thread holds
can be superseded twice; a TTL of two ticks in a clock of four values so that a
cache can be fresh, old by one tick, and expired, and be refreshed once more. In
`status_service` a thread serves one request, as in the code. Three requests at
the sidecar are one that runs, one refused, and one that finds what the first
left behind; three images are the first, a good one and a bad one. Three lists
are what a filter behind a filter, a shared include, and a cycle that does not
pass through the requested list need; redundancy is a relation between two
rules, one of them with or without the attribute, so two domains and one
attribute give every case. In `coordinator` a pair can be torn, or shown to go back,
with two releases, one known before and one after; the number of requests and
restarts is not bounded at all. In `deployment` one caller is enough to lose, time
out or kill; the two requests that an earlier API process left may be served before,
during and after its own, find the lock taken or the caller of the first replaced, and
start from what the others left. In `build` a leftover needs a run that makes
it, one that meets it and, with `make configs` between them, a third; two changes are
a list removed and another added, or a mirror that moves between two downloads; the
five policies differ in order, fallback, overlap and domain strategy (the three Xray
knows); one is refused by the loader and one by `validate.py`, for its empty strategy. Lists
and geoip versions are interchangeable there, and threads in `release_client`, hence
the symmetry; no liveness is checked under it. `MaxRelease`, `MaxTime`, `MaxChanges`
and `MaxRuns` are bounds of the model, not of the code; every run but `coordinator`
comes to an end at them or by itself, hence `CHECK_DEADLOCK FALSE`: threads that have
served their request and a sidecar without requests are at rest, and a compilation
and an export end.

*Fairness.* `ReleaseClient` has none; its properties are safety. `SSpec` assumes
that a request's thread is scheduled and that its requests to GitHub and to the
sidecar end, which their timeouts (30 s, 5 s) guarantee. The weak fairness on a
waiting thread asks for the lock only once it stays free. `Updater!Spec` assumes
that a thread that was started runs, and that docker commands end: `compose up`
has its own `--wait-timeout`, `pull` and `restart` have none, so that is an
assumption about docker. `DSpec` assumes no more than that: no POST need ever arrive, no
caller stop waiting and no answer come back. `CSpec` assumes that the timer starts a
refresh when none is running and that each request of a refresh ends, which the
integration's 30-second timeout guarantees: the API may never answer, and nothing is
assumed of the debouncer. `DomainSource`, `Keenetic` and `Build` assume nothing: their
properties are safety. Nothing
makes GitHub publish, a client call, or time pass.

*What the failing runs show.*

- `stale_notes`: `get_release_info` stores its document after fetching the
  checksums without the lock. If another thread refreshed meanwhile, the document
  of the old release sits in the cache of the new one, and every status until the
  next refresh is refused with "Orchestrator release changed during status
  check", though it did not change. `NotesMatchAnnouncement` holds all the same:
  the comparison in `get_status` turns a wrong answer into an error.
- `up_to_date`: with GitHub unreachable `has_update` is false whatever the cache
  knows, and `request_update` words that as "Already up to date".
- `conflict`: `submit` takes the lock before it starts a thread. If the start
  fails, nobody gives it back. `LockGivenBack` states what does hold: every other
  way an operation can end releases it.
- `rolled_back`: `UpdateError`, documented as raised after the rollback, is also
  raised when the rollback failed.
- `widened`: a full rule names one domain exactly. `KeeneticBackend.generate` writes it
  as the same plain name as a domain rule, and the router routes everything below it too:
  the widening that `ARCHITECTURE_V2.md:323` forbids and `POLICY_SPEC.md:466` excludes
  for exact domains. `ExportCovers` states what does hold: nothing that a list covers is
  lost, and nothing else is routed but domains below that of a full rule.
- `leftover_list`: `build.sh` copies the lists of `data/` into the cached clone,
  where they are untracked, and the next run's `git reset --hard` leaves untracked
  files alone. A list that was removed from `data/`, and that upstream never had, is
  compiled into every later `geosite.dat` until the cache is removed.
  `BuiltFromSources` and `ReleaseVerifiable` state what does hold: every list that
  has a source comes from it, and a release, built in a fresh checkout, has no other.

*Two exceptions that passing runs state.* The last rule of an Xray document applies to
every connection (`xray.py:24-28`), so no name is ever left without a match: under
`IPIfNonMatch`, which `policy.yaml` sets, Xray's second pass never comes, and IP rules
decide connections to addresses only, although `POLICY_SPEC.md:55-57` says that a backend
"must never silently drop a matcher". `XrayFollowsPolicy` says so: a name that the policy
would decide by its addresses in a second pass (`SecondPass`) goes where the fallback
goes, and every other connection where the policy decides. And a check that is answered
while a refresh runs gets no refresh of its own: an older status that refresh has read may
be shown until the timer's next one. `CheckIsShown` speaks of the checks that a refresh
has followed, and `CheckIsFollowed` says that in the end one follows every check.

## 4. The proofs

`tlapm` checks every theorem for any set of threads, requests and images, any TTL
and any bounds. The assumptions are those of the modules: the TTL is a positive
natural number (the constructor checks it), the lock's free value is no thread,
the first image is sound. `DomainSource` assumes that `Above` is transitive and
that some domain of every set has none of the others above it, as holds for
suffixes, which get shorter; neither lists nor includes need be few, or the requested
ones free of cycles. `Coordinator` assumes its two slots, those of the
coordinator and of the buttons; `Build` that its policies are what the YAML files can
hold, not that they load, and that the marks for a file that is missing or cut short
are not contents of a file (`ContentsAssumption`).

Every safety invariant and action property that a passing run checks is stated by a
theorem here. Where a failing run shows that the code does not keep what its words
say, a theorem says what is left of it: `UpToDateRight`, `Refusals`, `Restoration`,
`ReleaseKnown`.

*ReleaseClientProofs.* `TypeCorrect`, `OneRefresh`, `Freshness`, `Monotonicity`
and `Spacing`. Freshness alone is not inductive: an answer from the cache is
fresh because of what was true when another thread stored it. The invariant
`IInv` adds, in order of the argument: `LockInv` (the lock is held exactly by the
thread between request and store), `PublishInv` (the latest release is not
superseded), `CacheInv` (after a successful attempt, the cached release was
still the latest when that attempt *began*), `RequestInv` (the response in the
hands of the thread that holds the lock is no older than the cache it replaces),
`TimeInv` and `StageInv`. `LatestKept` carries "was the latest at time s" over a
publication; the frame lemmas say what a step of one thread leaves alone.

*StatusServiceProofs.* `ServiceImplementsClient`: `SSpec => Spec`, since a step of
the service is a step of the client or leaves it alone. So the client's invariant
may be used for the service. `Announcements` needs only the comparison of the two
versions. `Updates` needs that an update flag comes from a successful check of
another version (`ReplyInv`), that the check was fresh (`FreshAnswers`), and that
a thread that has decided keeps what it decided on (`DecisionKept`). `PromiseKept` is
the refinement of `ApiPromise`: a step changes the mapped state of one request only
(`Pointwise`), and there it is `Ask`, `Look`, `Reply` or `Fail` (`MappedSteps`).
`LinkInv` ties the stage of a request to its client call; `CacheLearns` says that the
cached release never gets older, so that looks are ordered, and `AnswersFromCache`
that a call returns the release cached at the step that ends it. `UpToDateRight` bounds
the finding `up_to_date`: a check that reached GitHub announces every version but the
running one (`ExactInv`), so "Already up to date" is wrong after a degraded check only,
and otherwise the running version was GitHub's latest less than a TTL before.

*CoordinatorProofs.* From `ApiPromise` alone, so what is proved holds for any
implementation of it. The argument is the horizon, the newer of `known` and `base`: it
never goes down, not even in a restart; a request that has not looked yet is not
shown less (`LookSees`); nothing that was ever seen, shown or found is past it
(`HorizonInv`). `RefreshInv` then carries the order through the two requests of a
refresh: its status is not older than what is shown, nor than what the checks it follows
have found; its changes are not older than its status. A check that the debouncer drops
or defers joins those (`found`) only when a refresh starts, before that has looked, which
is why its answer is no bound for the refresh it was dropped under.
`DataThere`, `PairConsistent`, `CheckShown` and `NeverBack` follow.

*UpdaterProofs.* `LockInv` gives `MutualExclusion`. With it only the worker's own
commands move the tags, which gives `TagHeld` and, with `RetagInv` (once the tag is
moved back it names the old image), `Restoration`. `Soundness` needs `OutcomeInv`:
an operation has one outcome, so a failed rollback stays on record. Type
correctness depends on `OldInv` and `RollbackTagHeld`: the rollback deploys from
a tag, and that the tag names an image is not a matter of types. `Atomicity` is the
refinement of `AtomicRollout`: a command inside an operation stutters, since
`Committed` is the image found; an end is `Commit`, `Abort` or `Break` by its outcome,
and `FoundInv` (until the container is touched it runs the image found) makes a
failure before that an abort. `Refusals` bounds the finding `conflict`: whoever holds the
lock is about to start its worker, has it alive, or is a request whose thread could not
be started (`HolderInv`), so nothing else makes the sidecar refuse.

*DeploymentProofs.* The callers only watch: every step of the composition is one of
the sidecar or none (`DeploymentImplementsSidecar`), so its invariant holds here
(`DeploymentSafe`), and so do `Restores` and `Implements`, which need no more of the
sidecar than its steps: every operation is a transaction also when it replaces the
container of the API that asked for it (`DeploymentAtomic`). `Acceptance` needs `ScheduledInv`: a request that is on record as
scheduled keeps its worker, through crashes as well.

*DomainSourceProofs.* First the algebra of pruning: `Survivor` (a redundant rule is
covered by a rule that is kept, where the assumption on suffixes is used), and from
it `PolishKeepsCoverage` and `PolishPart`; `FilterCommutes` needs that a rule that
makes another redundant has the same attributes, namely none, and passes the same
filters. Then the walk: `MemoClosed` is not inductive alone, and `IInv` adds that
every frame holds exactly what its list and the includes before its cursor give
(`Exact`) and that the lists on the stack are different and not in the memo
(`Unfinished`), so that writing the memo never disturbs what was read from it
(`GatheredStable`). `CyclesAreReal` needs that every call waits for the one above.

`ExpansionPolished` relates the memo to the expansion of the sources. The lists that
carry a rule are the least closed set (`CarriersLeast`), so each carries it for a
reason, its own entry or an include (`CarriersGrounded`: without one, the set without
it would be closed and smaller); hence the expansion unfolds one level of includes
(`ExpansionUnfolds`). A filter commutes with pruning, and pruning any number of parts
first changes nothing (`PolishParts`), so a list gathered from pruned expansions is the
pruned expansion (`GatheredExpansion`); a list enters the memo only when its includes
are there, which is the step of the invariant. `CoverageKept` follows by
`PolishKeepsCoverage`.

`OutcomesAreReal` needs `EInv`: the lists on the stack can be read, each is reached from
those above it and the first was requested (`CallsNeeded`); what was requested and is
not waiting has been compiled (`Pending`); and a compiled list can be read and is on no
cycle (`MemoSound`), since what it reaches was compiled before it (`MemoReaches`).

For the export, `PruningExports` says that a pruned list fits in an import file, and
routes there what it routes, exactly as the whole list would; `AllOrNothing` that an
export which no write fails leaves every file untouched or every file new. With
`ExpansionPolished`, which holds of an export too (`WalkKept`), and with what the
backend decided (`DecisionInv`), they give `RefusedExactly`, a refusal exactly when an
expansion does not fit, and `WidenedOnlyBelowFull`: a domain that a file routes is at or
below the name of a rule of the list; a domain rule covers it, and so does a full rule
unless the domain is below. `EnteredOnce` is part of `Unfinished`: a call for a list on the
stack ends the walk instead of entering it.

*RoutingPolicyProofs.* `DocumentDecides`: for every policy that loads, whatever its
domain strategy, and every connection, Xray's passes over the document end at the tag of
the action the policy decides, or at the fallback's for a name that the policy leaves to a
second pass. `RulesDecide` is one pass, over what Xray knows of the connection in it;
`SomeRuleApplies` says that the first pass is the last. The document is three sections and a last rule that always
applies; a section has a rule that applies exactly when its action matches, and all
its rules have its tag (`Section`); sections that are silent may be skipped
(`SilentConcat`).

*BuildProofs.* The invariant says what each command may find, as a set of steps from
the end of the command that established it to the end of the build: the clone after the
copy (`CloneInv`), the two downloads (`GeoipInv`), the generated files
(`GeneratedInv`), the digests (`SealInv`), and that `make configs` never gets to any of
it (`ConfigsInv`). `WriteFrame` says that a command changes its own file only. So
`FromTheSources`, `GeoipChecked` and `XrayFollows` (by `DocumentDecides`). `WholeInv` adds
that the files are whole and that the downloaded digest is gone, and that a validated
build stays as it was, which gives `BuildSealed`; `FreshInv` what a run of the workflow
finds, that its clone is the commit and then the commit under `data/`, up to the compiled
`geosite.dat`, which gives `ReleaseVerified`, and with it `ReleaseKnown`: the leftovers of
the finding `leftover_list` never reach a release.

*Only model-checked:* the liveness properties `EveryRequestEnds`, `LockGivenBack`,
`AcceptedEnds` and `CheckIsFollowed`: liveness under
fairness, and the `ENABLED` it rests on, are out of the prover's reach. Of the
refinements, TLC and the proofs check the same formulas, which are safety: neither
`ApiPromise` nor `AtomicRollout` promises that anything happens. The properties of the
failing runs are false of the code and of the model.

## 5. What is abstracted

Texts (error messages, notes, URLs), log lines, authentication, 404 and 405
answers, a missing `html_url` (it fails like a missing `tag_name`), the release a
degraded `get_release_changes` renders without a tag (its version is `None`), and
output of docker that is not valid UTF-8 (it ends the worker like a client that
cannot be run, after the command instead of before it). A crash of the API loses
only caches: it is `Restart` of `ApiPromise` and `ApiDies` of `Deployment`, and not an
action of `StatusService`, whose refinement is that of one process. The half second the
sidecar sleeps before it works is a length of time, and no order of events follows from
it. Home Assistant's timer and debouncer, git, the geosite compiler, `curl`, Xray and the Keenetic
router are external: what the code relies on of each is in the action that uses it. Of a connection that reaches Xray by its address, Xray may learn a name by
sniffing; the connection is then one to a name. The syntax of a list file: a line that is
refused makes the list broken, like a file that cannot be read or decoded. The
order of the rules, which `_polish` makes canonical by sorting.

## 6. Not modelled

- `download_release`: only the command line calls it, once per process, on a client
  of its own and into a temporary directory nobody else knows; it either returns the
  directory complete or removes it. Nothing runs beside it.
- `service_registry.py`, `category_builder.py`, `coverage.py`, `registry_cli.py`:
  sequential functions from files to a report. They keep no state, share none, and
  nothing of a release is made from their output; what they compute is a matter of
  unit tests.
- The Lovelace card: view code in the browser, with one guard against a second
  action and its timers, local to one object. What its buttons do is in `Coordinator`.
- `container-publish.yml` and `keenetic-artifacts.yml`: one command after another in a
  fresh machine, without state that outlives it.
- Networks, volumes and hardening options of `docker-compose.yml`, and whatever
  concerns authentication.
