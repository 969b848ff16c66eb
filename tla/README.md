# Verification of nebari-landing

TLA+ models of the web API behind the Nebari landing page: how Kubernetes
objects become the service catalog, how the health of a service is probed and
shown, how access is requested and granted, how notifications are kept and told,
and what a browser page comes to show of all this.
The models are translated from the Go sources; each definition and the lines it
stands for are listed in `PROJECT.json` under `map`.

## The system

| Part | State it keeps | Operations | Talks to |
|---|---|---|---|
| service cache `internal/cache` | services by UID with config and health, drop reasons | Add, Remove, Get, GetAll, HealthStatusIfCurrent, UpdateHealthIfCurrent | called by watcher, checker, handlers; one RWMutex |
| health checker `internal/health/checker.go` | table of running probe loops, their contexts | reconcile, probe loops, forgetRunningProbe, stopAll | reads and writes the cache; publishes events, posts notifications |
| probe runner `internal/health/probe_runner.go` | none | validate a target, GET it | called over HTTP by the checker |
| watcher `internal/watcher` | UIDs seen at startup | initial list, informer handlers, ReferenceGrant resync | API server; writes the cache, publishes, posts notifications |
| hub `internal/websocket` | connected clients, session timers | Publish, dispatch and filtered fan-out, ServeWS, drop | Redis Pub/Sub; asks the access policy |
| tickets `internal/wsticket` | `wsticket:{id}` keys with TTL | Issue, Redeem (GETDEL) | Redis |
| access requests `internal/accessrequests` | dedup keys, request hashes, three indexes | Create, UpdateStatus, listings | Redis, shared by all replicas |
| Keycloak admin client `internal/keycloak` | none | AddUserToGroup | Keycloak |
| JWT validator `internal/auth` | key set, refresh in flight, negative cache, readiness | ValidateToken, refresh, init loop | Keycloak's JWKS endpoint |
| notifications `internal/notifications` | hashes with TTL, index, read sets | CreateDraft, List, MarkRead, ReadSet | Redis |
| pins `internal/pins` | a set per user | Get, Pin, Unpin | Redis |
| HTTP API `internal/api` | none of its own | the handlers, requireAuth, canAccessPolicy | all of the above |
| static services `internal/staticservices` | none | load and validate a file at startup | fills the cache |
| page `frontend/src` | list of cards, socket, pin toggles | fetch, apply events, reconnect, toggle | HTTP API, WebSocket |

What is hard about it, and what each part has to get right:

- **Cache and checker.** Probes run for seconds without a lock while the watcher
  replaces configurations and targets turn; a superseded loop, its successor and the reconcile
  goroutine work from different snapshots. No verdict may outlive its check, the
  table of loops must match the goroutines, and the shown health must converge.
- **Access requests.** Every Redis command of several replicas interleaves, a
  pipeline may stop in the middle or be sent again, and a process may die anywhere.
  There is to be
  one pending request per user and service, none may get lost, a decision must
  free the user to ask again and an approval must lead to the group memberships.
- **Watcher.** Two lists at startup, then two informers whose handlers run
  concurrently and publish what they read earlier. Once everything is handled,
  catalog, page and notifications must agree with the cluster.
- **Sessions.** Tickets are raced for, tokens expire between any two steps,
  clients come and go during a broadcast. A ticket opens one session, a session
  ends with its token, nobody hears of a service he may not see.
- **Validator.** Validations join one refresh, times are compared with readings
  from before the lock, a negative cache outlives key sets. Fetches must keep the
  cooldown, every validation must end, rotated and withdrawn keys must be noticed.
- **Notifications.** A post is three commands of a pipeline that may break and be
  sent again; hashes expire under an index that does not; a listing takes several
  commands. A post must be seen whole or not at all, a listing must miss nothing
  that was up, nobody may be told of a service he may not see, a mark must stay.
- **Probe path.** The same target is validated in the cache and again in the
  runner, and three timeouts nest around one request. Neither may refuse what the
  other accepts, and none of the timeouts may cut off another's measurement.
- **Page and pins.** One fetch races events and reconnects, access changes while
  events are under way, several goroutines publish what they read earlier, Redis
  pub/sub loses some of it, an optimistic toggle may be rolled back over a later one.
  The page must never show what its user may not see, and must catch up.

`PROJECT.json` lists the hazards line by line with the properties that cover
them.

## Modules

| Module | Models | Actors |
|---|---|---|
| `ServiceHealth` | cache and health checker | watcher, reconcile goroutine, probe loops, targets, shutdown |
| `HealthBoard` | what cache and checker promise together | configuration, targets, reports |
| `ServiceHealthProofs` | proofs about it, the refinement of `HealthBoard` included | |
| `AccessRequests` | request store, its handlers, the group grant | handlers of any replica, crashes |
| `RequestBook` | what the access requests promise | users, administrators |
| `AccessRequestsProofs` | proofs about it, the refinement of `RequestBook` included | |
| `Watcher` | watcher, its cache writes and events | API server, NebariApp handlers, ReferenceGrant handlers |
| `WatcherProofs` | proofs about it | |
| `WsSession` | tickets, upgrade, hub clients, timers, filtered fan-out | browsers, handlers, timers, subscribe goroutine, clock |
| `SessionOffice` | what tickets, upgrade and hub promise | tokens, tickets, connections |
| `WsSessionProofs` | proofs about it, the refinement of `SessionOffice` included | |
| `JwtValidator` | key load and refresh, cooldown, negative cache | init loop, refresh goroutine, validations, Keycloak, clock |
| `JwtValidatorProofs` | proofs about it | |
| `AccessPolicy` | authentication and authorisation helpers | none: operators, used by `Notifications` and `LiveView` |
| `NoticeBoard` | what the notification store promises | producers, time, users |
| `Notifications` | notification store, its producers and handlers, the push | producers of any replica, callers, Redis, clock |
| `NotificationsProofs` | proofs about it, the refinement of `NoticeBoard` included | |
| `ProbePath` | from a health check's settings to a verdict | configuration, checker, runner, target |
| `ProbePathProofs` | proofs about it | |
| `LiveView` | services and pins handlers, hub, the page's list | NebariApp handlers, resync, health loops, Redis pub/sub, hub, handlers, page, user |
| `LiveViewProofs` | proofs about it | |

The `MC` modules define the set- and function-valued constants of the TLC
instances; `Watcher` needs none. `LiveView` composes the page with the publishers,
the hub and the handlers, each reduced to what the page can notice of it; how the
watcher, the health checker and the sessions work inside is the subject of their
own modules.

### ServiceHealth

`services` and `dropReasons` are the maps of `ServiceCache`, `running` is
`h.running`. Each probe loop has an identity in `Loops`, a program counter `pc`,
its arguments `task`, the status `prev` it read before its probe and the `result`
of the probe; `cancelled` holds the loops whose context is done. The reconcile
goroutine walks a snapshot (`snap`, `todo`). A critical section of `c.mu` or `h.mu`
is one action. What `buildHealthCheckConfig` returns is an input of `Add`: a config, or
none with or without a reason. `LoopProbe` is the return of `Probe`: the result is
what the target answers then, or, of a cancelled loop, the failed request,
"unhealthy" when it was sent directly and "unknown" through the runner. `LoopStore`
is `UpdateHealthIfCurrent`, some time later: no lock is held in between, the target
may have turned and the configuration may have been exchanged. `Loops` bounds
how many goroutines are alive at once; a launch waits for a free identity.

`HealthBoard` has no loops: a board with a verdict for each service, the answers of
the targets, and inspectors who take a reading of a target and report it later, so
that the board may show what the target no longer answers. A report goes up only
while the check is the one the reading was taken for. As long as a service is not in
doubt every reading is an answer its target gave, and one inspector at a time has a
reading of it, so that no report overtakes a later one. A service comes into doubt
only when its check is exchanged or the context is done, and even then nobody makes
up "healthy". The mapping is `board <- services`, `target <- answer`, `readings <-`
the results that have arrived and are not stored, and in doubt is whoever some loop,
entry or snapshot disagrees with the cache about (`Doubted`).

### AccessRequests

`dedup`, `status`, `owner` and the three indexes are the Redis keys; a handler
runs one command per step (`pc`). If `Failures` is set, a handler may abort before
any command, a pipeline may fail after any prefix and the last reply may be lost.
The Redis client is made with its defaults (`main.go:209-214`), and go-redis then
sends a pipeline whose reply it did not get again, from its first command:
`CreateResend`, `ResolveResend` and the second branches of `CreateIndexUser`,
`CreateCleanup` and `ResolveUnlock`. How often it does so is left open. One
assumption is made: a copy that was given up has had its effect, or will have
none, before the next one is sent. A second SET NX of the same creation is refused
for its own key, which leaves the key behind like a death after SET NX (`Abort`).
The lookup of the service and SET NX are one step: nothing else in the store depends
on the service being listed.

Two history variables separate what the store guarantees from the known ways to
lose the guarantee (see Findings and Observations). `tainted` are the pairs whose
dedup key was deleted although it did not belong, or not only, to the request being
finished; `revived` are the requests that a repeated HSET put back to pending after
they were decided, and their pairs are tainted too.

`RequestBook` has no handlers and no keys: a request is filed, and until its creation
is answered it may be filed again, which takes back a decision and puts its pair
into dispute (`Refile`); it is decided as often as administrators like, and once
its creation is answered it is never pending again; a user joins a group only while
an approval of one of his requests is being granted, and only a group that the
service requires. The mapping reads `owner` of a filed request and `status`
unchanged, `filing` is every request whose creation some handler is at, `disputed <-
tainted`, and `granting` is every request whose approval some handler has stored and
not finished with.

### Watcher

`cluster` and `grants` are the API server, `events`, `known` and `grantEvents`
the informers, `services` and `allowed` what the cache holds of each app (its
spec and the consent to a cross-namespace health check), `board` what a client
that hears every event shows (what is lost on the way is `LiveView`'s subject) and `notice` the last notification about an app.
`ghosts` is a history variable: the entries whose app had left the cluster when
the informer listed. List calls go to the API server: the client does not read
unstructured objects from its cache. An app is identified by its UID, so a
deleted one never comes back. `overtaken` is a second history variable: the
cross-namespace apps whose consent no resync was sure to refresh, because a
goroutine already held its answer when the grant changed, the grant changed
before its informer listed, or a resync was refused its list.

### WsSession

A token is good until `exp` plus the leeway; a ticket carries the token whose
claims it snapshots. A connection goes through accepted, registered, open and
closed; `timer` holds the connections with a session-end timer, `targets` the
snapshot a broadcast still has to write to. `Visible` is `canAccessPolicy`
applied to the claims of each token. Authentication is on: without it every
caller is anonymous and no session is bounded, by design. Events stand for
service events and for notifications tagged with a service, which take the same
path; frames that go to everybody unfiltered are left out.

`SessionOffice` has no clock, no handler and no hub: tokens become good and lapse,
a ticket stands for a good token and is spent by its one use or by time, a
session is admitted on a good token, keeps it and is told only what it opens. The
mapping is `standing <- ` what the validator would say of the token now,
`stub <- ticket`, `session <-` the token of each connection in use.

### JwtValidator

Every time the code keeps is only compared with the present, so the model keeps
ages that a tick increases up to the point where no comparison changes any more.
`fetch` is the one `fetchPublicKeys` under way: of the init loop until the
validator is ready, of the refresh goroutine (`refreshCall`) afterwards. A
validation reads the key map, the negative cache and `lastFetch` in separate
steps before it takes `refreshMu`. `served` is what Keycloak would answer; the
empty set stands for an outage, an error and an answer without a usable key
alike, because the code treats them alike. `unknown` are the keys of the negative
map, the expired ones included until they are pruned. No time passes while a
goroutine is between `time.Now()` and the lock; one that is held up there for the
whole cooldown of 60 s could start a refresh early.

### AccessPolicy

A caller is what his Authorization header and the claims of its token say. The
operators are `canAccessPolicy`, `groupMatches`, `extractAndValidateJWT`,
`requireAuth`, `requireAdmin` and what they call; `ready` says whether the
validator has keys, since every token is answered with 503 before. A group is a
record of a name and whether it is written as a path: "/admin" and "admin" match.

### Notifications and NoticeBoard

`stored` and `ttl` are the hashes, `index` the sorted set, `reads` the read sets.
`post` says how far the producer of a notification is (HSET, EXPIRE, ZADD, reply,
publish); `Resend` sends a broken pipeline again from its first command, as
go-redis does. A listing (`rq`, `left`, `got`) fetches the IDs and then each
hash. `due` and `prior` are history variables: what was up when the listing began
and still is, and the marks answered before it began. A caller marks only an ID he
can know, one that was listed or pushed. `NoticeBoard` has no commands: a
notification is put up once and in one step, taken down, never put up again, and
marks stay. The refinement mapping is `posted <- index`, `board <- index` with a
hash, `marks <- reads`.

### ProbePath

One probe at a time, of a NebariApp (`ToApp`) or a static entry (`StaticApp`):
`DropReason` is `buildHealthCheckConfig` with its checks in their order, then the
request goes directly to the target or through the runner, which validates it
again (`Refusal`). Ports, seconds and sizes are numbers, with the code's limits;
names and namespaces are labels or not; a path has a kind, a length and the bytes
that JSON escaping adds to it. `elapsed` counts the time of the probe in ticks,
`hops` the part spent between webapi and runner. A path kind `badFragment` is a
malformed fragment, which `url.ParseRequestURI` takes for a part of the query and
`url.Parse` refuses.

### LiveView

`catalog` is the service cache, `bus` the events published, `wire` the frames
written to the page's socket, `cards` and `flags` the page's list and its pin
flags, `fetch` how far its one GET /services is. The content of a service is one
value, of which `Visibility` and `Required` are parts.

Three kinds of goroutines change the cache and publish: the one of the NebariApp
handlers, the one of `resyncCrossNamespaceApps` and the loops of the health checker.
`said` is how far each of them is between its change of the cache, its reading of
the entry and its publication, which are steps of their own, so that any of them may
publish late. `Publish` may fail, in which case the hub drops the event
(`hub.go:377-381`), or lose its reply and be sent again; `LoseEvent` is what was
published while the subscription was down (`hub.go:181-183`); `Break` loses the
frames on the socket. `faults` bounds these failures and `changes` the changes of
the cache; as in `AccessRequests`, a PUBLISH that was given up has had its effect
before the next is sent.

Four history variables name what the page cannot know. `untold` are the services
whose entry was changed and not published since. `unseen` are those whose last event
did not reach the list: lost with the socket, with a failed PUBLISH or with the
subscription, filtered out because the user may not see the service any more,
written before an older answer of GET /services replaced the list, overtaken by an
older event of another goroutine, or never published because a handler that removes
an entry found none before a resync put it there. `since` computes which of them an
answer under way replaces, and `unsure` are the services whose pin flag is disputed
(overlapping clicks, a lost answer, pins that could not be read, a card that came
with an event). An exception of `unseen` ends with the next event of the service.
`GetPins` and `GetServiceByUID` are handlers that change nothing: operators, about
which `PinsRevealNothing` speaks.

## Runs

Deadlock is checked in every run except those of `Watcher` and `LiveView`, where
the numbers of changes, clicks and failures are bounded and the system rests when
all are handled, and of `ProbePath`, where a process with an invalid
configuration really exits.

| Run | Checks | Bounds |
|---|---|---|
| `ServiceHealth` | `RegisteredLoopRuns`, `LiveLoopIsRegistered`; `VerdictsFollowTargets` (refinement), `HealthConverges`, `ProbesCease`, `ShutdownDrains` | one service, two configurations (one direct with a flapping target, one through the runner), two loops; no drop reasons |
| `AccessRequests_safety` | `PendingHoldsKey`, `AcceptedStaysVisible`; `RequestsAreBooked` (refinement) | one user, a service, two requests, two handlers, failures and resent pipelines |
| `AccessRequests_live` | `RefusalMeansPending`; `ResolvedFreesKey`, `ApprovalGrants` | one user, a listed and a static service, two groups, two handlers, no failures |
| `Watcher` | `CatalogFollowsCluster`, `NoticesFollowCatalog`, `ConsentIsGranted`; `DeletedLeaves` | an app of its own namespace and a cross-namespace one in any initial state, two specs, two changes, failing lists |
| `WsSession` | `ClientsAreConnections`; `SessionsAreAdmitted` (refinement), `SessionEnds`, `ClosedIsDropped` | two tokens with different access, one ticket, two connections, four instants |
| `JwtValidator` | `NegativesDescribeKeys`, `RefreshesAreSpaced`; `ValidationEnds`, `BecomesReady`, `StopReturns`, `RotatedKeyIsLearned`, `RevokedKeyIsForgotten` | two keys served in turn, two validations, a tick of one cooldown (a fetch takes less), negative entries of two ticks, stale after two, one negative entry, two active retries |
| `Notifications` | `DeliveryIsEntitled`, `ListIsComplete`, `ReadMarkIsShown`; `BoardSpec` (refinement) | a private service's notification and an announcement, a member who is an admin and an outsider, a retention of one tick, one resent pipeline, failures |
| `ProbePath` | `RefusedForItsPath`, `SlowTargetIsMeasured`, `TimelyVerdict` | families of settings around each limit of ports, seconds, names, namespaces and path sizes; two ticks to the second, hops of 0 to 4 ticks; seven lists of static entries |
| `LiveView` | `CardsAreEntitled`, `CardsAreCurrent`, `PinFlagIsStored`, `PinsRevealNothing`; `PageCatchesUp` | one service that is the user's team's, healthy or sick, or another team's; the handlers', the resync's and one health loop's goroutine; two changes of the cache, one click, one failure of socket or pub/sub |

The type invariants and some further ones (among them `UnconfiguredIsUnknown`,
`TicketOpensOneSession` and `ProbedIsAllowed`, which the refinements and the other
properties leave little to say about, `WaitersAreServed`, `PushedWasStored` and
`StaticChecksKept`) have no run: they are proved.

The bounds are the least at which the cases of interest happen: a superseded loop
beside its successor and an A, B, A change of configuration; two handlers in the
middle of the same request and of two requests of one user; an event being handled
while a resync walks an older list; a target that turns between a response and its
storing; a pipeline that is sent again after another handler has decided its request;
a connection that leaves while a broadcast still has to write to it and another comes,
with a token that expires in between; two validations that join one refresh, a
rotation while another is between its two look-ups; a listing during which one notification expires and another is posted by
a pipeline that breaks; an event that is overtaken by a change of access, or lost.
Three cases are left to the proofs: a second user of access requests, with whom the
first shares no key, index entry or handler; a second click on a pin before the first
is answered (`MaxClicks = 1`); and drop reasons in `ServiceHealth`. Every safety
property of a passing run and every refinement is also proved for all values of the
constants, so that the runs do not carry the whole weight.

Fairness. Goroutines are scheduled and every blocking call has a timeout, which
gives weak fairness of the loops, handlers and workers. A Go `select` with two
ready cases picks at random, so a done context is not passed over for ever:
strong fairness of `LoopStop` and `StopAll`. `AccessRequests_live` assumes that
handlers come to their end, which is why failures are off there. In `WsSession`
time passes; in `JwtValidator` too, and the few instructions between
`time.Now()` and the lock are not occupied by some validation at every moment.
In `LiveView` the validator retries its first fetch, the publishing goroutines, the
handlers and the page's callbacks run on and the socket is opened again three seconds
after it broke.
The environment (updates, requests, clients, the cluster, targets, Keycloak) is
never assumed fair; that Keycloak comes back or that a key is asked for again is
a hypothesis of the property that needs it.

## Findings

Each is a run in which TLC finds a counterexample to what the repository says.

- `ServiceHealth_recovery`: `prevStatus` is read before the probe. With two
  overlapping loops a service goes from "unhealthy" to "healthy" and nobody
  posts the notification.
- `AccessRequests_twopending`: resolving a resolved request again deletes the
  dedup key of a newer request, and the user gets a second pending one.
- `Watcher_startup`: an app deleted between `syncInitial`'s list and the
  informer's list stays in the cache.

### Observations

What the models show without a run of its own: behaviours that a property has to
name as its exception, or that its reading of the code brought up.

- A process that dies between SET NX and the pipeline of Create leaves a dedup key
  without TTL, which refuses that user for good (`store.go:116`).
  `RefusalMeansPending` therefore speaks of executions without failures.
- A pipeline of Create whose reply is lost is sent again by go-redis, also when an
  administrator has resolved the request from the list meanwhile: HSET puts it back
  to pending without its dedup key (`store.go:126`, `main.go:209`), and its user may
  file a second one. And the resolver whose HSET came before and whose ZREM comes
  after takes such a request out of the queue while it is pending. These are the
  `revived` requests of `AcceptedStaysVisible`, the tainted pairs of
  `PendingHoldsKey` and the step `Refile` of `RequestBook`.
- A resolver that dies between HSET and ZREM leaves a resolved request in the
  pending list (`store.go:240`). So does one that resolves a request between ZADD of
  the all index and ZADD of the pending index of its creation (`store.go:138`).
- A grant that Keycloak refuses is logged and never retried: the request is approved
  and the user is not in the group (`handlers.go:1037`). `ApprovalGrants` speaks of
  executions without failures.
- A resync that listed a cross-namespace app before its deletion adds it again after
  it, and nothing removes it until the process restarts (`watcher.go:276`).
  `CatalogFollowsCluster` speaks of the apps that only the NebariApp handlers touch.
- Consent read before a revocation can be stored after the resync that the
  revocation caused (`watcher.go:432`); these are the `overtaken` apps of
  `ConsentIsGranted`.
- The Bearer path of the upgrade has no guard on `exp`: within the validator's
  leeway a session starts that no timer ends (`hub.go:437`), and nothing bounds it but
  its connection. `docs/design/ws-per-client-access-filter.md:269-271` says that no
  code path opens an unbounded session at the hub, and `handlers.go:288-293` guards the
  ticket path for that reason. `SessionEnds` speaks of sessions that open before `exp`.
- Read marks of a token without `preferred_username` are stored under its `sub` and
  never looked up there (`handlers.go:740` and `:700`).
- The notification index and the read sets only grow (`notifications/store.go:153`).
- A path with a malformed fragment, or one whose JSON-escaped body exceeds 4096
  bytes, is accepted by the cache and refused by the runner: the service stays
  "unknown" with no drop reason.
- An event that is published after a deletion, by a health loop (`checker.go:505`) or
  the resync (`watcher.go:279`), brings the card back until the service's next event
  or the next full load. An event whose PUBLISH fails is logged and dropped
  (`hub.go:377`), and so is what is published while the subscription reconnects
  (`hub.go:181`): open pages keep the old card. A service that becomes invisible to a
  user leaves its old card on his page (`hub.go:290`). These are the `unseen` services
  of `CardsAreCurrent` and `PageCatchesUp`.
- The page does not repeat a fetch that was answered with 503: the list stays empty
  but for events. The comment at `handlers.go:1230-1233` says that the SPA reads
  Retry-After to back off; nothing under `frontend/src` reads that header.
  `PageCatchesUp` names the refused fetch as its exception.
- A service that is absent from reconcile's snapshot (or has another configuration
  there) and is listed again as before has its loop cancelled by that walk
  (`checker.go:196`, `checker.go:213`). The cancelled request fails, and as the
  configuration is the current one the failure is stored (`checker.go:371`,
  `service_cache.go:336`): the page shows "unhealthy" for a target that is well,
  until the loop of the next walk probes it. This is why `HealthBoard` knows doubt.
- Without authentication pins are stored under `_anonymous`, but the list is
  answered with no pins at all (`handlers.go:469`), so that a pinned card loses its
  flag on the next load. `PinFlagIsStored` speaks of callers who are logged in.
- Without authentication GET /pins treats the caller as authenticated and shows
  private services that need no group, where GET /services hides them.

## Proofs

For every set of services, configurations, loops, users, requests, handlers, apps,
tokens and settings, from the named assumptions on constants only (distinctness
of null values and the types of the constants; the set of apps is finite):

- `ServiceHealthProofs`: `TypeCorrect`, `UncheckedShowsUnknown`,
  `ReasonsExplainMissingChecks`, `TableMatchesGoroutines` (and its half
  `NoLoopIsLost`). The correspondence is inductive
  only together with two facts, which make up `IInv` with the properties: what
  the reconcile goroutine has still to visit and what a goroutine probes is
  never the nil configuration (`WorkIsConfigured`), and a goroutine slot that is
  not in use has no cancelled context left over (`FreeLoopIsClean`). The argument
  is that every place which drops an entry of `h.running` cancels the loop in the
  same critical section, and that only the goroutine that ends frees its slot:
  when it ends uncancelled it goes through `forgetRunningProbe`, which finds its
  own entry because the entry's config equals its own. One lemma per part of
  `IInv`, one step per action.
  `CheckerImplementsBoard` maps every step to one of `HealthBoard`. While a service
  is agreed about, no step makes anybody disagree but one that exchanges its check
  (`AgreementStep`, `DoubtStep`), its one goroutine is the registered one
  (`OneLoopUnlessDoubted`), so that no other reading of it is under way
  (`ReaderIsAlone`), and that goroutine is not cancelled, so that what its probe
  returns is its target's answer (`ProbeTakesReading`). `StoreReports` takes the store
  to the report of the reading, or to its discard when the configuration is another
  one by then.
- `AccessRequestsProofs`: `TypeCorrect`, `PendingRequestsHoldTheirKey`,
  `OnePendingUnlessTainted`, `ListingsAreComplete`, `AcceptedIsListed`,
  `RefusalsAreFounded`. `IInv` adds which handler owns which ID
  (`HandlersOwnTheirIDs`), what the hash and the indexes hold at each command
  (`HashFollowsPipeline`, `IndexesFollowPipeline`) and that the key is held from SET NX
  on (`CreatorHoldsKey`). The commands are ordered so that a prefix is harmless: hash
  before indexes, status before ZREM before DEL. That a pipeline starts again harms
  only through its HSET, and only if a decision came before it: the request is then
  `revived` and its pair tainted, which the other parts name as their exception.
  `RefusalsAreFounded` takes an invariant of its own, `KeyHolderIsAtWork`: a held
  key is that of a pending request or of a handler with a write still to do.
  `RequestsImplementBook` needs two parts of `IInv` more than the invariants did: a
  creator holds the key while its request is not yet filed, so that HSET files
  nothing beside another pending one (`FileStep`, from `PendingHoldsKey`), and who
  grants groups has stored an approval and holds only groups the service requires
  (`GrantIsApproved`, for `JoinStep`). A repeated HSET is a stutter or a `Refile`, a DEL
  out of turn a dispute (`ReleaseStep`); all other commands, resends and failures are
  stutters or the end of a creation or a grant (`QuietStep`, `FewerOnHand`).
- `JwtValidatorProofs`: `TypeCorrect`, `ReadyKeepsKeys`, `CacheKeepsItsLimit`,
  `NegativesAreFresh`, `CooldownHolds`. The last is the interesting one: `lastFetch`
  is read before the lock and may be outdated when it is compared. `IInv` says that
  a refresh in flight is no older than its deadline (`RefreshIsRecent`) and that
  whoever holds an outdated reading is held back by the time of the last attempt
  (`OutdatedReadIsHarmless`); both rest on the assumption that the deadline of a
  fetch (10 s) is below the cooldown (60 s). `ValidatesWhenReady` and
  `FetchedKeysAreUsable` carry the rest, and the bound of the cache takes the
  cardinality theorems for finite sets. `NoWakeUpIsLost`: the decision to join a
  refresh and its start are one critical section, and a refresh that ends wakes
  every waiter, so nobody waits for a refresh that is over.

- `WatcherProofs`: `TypeCorrect`, `CatalogIsFollowed`, `NoticesAreFollowed`,
  `ConsentIsKept`. The argument of the first: the last event waiting for an app
  tells its present state (`EventsEndAtCluster`), only the NebariApp handler
  touches an app of its own namespace (`WorkersInOrder`), and at each of its steps
  cache and page stand in a known relation to the event it handles
  (`HandlerFollowsEvent`), so that both are at the cluster's state when the queue
  is empty (`CatalogApproachesCluster`). Notices hold because the resync never
  looks up or removes. Consent holds because a withdrawn grant leaves a grant
  event, a walk or a handler behind that will look again (`WillRefresh`).
- `WsSessionProofs`: `TypeCorrect`, `TicketsAreSingleUse`, from `TicketsAreFresh`
  (what can be redeemed has opened nothing) and `SessionsAreIssued` (a connection
  stands on an issued token). `HubKnowsItsClients` says that every registered or open
  connection is in the client set, and that the set holds no connection that has left
  (`ClientStep`): whoever takes a client out, reader or failed write, does so on a
  connection that is closed or that he closes in the same step.
  `EndpointImplementsOffice` takes each handler's step to an admission, a use of a
  ticket, an event told or a closing; that a token is good when it is admitted
  comes from the checks of the handler, that a ticket's use is its only one from
  `TicketsAreFresh`, and that what is told is open to the session from the filter of
  the fan-out and from the session's keeping its token (`TellStep`).
- `NotificationsProofs`: `TypeCorrect`, `EverythingShownExpires`,
  `OnlyEntitledAreTold`, `ListingsAreComplete`, `StoredBeforePushed`,
  `MarksAreShown` and the refinement `StoreImplementsBoard`. `StoreFollowsPost`
  says what the store holds at each command, also of a pipeline sent again;
  `ListFollowsIndex` that what is due was fetched or still will be;
  `MarksFollowReads` that a mark is in its read set before it is answered. In the
  refinement ZADD is the step that puts a notification up: by `StoreFollowsPost`
  its hash is there, and a repeated ZADD finds it already up. A tick takes down,
  and SADD marks.
- `ProbePathProofs`: `TypeCorrect`, `TargetsAreAllowed`, `ValidationsAgree`,
  `VerdictsAreMeasured`, `SlowTargetsAreMeasured`, `ProbesEndInTime`,
  `StaticChecksAreKept`. Deadlines nest: the webapi's is the target's limit plus a
  second, at most the interval plus a second, and both are below the server's
  limit; `ProbeIsOnTime` says where in these limits a request is at each phase.
- `LiveViewProofs`: `TypeCorrect`, `PageNeverReveals`, `PinsNeverReveal`,
  `CardsFollowCatalog`, `PinsAreShown`. The first two are inductive with
  `TransitIsEntitled`: the answer and the frames on their way to the page contain
  only what its user may see. `CardsFollowCatalog` follows the present content of a
  service along its way. As long as it is untold, some goroutine is on its way to
  publish it (`ChangesAreTold`). Once it is neither untold nor on the bus, the last
  frame about it on the wire is its view (`WireEndsAtView`), without one the answer of
  the fetch is (`AnswerIsView`), or else the card (`ListIsView`), each unless the
  service is `unseen`. `PinsAreShown` follows a toggle: at most one under way on a
  service whose pin is undisputed (`OneToggleAtATime`), the card shows what it asks
  for, and the store holds the opposite until the toggle has reached it
  (`ToggleIsExplained`); so its answer, kept or rolled back, leaves both in agreement.

Model-checked only: the liveness properties (fairness and ENABLED are beyond the
prover) and the three properties of the findings, which do not hold.

## Not modelled

- Handlers that only read: categories, the caller's identity, health and debug
  output; CORS, route registration and flags.
- The display fields of a service: `toApp`'s title, icon, URL and category are part
  of an opaque content.
- The informer's periodic resync (ten hours by default), which re-adds what the
  cluster holds and cannot remove a ghost.
- A copy of a pipeline or of a PUBLISH that takes effect after the copy sent in its
  place: a command that was given up has had its effect, or has none, before the next
  try. The tries themselves are modelled, also those of the notification pipeline.
- Several replicas posting the same notification: each is a notification of its
  own to the store.
- The data race on `ServiceInfo.Health` between a stored result and a reader that
  marshals the entry without the lock: `LiveView` takes a published entry as it was
  when `Get` returned it.
- The second connect of a development build of the page (StrictMode), its login
  adapter, local storage and rendering.
- Generated API documents and their generators.

## What is left

- Abstract specifications of the watcher (a catalog that mirrors the cluster) and of
  the validator (a key set that is at most a cooldown behind), with proofs that the
  modules implement them.
- `LiveView` with the real `WsSession` in place of its socket.
