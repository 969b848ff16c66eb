-------------------------------- MODULE Watcher ------------------------------
(***************************************************************************)
(* The NebariApp watcher (internal/watcher/watcher.go): how the cluster's  *)
(* NebariApps and ReferenceGrants reach the service cache                  *)
(* (internal/cache/service_cache.go) and the event channel                 *)
(* (internal/websocket/hub.go Publish).                                    *)
(*                                                                         *)
(* Two goroutines call the cache and publish: the NebariApp handlers       *)
(* ("apps"; the initial sync runs before them, in the same slot) and the   *)
(* ReferenceGrant handlers ("grants"), which list the NebariApps again and *)
(* re-add those whose Service is in another namespace.  Each call that     *)
(* takes the cache's lock, lists from the API server or publishes is one   *)
(* action.                                                                 *)
(***************************************************************************)
EXTENDS Naturals, Sequences, FiniteSets

CONSTANTS
    Apps,       \* UIDs of NebariApps; a UID is never used again
    CrossNs,    \* those whose Service is in another namespace
    Specs,      \* contents of a NebariApp with landingPage.enabled
    Off,        \* a NebariApp without it
    Unborn, Gone,
    None,       \* no entry, no card
    NoApp,
    MaxChanges, \* bounds how often the cluster changes
    Failures    \* the API server may refuse a List

ASSUME AppAssumption   == CrossNs \subseteq Apps /\ NoApp \notin Apps /\ IsFiniteSet(Apps)
ASSUME ValueAssumption == Specs \cap {Off, Unborn, Gone, None} = {}
                          /\ Off \notin {Unborn, Gone, None}
                          /\ Unborn \notin {Gone, None} /\ Gone # None
ASSUME BoundAssumption == MaxChanges \in Nat /\ Failures \in BOOLEAN

Object  == Specs \cup {Off}
Workers == {"apps", "grants"}

VARIABLES
    cluster,     \* API server: each NebariApp
    grants,      \* API server: apps whose target a ReferenceGrant permits
    changes,     \* how often the cluster has changed
    phase,       \* Start: "list", "initial", "grants", "watching" or "appsOnly"
    initialUIDs, \* w.initialUIDs
    events,      \* informer: NebariApp events not yet handled
    known,       \* informer: apps whose Add was handed to onAdd
    grantEvents, \* informer: ReferenceGrant events not yet handled
    services,    \* cache: the spec each entry was built from, or None
    allowed,     \* cache: entries built with HealthCheckCrossNamespaceAllowed
    board,       \* what a client that hears every event shows
    notice,      \* the last notification posted about each app
    ghosts,      \* history: entries that left the cluster before the informer listed
    overtaken,   \* history: apps whose consent no resync was sure to refresh
    pc, item, obj, kind, consent, got, todo  \* the goroutines

clusterVars  == <<cluster, grants, changes>>
informerVars == <<events, known, grantEvents>>
cacheVars    == <<services, allowed>>
workVars     == <<pc, item, obj, kind, consent, got, todo>>
historyVars  == <<ghosts, overtaken>>
vars == <<cluster, grants, changes, phase, initialUIDs, events, known, grantEvents,
          services, allowed, board, notice, ghosts, overtaken,
          pc, item, obj, kind, consent, got, todo>>

Nothing == [u \in Apps |-> None]

TypeOK ==
    /\ cluster \in [Apps -> Object \cup {Unborn, Gone}]
    /\ grants \subseteq CrossNs
    /\ changes \in 0 .. MaxChanges
    /\ phase \in {"list", "initial", "grants", "watching", "appsOnly"}
    /\ initialUIDs \subseteq Apps
    /\ events \in [Apps -> Seq(Object \cup {Gone})]
    /\ known \subseteq Apps
    /\ grantEvents \in Nat
    /\ services \in [Apps -> Specs \cup {None}]
    /\ allowed \subseteq CrossNs
    /\ board \in [Apps -> Specs \cup {None}]
    /\ notice \in [Apps -> {"none", "available", "removed"}]
    /\ ghosts \subseteq Apps /\ overtaken \subseteq CrossNs
    /\ pc \in [Workers -> {"idle", "toApp", "add", "get", "publish", "lookup", "remove", "bye"}]
    /\ item \in [Workers -> Apps \cup {NoApp}]
    /\ obj \in [Workers -> Specs \cup {None}]
    /\ kind \in [Workers -> {"initial", "added", "modified"}]
    /\ consent \in [Workers -> BOOLEAN]
    /\ got \in [Workers -> Specs \cup {None}]
    /\ todo \in [Workers -> [Apps -> Specs \cup {None}]]

Init ==
    /\ cluster \in [Apps -> Object \cup {Unborn}]
    /\ grants \in SUBSET CrossNs
    /\ changes = 0 /\ phase = "list" /\ initialUIDs = {}
    /\ events = [u \in Apps |-> <<>>] /\ known = {} /\ grantEvents = 0
    /\ services = Nothing /\ allowed = {} /\ board = Nothing
    /\ notice = [u \in Apps |-> "none"] /\ ghosts = {} /\ overtaken = {}
    /\ pc = [w \in Workers |-> "idle"] /\ item = [w \in Workers |-> NoApp]
    /\ obj = [w \in Workers |-> None] /\ kind = [w \in Workers |-> "modified"]
    /\ consent = [w \in Workers |-> FALSE] /\ got = [w \in Workers |-> None]
    /\ todo = [w \in Workers |-> Nothing]

-----------------------------------------------------------------------------
(* The cluster and its informers (external).                               *)

(* NebariApp u is created, changed or deleted; the informer, once it has   *)
(* listed, queues an event for the handlers.                               *)
Change(u, o) ==
    /\ changes < MaxChanges /\ changes' = changes + 1
    /\ \/ cluster[u] = Unborn /\ o \in Object
       \/ cluster[u] \in Object /\ o \in (Object \cup {Gone}) \ {cluster[u]}
    /\ cluster' = [cluster EXCEPT ![u] = o]
    /\ events' = IF phase \in {"list", "initial"} THEN events
                 ELSE [events EXCEPT ![u] = Append(@, o)]
    /\ UNCHANGED <<grants, phase, initialUIDs, known, grantEvents, cacheVars, board, notice,
                   historyVars, workVars>>

(* A ReferenceGrant for the target of app u is created or deleted.         *)
ChangeGrant(u) ==
    /\ changes < MaxChanges /\ changes' = changes + 1
    /\ u \in CrossNs
    /\ grants' = IF u \in grants THEN grants \ {u} ELSE grants \cup {u}
    /\ grantEvents' = IF phase = "watching" THEN grantEvents + 1 ELSE grantEvents
    /\ overtaken' = IF phase = "grants" \/ \E w \in Workers : item[w] = u /\ pc[w] = "add"
                    THEN overtaken \cup {u} ELSE overtaken
    /\ UNCHANGED <<cluster, phase, initialUIDs, events, known, cacheVars, board, notice,
                   ghosts, workVars>>

-----------------------------------------------------------------------------
(* The goroutines.                                                         *)

(* Worker w turns to app u with object o, of which it will publish k.      *)
TakeUp(w, u, o, k, step) ==
    /\ item' = [item EXCEPT ![w] = u]
    /\ obj' = [obj EXCEPT ![w] = o]
    /\ kind' = [kind EXCEPT ![w] = k]
    /\ pc' = [pc EXCEPT ![w] = step]
    /\ UNCHANGED <<consent, got>>

GoTo(w, step) ==
    /\ pc' = [pc EXCEPT ![w] = step]
    /\ UNCHANGED <<item, obj, kind, todo>>

(* The call of w returns; its locals are gone.                             *)
Return(w) ==
    /\ pc' = [pc EXCEPT ![w] = "idle"]
    /\ item' = [item EXCEPT ![w] = NoApp]
    /\ obj' = [obj EXCEPT ![w] = None]
    /\ kind' = [kind EXCEPT ![w] = "modified"]
    /\ consent' = [consent EXCEPT ![w] = FALSE]
    /\ got' = [got EXCEPT ![w] = None]
    /\ UNCHANGED todo

(* The enabled NebariApps among us, as the API server lists them.          *)
Listed(us) == [u \in Apps |-> IF u \in us /\ cluster[u] \in Specs THEN cluster[u] ELSE None]

(* syncInitial lists the NebariApps; the entries are added one by one.     *)
SyncInitial ==
    /\ phase = "list" /\ phase' = "initial"
    /\ initialUIDs' = {u \in Apps : cluster[u] \in Object}
    /\ todo' = [todo EXCEPT !["apps"] = Listed(Apps)]
    /\ UNCHANGED <<clusterVars, informerVars, cacheVars, board, notice, historyVars,
                   pc, item, obj, kind, consent, got>>

(* Mutation of Watch: the handlers are registered without the replay of    *)
(* the objects the informer already has.                                   *)
WatchWithoutReplay ==
    /\ phase = "initial" /\ phase' = "grants"
    /\ pc["apps"] = "idle" /\ todo["apps"] = Nothing
    /\ ghosts' = {u \in Apps : services[u] # None /\ cluster[u] \notin Specs}
    /\ UNCHANGED <<clusterVars, initialUIDs, informerVars, cacheVars, board, notice, overtaken,
                   workVars>>

(* watch: the informer lists the NebariApps again and replays them to      *)
(* onAdd.                                                                  *)
Watch ==
    /\ phase = "initial" /\ phase' = "grants"
    /\ pc["apps"] = "idle" /\ todo["apps"] = Nothing
    /\ events' = [u \in Apps |-> IF cluster[u] \in Object THEN <<cluster[u]>> ELSE <<>>]
    /\ ghosts' = {u \in Apps : services[u] # None /\ cluster[u] \notin Specs}
    /\ UNCHANGED <<clusterVars, initialUIDs, known, grantEvents, cacheVars, board, notice,
                   overtaken, workVars>>

(* watchReferenceGrants: the informer replays the existing grants.  When   *)
(* the kind is not installed the watcher goes on without.                  *)
WatchReferenceGrants ==
    /\ phase = "grants"
    /\ \/ phase' = "watching" /\ grantEvents' = Cardinality(grants)
       \/ Failures /\ phase' = "appsOnly" /\ UNCHANGED grantEvents
    /\ UNCHANGED <<clusterVars, initialUIDs, events, known, cacheVars, board, notice, historyVars,
                   workVars>>

(* Mutation of ResyncList: the test for another namespace is inverted.     *)
ResyncListOwnNamespace ==
    /\ pc["grants"] = "idle" /\ todo["grants"] = Nothing
    /\ grantEvents > 0 /\ grantEvents' = grantEvents - 1
    /\ todo' = [todo EXCEPT !["grants"] = Listed(Apps \ CrossNs)]
    /\ UNCHANGED <<clusterVars, phase, initialUIDs, events, known, cacheVars, board, notice,
                   historyVars, pc, item, obj, kind, consent, got>>

(* resyncCrossNamespaceApps lists the NebariApps; after an error it waits  *)
(* for the next ReferenceGrant event.                                      *)
ResyncList ==
    /\ pc["grants"] = "idle" /\ todo["grants"] = Nothing
    /\ grantEvents > 0 /\ grantEvents' = grantEvents - 1
    /\ \/ todo' = [todo EXCEPT !["grants"] = Listed(CrossNs)] /\ UNCHANGED overtaken
       \/ Failures /\ UNCHANGED todo /\ overtaken' = CrossNs
    /\ UNCHANGED <<clusterVars, phase, initialUIDs, events, known, cacheVars, board, notice,
                   ghosts, pc, item, obj, kind, consent, got>>

(* The next item of the list of syncInitial or of a resync.                *)
NextItem(w, u) ==
    /\ pc[w] = "idle" /\ todo[w][u] # None
    /\ TakeUp(w, u, todo[w][u], IF w = "apps" THEN "initial" ELSE "modified", "toApp")
    /\ todo' = [todo EXCEPT ![w][u] = None]
    /\ UNCHANGED <<clusterVars, phase, initialUIDs, informerVars, cacheVars, board, notice, historyVars>>

(* Mutation of HandleEvent: the tombstone of a missed delete is not        *)
(* unwrapped, so that onDelete returns early.                              *)
HandleEventDropsTombstone(u) ==
    /\ phase \notin {"list", "initial"} /\ pc["apps"] = "idle" /\ events[u] # <<>>
    /\ LET o == Head(events[u]) IN
         IF o \in Specs
         THEN TakeUp("apps", u, o, IF u \in known THEN "modified" ELSE "added", "toApp")
         ELSE UNCHANGED <<pc, item, obj, kind, consent, got>>
    /\ events' = [events EXCEPT ![u] = Tail(@)] /\ known' = known \cup {u}
    /\ UNCHANGED <<clusterVars, phase, initialUIDs, grantEvents, cacheVars, board, notice, historyVars,
                   todo>>

(* onAdd, onUpdate and onDelete start: an enabled app is added, a disabled *)
(* or deleted one removed; the Add of a disabled app is ignored.           *)
HandleEvent(u) ==
    /\ phase \notin {"list", "initial"} /\ pc["apps"] = "idle" /\ events[u] # <<>>
    /\ LET o == Head(events[u]) IN
         \/ /\ o \in Specs
            /\ TakeUp("apps", u, o, IF u \in known THEN "modified" ELSE "added", "toApp")
         \/ /\ o = Gone \/ (o = Off /\ u \in known)
            /\ TakeUp("apps", u, None, "modified", "lookup")
         \/ /\ o = Off /\ u \notin known
            /\ UNCHANGED <<pc, item, obj, kind, consent, got>>
    /\ events' = [events EXCEPT ![u] = Tail(@)] /\ known' = known \cup {u}
    /\ UNCHANGED <<clusterVars, phase, initialUIDs, grantEvents, cacheVars, board, notice, historyVars,
                   todo>>

(* toApp lists the ReferenceGrants of the target's namespace; without a    *)
(* list there is no consent.                                               *)
ToApp(w) ==
    /\ pc[w] = "toApp" /\ GoTo(w, "add")
    /\ \/ consent' = [consent EXCEPT ![w] = item[w] \in grants]
       \/ Failures /\ item[w] \in CrossNs /\ consent' = [consent EXCEPT ![w] = FALSE]
    /\ UNCHANGED <<clusterVars, phase, initialUIDs, informerVars, cacheVars, board, notice, historyVars,
                   got>>

(* ServiceCache.Add; syncInitial publishes nothing.                        *)
CacheAdd(w) ==
    /\ pc[w] = "add"
    /\ services' = [services EXCEPT ![item[w]] = obj[w]]
    /\ allowed' = IF consent[w] THEN allowed \cup {item[w]} ELSE allowed \ {item[w]}
    /\ IF kind[w] = "initial" THEN Return(w) ELSE GoTo(w, "get") /\ UNCHANGED <<consent, got>>
    /\ UNCHANGED <<clusterVars, phase, initialUIDs, informerVars, board, notice, historyVars>>

(* ServiceCache.Get before the event is published.                         *)
CacheGet(w) ==
    /\ pc[w] = "get" /\ GoTo(w, "publish")
    /\ got' = [got EXCEPT ![w] = services[item[w]]]
    /\ UNCHANGED <<clusterVars, phase, initialUIDs, informerVars, cacheVars, board, notice, historyVars,
                   consent>>

(* Publish "added" or "modified"; no card changes when the entry was gone. *)
(* A service that is new since startup is announced.                       *)
Publish(w) ==
    /\ pc[w] = "publish" /\ Return(w)
    /\ board' = IF got[w] = None THEN board ELSE [board EXCEPT ![item[w]] = got[w]]
    /\ notice' = IF kind[w] = "added" /\ item[w] \notin initialUIDs
                 THEN [notice EXCEPT ![item[w]] = "available"] ELSE notice
    /\ UNCHANGED <<clusterVars, phase, initialUIDs, informerVars, cacheVars, historyVars>>

(* onUpdate of a disabled app and onDelete: Get, Remove, then publish      *)
(* "deleted" and post the notification if the first call found an entry.   *)
Lookup(w) ==
    /\ pc[w] = "lookup" /\ GoTo(w, "remove")
    /\ got' = [got EXCEPT ![w] = services[item[w]]]
    /\ UNCHANGED <<clusterVars, phase, initialUIDs, informerVars, cacheVars, board, notice, historyVars,
                   consent>>

CacheRemove(w) ==
    /\ pc[w] = "remove" /\ GoTo(w, "bye")
    /\ services' = [services EXCEPT ![item[w]] = None] /\ allowed' = allowed \ {item[w]}
    /\ UNCHANGED <<clusterVars, phase, initialUIDs, informerVars, board, notice, historyVars,
                   consent, got>>

(* Mutation of SayGoodbye: only the event is sent.                         *)
SayGoodbyeSilently(w) ==
    /\ pc[w] = "bye" /\ Return(w)
    /\ board' = IF got[w] = None THEN board ELSE [board EXCEPT ![item[w]] = None]
    /\ UNCHANGED <<clusterVars, phase, initialUIDs, informerVars, cacheVars, notice, historyVars>>

SayGoodbye(w) ==
    /\ pc[w] = "bye" /\ Return(w)
    /\ IF got[w] = None THEN UNCHANGED <<board, notice>>
       ELSE /\ board' = [board EXCEPT ![item[w]] = None]
            /\ notice' = [notice EXCEPT ![item[w]] = "removed"]
    /\ UNCHANGED <<clusterVars, phase, initialUIDs, informerVars, cacheVars, historyVars>>

WorkerStep(w) ==
    \/ \E u \in Apps : NextItem(w, u)
    \/ ToApp(w) \/ CacheAdd(w) \/ CacheGet(w) \/ Publish(w)

Remover(w) == Lookup(w) \/ CacheRemove(w) \/ SayGoodbye(w)

AppsStep ==
    \/ SyncInitial \/ Watch
    \/ \E u \in Apps : HandleEvent(u)
    \/ WorkerStep("apps") \/ Remover("apps")

GrantsStep == WatchReferenceGrants \/ ResyncList \/ WorkerStep("grants")

ClusterStep == \E u \in Apps : ChangeGrant(u) \/ \E o \in Object \cup {Gone} : Change(u, o)

Next == ClusterStep \/ AppsStep \/ GrantsStep

Spec == Init /\ [][Next]_vars

(* The goroutines are scheduled and their calls return.                    *)
FairSpec == Spec /\ WF_vars(AppsStep) /\ WF_vars(GrantsStep)

-----------------------------------------------------------------------------
(* Properties.                                                             *)

(* All that happened to app u has been handled.                            *)
Settled(u) ==
    /\ phase \in {"watching", "appsOnly"} /\ events[u] = <<>>
    /\ \A w \in Workers : item[w] # u /\ todo[w][u] = None

(* What the catalog has to show of u.                                      *)
Due(u) == IF cluster[u] \in Specs THEN cluster[u] ELSE None

(* Whatever the order of list, watch and changes: once all events of an    *)
(* app are handled, its cache entry and its card are those of the app in   *)
(* the cluster, unless the app left between the two initial lists or a     *)
(* resync handles it too.                                                  *)
CatalogFollowsCluster ==
    \A u \in Apps \ (CrossNs \cup ghosts) :
        Settled(u) => services[u] = Due(u) /\ board[u] = Due(u)

(* No app is missing from the catalog while the last notification about it *)
(* says that it is available.                                              *)
NoticesFollowCatalog ==
    \A u \in Apps : Settled(u) /\ services[u] = None => notice[u] # "available"

(* The cache holds no consent that was withdrawn once every event is       *)
(* handled, unless a goroutine held its answer when the grant changed, the *)
(* grant changed before its informer listed, or a resync was refused its   *)
(* list.                                                                   *)
ConsentIsGranted ==
    (phase = "watching" /\ grantEvents = 0 /\ \A u \in Apps : Settled(u))
        => \A u \in allowed \ overtaken : cluster[u] \in Specs => u \in grants

(* A deleted app leaves the catalog.                                       *)
DeletedLeaves ==
    \A u \in Apps \ CrossNs : cluster[u] = Gone ~> (services[u] = None \/ u \in ghosts)

(* As docs/design/landing-page.md:358 says of DELETED events: the NebariApp *)
(* is removed from the cache.                                              *)
RemovedLeavesCache ==
    \A u \in Apps : Settled(u) /\ cluster[u] = Gone => services[u] = None
-----------------------------------------------------------------------------
(* The inductive invariant behind the safety properties.                   *)

Starting == phase \in {"list", "initial"}

(* Which goroutine is where, in which phase, on which apps.                *)
WorkersInOrder ==
    /\ \A w \in Workers : /\ pc[w] = "idle" <=> item[w] = NoApp
                          /\ pc[w] = "idle" => kind[w] = "modified"
                          /\ pc[w] \in {"toApp", "add"} => obj[w] \in Specs
    /\ pc["grants"] \notin {"lookup", "remove", "bye"} /\ kind["grants"] = "modified"
    /\ item["grants"] \in CrossNs \cup {NoApp}
    /\ \A u \in Apps : todo["grants"][u] # None => u \in CrossNs /\ phase = "watching"
    /\ grantEvents > 0 \/ pc["grants"] # "idle" => phase = "watching"
    /\ Starting => /\ pc["apps"] \in {"idle", "toApp", "add"} /\ known = {}
                   /\ pc["apps"] # "idle" => kind["apps"] = "initial"
                   /\ \A u \in Apps : events[u] = <<>> /\ board[u] = None /\ notice[u] = "none"
    /\ ~Starting => /\ kind["apps"] # "initial"
                    /\ \A u \in Apps : todo["apps"][u] = None

(* The last event waiting for an app tells its present state.              *)
EventsEndAtCluster ==
    \A u \in Apps : events[u] # <<>> => events[u][Len(events[u])] = cluster[u]

(* How cache and page stand while the NebariApp handler is at app u.       *)
HandlerFollowsEvent(u) ==
    LET w == "apps" IN
    IF item[w] # u THEN services[u] = None => board[u] = None
    ELSE /\ u \in known
         /\ pc[w] \in {"toApp", "add", "lookup", "remove"} =>
                (services[u] = None => board[u] = None)
         /\ pc[w] = "get" => services[u] = obj[w] /\ obj[w] \in Specs
         /\ pc[w] = "publish" => services[u] = obj[w] /\ got[w] = obj[w] /\ obj[w] \in Specs
         /\ pc[w] = "remove" => got[w] = services[u]
         /\ pc[w] = "bye" => services[u] = None /\ (got[w] = None => board[u] = None)

(* What is there once the events of u are used up, or will be once the     *)
(* last is handled; and before the first, which may be ignored.            *)
CatalogApproachesCluster(u) ==
    LET w == "apps" IN
    /\ events[u] = <<>> =>
          /\ item[w] # u => services[u] = Due(u) /\ board[u] = Due(u)
          /\ item[w] = u => IF pc[w] \in {"lookup", "remove", "bye"}
                            THEN cluster[u] \notin Specs ELSE obj[w] = cluster[u]
    /\ u \notin known =>
          /\ events[u] = <<>> => cluster[u] \notin Specs
          /\ events[u] # <<>> /\ Head(events[u]) = Off => services[u] = None

CatalogInv ==
    ~Starting => \A u \in Apps \ (CrossNs \cup ghosts) :
                     HandlerFollowsEvent(u) /\ CatalogApproachesCluster(u)

(* Between an announcement and its withdrawal the service is there.        *)
NoticeInv ==
    \A u \in Apps :
        /\ item["apps"] = u /\ pc["apps"] \in {"get", "publish"} => services[u] # None
        /\ notice[u] = "available" =>
              /\ services[u] # None \/ (item["apps"] = u /\ pc["apps"] = "bye")
              /\ item["apps"] = u /\ pc["apps"] \in {"remove", "bye"} => got["apps"] # None

(* Somebody who will look at the grants of u again.                        *)
WillRefresh(u) ==
    \/ Starting \/ phase = "appsOnly"
    \/ events[u] # <<>> \/ grantEvents > 0 \/ todo["grants"][u] # None
    \/ \E w \in Workers :
          item[w] = u /\ (pc[w] = "toApp" \/ (pc[w] = "add" /\ ~consent[w]))

ConsentInv ==
    /\ \A w \in Workers : pc[w] = "add" /\ consent[w] => item[w] \in grants \cup overtaken
    /\ \A u \in allowed \ overtaken :
          u \in grants \/ cluster[u] \notin Specs \/ WillRefresh(u)

IInv ==
    /\ TypeOK /\ WorkersInOrder /\ EventsEndAtCluster
    /\ CatalogInv /\ NoticeInv /\ ConsentInv
=============================================================================
