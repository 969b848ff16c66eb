------------------------------- MODULE LiveView -------------------------------
(***************************************************************************)
(* What one browser page shows: the services handlers and the pin store    *)
(* (internal/api/handlers.go, internal/pins/store.go), the events of the   *)
(* watcher and the health checker on their way through the hub, and the    *)
(* page's card list (frontend useLaunchpadData.ts, ws.ts).                 *)
(*                                                                         *)
(* The page logs in before it renders, fetches the list once and holds one *)
(* socket, which it opens again when it breaks.  A service's content is    *)
(* one value, of which Visibility and Required are parts; tickets and      *)
(* sessions are WsSession's subject.                                       *)
(*                                                                         *)
(* Several goroutines change the cache and publish: the informer's, which  *)
(* runs the NebariApp handlers one at a time, the one that answers changes *)
(* of ReferenceGrants, and the health checker's.  None holds a lock from   *)
(* its change to its reading, or from there to the publication; and Redis  *)
(* pub/sub may lose a publication or, after a lost reply, carry it twice.  *)
(***************************************************************************)
EXTENDS AccessPolicy, Naturals, Sequences

CONSTANTS
    Services,    \* UIDs
    Contents,    \* what an entry of the service cache may be
    Gone,        \* no entry, no card
    Visibility,  \* visibility of a content
    Required,    \* its required groups
    Me,          \* the caller the page is logged in as
    Handler,     \* the goroutine of the NebariApp handlers,
    Resync,      \* the one of resyncCrossNamespaceApps
    Loops,       \* and those of the health checker
    Silent,      \* one of them that has nothing to publish
    MaxClicks,   \* bounds the clicks on pins,
    MaxChanges,  \* what the goroutines do to the cache
    MaxFaults    \* and the failures of the socket and of Redis pub/sub

ASSUME PageAssumption ==
    /\ Me \in Callers /\ Gone \notin Contents
    /\ Handler # Resync /\ Handler \notin Loops /\ Resync \notin Loops
    /\ MaxClicks \in Nat /\ MaxChanges \in Nat /\ MaxFaults \in Nat

VARIABLES
    ready,     \* the validator has keys
    catalog,   \* the service cache
    changes, faults,
    said,      \* what each goroutine is about to do and publish
    untold,    \* history: services whose entry was changed and not published since
    bus,       \* events published and not yet dispatched
    sock,      \* the page's socket is open
    wire,      \* frames written to it
    pins,      \* the sets nebari:pins:{user}
    cards,     \* the page's list: content of each card
    flags,     \* the cards with "pinned" set
    fetch,     \* how far GET /services is
    snapPins, snapshot,  \* what it has read
    blind,     \* history: the pins could not be read for it
    click,     \* how far each toggle is
    on,        \* the service it is on
    pinning,   \* toggles that pin; the others unpin
    unseen,    \* history: services whose last event did not reach the list
    since,     \* history: those whose event was used up since snapshot was read
    unsure     \* history: services whose pin is disputed

clusterVars == <<catalog, changes, said, untold>>
socketVars  == <<sock, wire, faults>>
fetchVars   == <<fetch, snapPins, snapshot, blind>>
clickVars   == <<click, on, pinning>>
vars == <<ready, clusterVars, bus, socketVars, pins, cards, flags, fetchVars,
          clickVars, unseen, since, unsure>>

Toggles == 1 .. MaxClicks

Goroutines == {Handler, Resync} \cup Loops

Types == {"added", "modified", "deleted"}

Events == [type : Types, svc : Services, content : Contents]

(* A goroutine has yet to read the entry, to remove the one it has read,   *)
(* or to publish the one it has read.                                      *)
Sayings ==
    [step : {"get", "remove"}, type : Types, svc : Services, content : Contents \cup {Gone}]
    \cup [step : {"publish"}, type : Types, svc : Services, content : Contents]

ASSUME SilentAssumption == Silent \notin Sayings

TypeOK ==
    /\ ready \in BOOLEAN /\ sock \in BOOLEAN /\ blind \in BOOLEAN
    /\ catalog \in [Services -> Contents \cup {Gone}]
    /\ said \in [Goroutines -> Sayings \cup {Silent}]
    /\ cards \in [Services -> Contents \cup {Gone}]
    /\ snapshot \in [Services -> Contents \cup {Gone}]
    /\ changes \in 0 .. MaxChanges /\ faults \in 0 .. MaxFaults
    /\ bus \in Seq(Events) /\ wire \in Seq(Events)
    /\ pins \in [Users -> SUBSET Services]
    /\ fetch \in {"sent", "pins", "answered", "applied", "failed"}
    /\ click \in [Toggles -> {"new", "sent", "stored", "over"}]
    /\ on \in [Toggles -> Services]
    /\ pinning \subseteq Toggles
    /\ snapPins \subseteq Services /\ flags \subseteq Services
    /\ untold \subseteq Services /\ unseen \subseteq Services
    /\ since \subseteq Services /\ unsure \subseteq Services

Nowhere == [s \in Services |-> Gone]

(* The page has just rendered: the request is on its way.                  *)
Init ==
    /\ ready \in BOOLEAN
    /\ catalog \in [Services -> Contents \cup {Gone}]
    /\ said = [g \in Goroutines |-> Silent] /\ untold = {}
    /\ changes = 0 /\ faults = 0
    /\ bus = <<>> /\ sock = FALSE /\ wire = <<>>
    /\ \E P \in SUBSET Services : pins = [u \in Users |-> IF u = RequireAuth(Me, TRUE) THEN P ELSE {}]
    /\ cards = Nowhere /\ flags = {}
    /\ fetch = "sent" /\ snapPins = {} /\ snapshot = Nowhere /\ blind = FALSE
    /\ click = [t \in Toggles |-> "new"] /\ on \in [Toggles -> Services]
    /\ pinning = {}
    /\ unseen = {} /\ since = {} /\ unsure = {}

-----------------------------------------------------------------------------
(* Access.                                                                 *)

(* canAccessService on a cache entry for the page's requests, and the      *)
(* hub's CanAccessService for its socket, whose Principal has the same     *)
(* claims.                                                                 *)
MaySee(x) == CanAccessService(Visibility[x], Required[x], Me, ready)

(* Mutation of MaySeePinned: every pin is resolved.                        *)
MaySeeAnyPinned(x) == TRUE

(* The filter of handleGetPins: the caller counts as authenticated, also   *)
(* when authentication is off.                                             *)
MaySeePinned(x) == CanAccessPolicy(Visibility[x], TRUE, Required[x], GroupsOf(Me, ready))

(* callerPinnedUIDs.                                                       *)
CallerPinnedUIDs ==
    IF Authenticated(Me, ready) /\ UserOf(Me) # NoUser THEN pins[UserOf(Me)] ELSE {}

ValidatorReady ==
    /\ ~ready /\ ready' = TRUE
    /\ UNCHANGED <<clusterVars, bus, socketVars, pins, cards, flags, fetchVars,
                   clickVars, unseen, since, unsure>>

-----------------------------------------------------------------------------
(* Publishers.  Each goes from a change of the cache to a reading of it to *)
(* the publication, and what others do in between shows.                   *)

(* A service's last event did not reach the list, or not the present one.  *)
UsedUp(S) == IF fetch = "answered" THEN since \cup S ELSE {}
Missed(S) == unseen' = unseen \cup S /\ since' = UsedUp(S)

Say(g, step, type, s, x) ==
    said' = [said EXCEPT ![g] = [step |-> step, type |-> type, svc |-> s, content |-> x]]

FallSilent(g) == said' = [said EXCEPT ![g] = Silent]

(* Entry s becomes x, which is news if it was not.                         *)
Store(s, x) ==
    /\ catalog' = [catalog EXCEPT ![s] = x]
    /\ untold' = IF x = catalog[s] THEN untold ELSE untold \cup {s}

pageVars == <<ready, socketVars, pins, cards, flags, fetchVars, clickVars, unsure>>

(* onAdd, and onUpdate of an app that is enabled: cache.Add ...            *)
WatcherAdd(s, x) ==
    /\ changes < MaxChanges /\ changes' = changes + 1
    /\ said[Handler] = Silent
    /\ Store(s, x) /\ Say(Handler, "get", "modified", s, Gone)
    /\ UNCHANGED <<bus, pageVars, unseen, since>>

(* onDelete, and onUpdate of an app that is not: cache.Get ...             *)
WatcherLook(s) ==
    /\ changes < MaxChanges /\ changes' = changes + 1
    /\ said[Handler] = Silent
    /\ Say(Handler, "remove", "deleted", s, catalog[s])
    /\ UNCHANGED <<catalog, untold, bus, pageVars, unseen, since>>

(* ... and cache.Remove.  Nothing is published if the entry was not found  *)
(* before, though resyncCrossNamespaceApps may have put one there since.   *)
WatcherRemove ==
    /\ said[Handler] # Silent /\ said[Handler].step = "remove"
    /\ LET s == said[Handler].svc
           x == said[Handler].content IN
       \/ /\ x # Gone
          /\ Store(s, Gone) /\ Say(Handler, "publish", "deleted", s, x)
          /\ UNCHANGED <<unseen, since>>
       \/ /\ x = Gone
          /\ catalog' = [catalog EXCEPT ![s] = Gone]
          /\ FallSilent(Handler)
          /\ IF catalog[s] = Gone THEN UNCHANGED <<untold, unseen, since>>
             ELSE untold' = untold \ {s} /\ Missed({s})
    /\ UNCHANGED <<changes, bus, pageVars>>

(* resyncCrossNamespaceApps: cache.Add of an app on its list, which may    *)
(* have been removed ...                                                   *)
ResyncAdd(s, x) ==
    /\ changes < MaxChanges /\ changes' = changes + 1
    /\ said[Resync] = Silent
    /\ Store(s, x) /\ Say(Resync, "get", "modified", s, Gone)
    /\ UNCHANGED <<bus, pageVars, unseen, since>>

(* UpdateHealthIfCurrent and UpdateHealth: the entry has another health    *)
(* and is as visible as before ...                                         *)
Beat(l, s, x) ==
    /\ changes < MaxChanges /\ changes' = changes + 1
    /\ said[l] = Silent
    /\ catalog[s] # Gone
    /\ Visibility[x] = Visibility[catalog[s]] /\ Required[x] = Required[catalog[s]]
    /\ Store(s, x) /\ Say(l, "get", "modified", s, Gone)
    /\ UNCHANGED <<bus, pageVars, unseen, since>>

(* ... cache.Get before the publication, of an entry that may be gone      *)
(* unless only the reader removes entries ...                              *)
Read(g) ==
    /\ said[g] # Silent /\ said[g].step = "get"
    /\ LET s == said[g].svc IN
       IF catalog[s] = Gone THEN FallSilent(g)
       ELSE \/ Say(g, "publish", "modified", s, catalog[s])
            \/ g = Handler /\ Say(g, "publish", "added", s, catalog[s])
    /\ UNCHANGED <<catalog, changes, untold, bus, pageVars, unseen, since>>

(* What event e tells of the cache.                                        *)
Tells(e) == IF e.type = "deleted" THEN Gone ELSE e.content

(* ... Publish: PUBLISH is carried out; it fails and the event is dropped; *)
(* or only its reply is lost and it is sent again.                         *)
Publish(g) ==
    /\ said[g] # Silent /\ said[g].step = "publish"
    /\ LET s == said[g].svc
           e == [type |-> said[g].type, svc |-> s, content |-> said[g].content]
           present == Tells(e) = catalog[s] IN
       \/ /\ bus' = Append(bus, e) /\ FallSilent(g)
          /\ untold' = IF present THEN untold \ {s} ELSE untold
          /\ UNCHANGED <<faults, unseen, since>>
       \/ /\ faults < MaxFaults /\ faults' = faults + 1
          /\ FallSilent(g)
          /\ IF present /\ s \in untold THEN untold' = untold \ {s} /\ Missed({s})
             ELSE UNCHANGED <<untold, unseen, since>>
          /\ UNCHANGED bus
       \/ /\ faults < MaxFaults /\ faults' = faults + 1
          /\ bus' = Append(bus, e)
          /\ untold' = IF present THEN untold \ {s} ELSE untold
          /\ UNCHANGED <<said, unseen, since>>
    /\ UNCHANGED <<ready, catalog, changes, sock, wire, pins, cards, flags, fetchVars,
                   clickVars, unsure>>

Speak(g) == Read(g) \/ Publish(g) \/ (g = Handler /\ WatcherRemove)

-----------------------------------------------------------------------------
(* Hub and socket.                                                         *)

(* Services with frames on the wire.                                       *)
OnWire == {wire[i].svc : i \in DOMAIN wire}

(* dispatch and broadcastService: the next event is written to the socket  *)
(* if there is one and its principal may see the service.                  *)
Dispatch ==
    /\ bus # <<>> /\ bus' = Tail(bus)
    /\ LET e == Head(bus) IN
       \/ /\ sock /\ MaySee(e.content)
          /\ wire' = Append(wire, e)
          /\ unseen' = IF Tells(e) = catalog[e.svc] THEN unseen \ {e.svc}
                       ELSE unseen \cup {e.svc}
          /\ UNCHANGED since
       \/ /\ ~(sock /\ MaySee(e.content))
          /\ Missed({e.svc})
          /\ UNCHANGED wire
    /\ UNCHANGED <<ready, clusterVars, sock, faults, pins, cards, flags, fetchVars,
                   clickVars, unsure>>

(* What is published while the subscription reconnects never comes to      *)
(* dispatch.                                                               *)
LoseEvent ==
    /\ bus # <<>> /\ bus' = Tail(bus)
    /\ faults < MaxFaults /\ faults' = faults + 1
    /\ Missed({Head(bus).svc})
    /\ UNCHANGED <<ready, clusterVars, sock, wire, pins, cards, flags, fetchVars,
                   clickVars, unsure>>

(* connect: the first time and after each break.  The list is not fetched  *)
(* again.                                                                  *)
Connect ==
    /\ ~sock /\ sock' = TRUE
    /\ AuthEnabled => Authenticated(Me, ready)
    /\ UNCHANGED <<ready, clusterVars, bus, wire, faults, pins, cards, flags, fetchVars,
                   clickVars, unseen, since, unsure>>

(* The session ends or the connection breaks, with frames on it.           *)
Break ==
    /\ sock /\ faults < MaxFaults /\ faults' = faults + 1
    /\ sock' = FALSE /\ wire' = <<>>
    /\ Missed(OnWire)
    /\ UNCHANGED <<ready, clusterVars, bus, pins, cards, flags, fetchVars,
                   clickVars, unsure>>

(* Mutation of Upsert: "modified" only changes a card that is there.       *)
UpsertKnown(e) ==
    IF e.type = "deleted" \/ (e.type = "modified" /\ cards[e.svc] = Gone)
    THEN Gone ELSE e.content

(* onMessage: the card after event e.                                      *)
Upsert(e) == IF e.type = "deleted" THEN Gone ELSE e.content

(* A new card is not pinned, an old one keeps its flag.                    *)
OnMessage ==
    /\ wire # <<>> /\ wire' = Tail(wire)
    /\ LET e == Head(wire) IN
       /\ cards' = [cards EXCEPT ![e.svc] = Upsert(e)]
       /\ flags' = IF cards[e.svc] = Gone \/ e.type = "deleted" THEN flags \ {e.svc} ELSE flags
       /\ since' = UsedUp({e.svc})
       /\ unsure' = IF cards[e.svc] = Gone THEN unsure \cup {e.svc} ELSE unsure
    /\ UNCHANGED <<ready, clusterVars, bus, sock, faults, pins, fetchVars, clickVars, unseen>>

-----------------------------------------------------------------------------
(* GET /services.                                                          *)

(* handleGetServices: 503 while the validator has no keys; nothing is      *)
(* tried again.                                                            *)
FetchRefused ==
    /\ fetch = "sent" /\ ExtractAndValidateJWT(Me, ready) = "not ready"
    /\ fetch' = "failed"
    /\ UNCHANGED <<ready, clusterVars, bus, socketVars, pins, cards, flags, snapPins, snapshot,
                   blind, clickVars, unseen, since, unsure>>

(* callerPinnedUIDs.                                                       *)
FetchPins ==
    /\ fetch = "sent" /\ ExtractAndValidateJWT(Me, ready) # "not ready"
    /\ fetch' = "pins" /\ snapPins' = CallerPinnedUIDs
    /\ UNCHANGED <<ready, clusterVars, bus, socketVars, pins, cards, flags, snapshot,
                   blind, clickVars, unseen, since, unsure>>

(* It answers no pins at all when Redis fails.                             *)
FetchNoPins ==
    /\ fetch = "sent" /\ Authenticated(Me, ready)
    /\ fetch' = "pins" /\ blind' = TRUE
    /\ UNCHANGED <<ready, clusterVars, bus, socketVars, pins, cards, flags, snapPins, snapshot,
                   clickVars, unseen, since, unsure>>

(* Mutation of FetchCatalog: the list is not filtered.                     *)
FetchWholeCatalog ==
    /\ fetch = "pins" /\ fetch' = "answered"
    /\ snapshot' = catalog
    /\ since' = {}
    /\ UNCHANGED <<ready, clusterVars, bus, socketVars, pins, cards, flags, snapPins, blind,
                   clickVars, unseen, unsure>>

(* GetAll, filtered.                                                       *)
FetchCatalog ==
    /\ fetch = "pins" /\ fetch' = "answered"
    /\ snapshot' = [s \in Services |->
           IF catalog[s] # Gone /\ MaySee(catalog[s]) THEN catalog[s] ELSE Gone]
    /\ since' = {}
    /\ UNCHANGED <<ready, clusterVars, bus, socketVars, pins, cards, flags, snapPins, blind,
                   clickVars, unseen, unsure>>

Pending(s) == \E t \in Toggles : on[t] = s /\ click[t] \in {"sent", "stored"}

(* Mutation of FetchApply: an answer that events have overtaken is thrown  *)
(* away.                                                                   *)
FetchApplyIfLatest ==
    /\ fetch = "answered" /\ since = {} /\ fetch' = "applied"
    /\ cards' = snapshot
    /\ flags' = {s \in snapPins : snapshot[s] # Gone}
    /\ unseen' = (since \ OnWire) \cup (unseen \cap OnWire)
    /\ unsure' = {s \in Services : blind \/ \E t \in Toggles : on[t] = s /\ click[t] # "new"}
    /\ snapshot' = Nowhere /\ snapPins' = {} /\ since' = {} /\ blind' = FALSE
    /\ UNCHANGED <<ready, clusterVars, bus, socketVars, pins, clickVars>>

(* setServices: the answer replaces the list.                              *)
FetchApply ==
    /\ fetch = "answered" /\ fetch' = "applied"
    /\ cards' = snapshot
    /\ flags' = {s \in snapPins : snapshot[s] # Gone}
    /\ unseen' = (since \ OnWire) \cup (unseen \cap OnWire)
    /\ unsure' = {s \in Services : blind \/ \E t \in Toggles : on[t] = s /\ click[t] # "new"}
    /\ snapshot' = Nowhere /\ snapPins' = {} /\ since' = {} /\ blind' = FALSE
    /\ UNCHANGED <<ready, clusterVars, bus, socketVars, pins, clickVars>>

-----------------------------------------------------------------------------
(* onTogglePin and handlePinByUID.                                         *)

(* The optimistic flip, and the request.                                   *)
Click(t) ==
    /\ click[t] = "new" /\ \A u \in Toggles : u < t => click[u] # "new"
    /\ cards[on[t]] # Gone
    /\ LET s == on[t] IN
       /\ pinning' = IF s \in flags THEN pinning ELSE pinning \cup {t}
       /\ flags' = IF s \in flags THEN flags \ {s} ELSE flags \cup {s}
       /\ unsure' = IF Pending(s) THEN unsure \cup {s} ELSE unsure
    /\ click' = [click EXCEPT ![t] = "sent"]
    /\ UNCHANGED <<ready, clusterVars, bus, socketVars, pins, cards, fetchVars, on, unseen, since>>

(* SADD or SREM, under the name requireAuth gives.                         *)
PinByUID(t) ==
    /\ click[t] = "sent" /\ RequireAuth(Me, ready) # NoUser
    /\ click' = [click EXCEPT ![t] = "stored"]
    /\ pins' = [pins EXCEPT ![RequireAuth(Me, ready)] =
           IF t \in pinning THEN @ \cup {on[t]} ELSE @ \ {on[t]}]
    /\ UNCHANGED <<ready, clusterVars, bus, socketVars, cards, flags, fetchVars, on, pinning, unseen, since, unsure>>

(* 204.                                                                    *)
ClickOk(t) ==
    /\ click[t] = "stored" /\ click' = [click EXCEPT ![t] = "over"]
    /\ pinning' = pinning \ {t}
    /\ UNCHANGED <<ready, clusterVars, bus, socketVars, pins, cards, flags, fetchVars, on,
                   unseen, since, unsure>>

(* Mutation of ClickFails: no rollback.                                    *)
ClickFailsAnyhow(t) ==
    /\ click[t] \in {"sent", "stored"} /\ click' = [click EXCEPT ![t] = "over"]
    /\ unsure' = IF click[t] = "stored" THEN unsure \cup {on[t]} ELSE unsure
    /\ pinning' = pinning \ {t}
    /\ UNCHANGED <<ready, clusterVars, bus, socketVars, pins, cards, flags, fetchVars, on,
                   unseen, since>>

(* An error, before or after the command was carried out: the card gets    *)
(* the flag it had when it was clicked.                                    *)
ClickFails(t) ==
    /\ click[t] \in {"sent", "stored"} /\ click' = [click EXCEPT ![t] = "over"]
    /\ LET s == on[t] IN
       /\ flags' = IF cards[s] = Gone THEN flags
                   ELSE IF t \in pinning THEN flags \ {s} ELSE flags \cup {s}
       /\ unsure' = IF click[t] = "stored" THEN unsure \cup {s} ELSE unsure
    /\ pinning' = pinning \ {t}
    /\ UNCHANGED <<ready, clusterVars, bus, socketVars, pins, cards, fetchVars, on,
                   unseen, since>>

-----------------------------------------------------------------------------
(* Handlers that change nothing: what they would answer now.               *)

(* handleGetServiceByUID: 404, 503, 403 or the service.                    *)
GetServiceByUID(s) == IF catalog[s] # Gone /\ MaySee(catalog[s]) THEN {catalog[s]} ELSE {}

(* handleGetPins: the pins were read before, each is looked up now.        *)
GetPins(uids) ==
    IF RequireAuth(Me, ready) = NoUser THEN {}
    ELSE {catalog[s] : s \in {u \in uids : catalog[u] # Gone /\ MaySeePinned(catalog[u])}}

-----------------------------------------------------------------------------
Publishers == \E g \in Goroutines : Speak(g)

Server == FetchRefused \/ FetchPins \/ FetchNoPins \/ FetchCatalog \/ Dispatch
Page   == FetchApply \/ Connect \/ OnMessage

Toggle(t) == Click(t) \/ PinByUID(t) \/ ClickOk(t) \/ ClickFails(t)

Next ==
    \/ ValidatorReady \/ Server \/ Page \/ Break \/ LoseEvent
    \/ \E s \in Services, x \in Contents :
           WatcherAdd(s, x) \/ ResyncAdd(s, x) \/ \E l \in Loops : Beat(l, s, x)
    \/ \E s \in Services : WatcherLook(s)
    \/ Publishers
    \/ \E t \in Toggles : Toggle(t)

Spec == Init /\ [][Next]_vars

(* Handlers, goroutines and the page's callbacks run on, the socket is     *)
(* opened again three seconds after it broke, and the validator retries    *)
(* its fetch.                                                              *)
FairSpec ==
    /\ Spec /\ WF_vars(ValidatorReady) /\ WF_vars(Server) /\ WF_vars(Page)
    /\ WF_vars(Publishers)

-----------------------------------------------------------------------------
(* Properties.                                                             *)

(* May the page's user know of content x?  By the names of the groups.     *)
Entitled(x) ==
    \/ Visibility[x] = "public"
    \/ /\ AuthEnabled /\ Header[Me] = "valid"
       /\ Required[x] # {} => \E g \in ClaimGroups[Me] : g.name \in {r.name : r \in Required[x]}

(* What the page should show of service s.                                 *)
View(s) == IF catalog[s] # Gone /\ Entitled(catalog[s]) THEN catalog[s] ELSE Gone

(* The page shows nothing its user may not see, whichever of the list and  *)
(* the events came first.                                                  *)
CardsAreEntitled == \A s \in Services : cards[s] # Gone => Entitled(cards[s])

(* Nothing else is under way to the page.                                  *)
TransitIsEntitled ==
    /\ \A s \in Services : snapshot[s] # Gone => Entitled(snapshot[s])
    /\ \A i \in DOMAIN wire : Entitled(wire[i].content)

(* Once all that goroutines had to publish has arrived, every card is as   *)
(* the catalog has it, but for services whose last event                   *)
(*   - was lost with the socket, by a failed PUBLISH or while the          *)
(*     subscription was down (hub.go:181, 377),                            *)
(*   - was filtered out (hub.go:290), or written before the list came,     *)
(*     which was older and replaced it,                                    *)
(*   - was overtaken by an older one, which another goroutine published    *)
(*     late, or was none, because the handler found no entry to remove.    *)
CardsAreCurrent ==
    /\ fetch = "applied" /\ bus = <<>> /\ wire = <<>>
    /\ \A g \in Goroutines : said[g] = Silent
    => \A s \in Services \ unseen : cards[s] = View(s)

(* The page's user has an ID for the pin store; it does not, or another    *)
(* one, when authentication is off.                                        *)
LoggedIn == AuthEnabled /\ RequireAuth(Me, TRUE) # NoUser

(* What is stored of the page's pins.                                      *)
Pinned == pins[RequireAuth(Me, TRUE)]

(* A card's pin is as stored, unless clicks overlapped, an answer was      *)
(* lost, the pins could not be read or the card came with an event.        *)
PinFlagIsStored ==
    fetch = "applied" /\ LoggedIn =>
        \A s \in Services \ unsure : cards[s] # Gone /\ ~Pending(s) =>
            (s \in flags <=> s \in Pinned)

(* With authentication on, whatever was pinned and however the service     *)
(* changed since, GET /pins reveals no service that GET /services hides    *)
(* (handlers.go:1394); nor does GET /services/{id}.                        *)
PinsRevealNothing ==
    AuthEnabled =>
        /\ \A uids \in SUBSET Services : \A x \in GetPins(uids) : Entitled(x)
        /\ \A s \in Services : \A x \in GetServiceByUID(s) : Entitled(x)

(* The page comes to show the catalog, again and again, up to the same     *)
(* exceptions, unless its one fetch was refused.                           *)
PageCatchesUp ==
    []<>(fetch # "failed" =>
            fetch = "applied" /\ \A s \in Services \ unseen : cards[s] = View(s))
=============================================================================
