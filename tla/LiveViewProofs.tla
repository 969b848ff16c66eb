---------------------------- MODULE LiveViewProofs ---------------------------
(***************************************************************************)
(* Proofs about LiveView, for any services, contents, policies, callers    *)
(* and bounds.                                                             *)
(***************************************************************************)
EXTENDS LiveView, TLAPS

-----------------------------------------------------------------------------
(* Type correctness, action by action.                                     *)

LEMMA TypeInit == ASSUME Init PROVE TypeOK
  <1>1. changes \in 0 .. MaxChanges /\ faults \in 0 .. MaxFaults
    BY PageAssumption DEF Init
  <1>2. bus \in Seq(Events) /\ wire \in Seq(Events)
    BY DEF Init
  <1>3. pins \in [Users -> SUBSET Services]
    BY DEF Init
  <1>4. click \in [Toggles -> {"new", "sent", "stored", "over"}]
    BY DEF Init
  <1> QED BY <1>1, <1>2, <1>3, <1>4 DEF Init, TypeOK, Nowhere

(* A step of a goroutine that publishes, or of Redis; none is the page's.  *)
Away ==
    \/ \E s \in Services, x \in Contents :
           WatcherAdd(s, x) \/ ResyncAdd(s, x) \/ \E l \in Loops : Beat(l, s, x)
    \/ \E s \in Services : WatcherLook(s)
    \/ Publishers \/ LoseEvent

LEMMA AwayFromPage ==
    ASSUME Away
    PROVE  UNCHANGED <<ready, sock, wire, pins, cards, flags, fetch, snapPins, snapshot, blind,
                       click, on, pinning, unsure>>
  BY DEF Away, WatcherAdd, ResyncAdd, Beat, WatcherLook, Publishers, Speak, Read, Publish,
     WatcherRemove, LoseEvent, pageVars, socketVars, fetchVars, clickVars

LEMMA SayType ==
    ASSUME TypeOK, NEW g \in Goroutines, NEW w \in Sayings \cup {Silent},
           said' = [said EXCEPT ![g] = w]
    PROVE  said' \in [Goroutines -> Sayings \cup {Silent}]
  BY DEF TypeOK

(* What a goroutine is about to do.                                        *)
LEMMA SayingType ==
    ASSUME TypeOK, NEW g \in Goroutines, said[g] # Silent
    PROVE  /\ said[g].svc \in Services /\ said[g].content \in Contents \cup {Gone}
           /\ said[g].step \in {"get", "remove", "publish"}
           /\ said[g].step = "publish" =>
                  [type |-> said[g].type, svc |-> said[g].svc, content |-> said[g].content] \in Events
  <1>1. said[g] \in Sayings
    BY DEF TypeOK
  <1> QED BY <1>1 DEF Sayings, Events, Types

LEMMA AppendType ==
    ASSUME NEW S, NEW q \in Seq(S), NEW e \in S PROVE Append(q, e) \in Seq(S)
  OBVIOUS

(* The parts of the state such a step changes.                             *)
LEMMA TypeAway ==
    ASSUME TypeOK, Away,
           /\ said' \in [Goroutines -> Sayings \cup {Silent}]
           /\ catalog' \in [Services -> Contents \cup {Gone}]
           /\ changes' \in 0 .. MaxChanges /\ faults' \in 0 .. MaxFaults
           /\ bus' \in Seq(Events)
           /\ untold' \subseteq Services /\ unseen' \subseteq Services
           /\ since' \subseteq Services
    PROVE  TypeOK'
  BY AwayFromPage DEF TypeOK

LEMMA TypeChange ==
    ASSUME TypeOK, NEW s \in Services, NEW x \in Contents, NEW g \in Goroutines,
           changes < MaxChanges /\ changes' = changes + 1,
           Store(s, x), Say(g, "get", "modified", s, Gone),
           UNCHANGED <<bus, faults, unseen, since>>, Away
    PROVE  TypeOK'
  <1> DEFINE v == [step |-> "get", type |-> "modified", svc |-> s, content |-> Gone]
  <1>1. v \in Sayings
    BY DEF Sayings, Types
  <1>2. said' = [said EXCEPT ![g] = v]
    BY Zenon DEF Say
  <1> HIDE DEF v
  <1>3. said' \in [Goroutines -> Sayings \cup {Silent}]
    BY <1>1, <1>2, SayType
  <1>4. catalog' \in [Services -> Contents \cup {Gone}] /\ untold' \subseteq Services
    BY DEF Store, TypeOK
  <1>5. changes' \in 0 .. MaxChanges
    BY PageAssumption DEF TypeOK
  <1> QED BY <1>3, <1>4, <1>5, TypeAway DEF TypeOK

LEMMA TypeSpeak ==
    ASSUME TypeOK, NEW g \in Goroutines, Speak(g) PROVE TypeOK'
  <1> DEFINE s == said[g].svc
  <1>1. Away
    BY DEF Away, Publishers
  <1>2. /\ s \in Services
        /\ said[g] # Silent
        /\ said[g].content \in Contents \cup {Gone}
    <2>1. said[g] # Silent
      BY DEF Speak, Read, Publish, WatcherRemove
    <2> QED BY <2>1, SayingType
  <1> HIDE DEF s
  <1>3. CASE Read(g)
    <2>1. \E w \in Sayings \cup {Silent} : said' = [said EXCEPT ![g] = w]
      <3>1. CASE catalog[s] = Gone
        BY <1>3, <3>1 DEF Read, FallSilent, s
      <3>2. ASSUME catalog[s] # Gone, NEW type \in {"added", "modified"},
                   Say(g, "publish", type, s, catalog[s])
            PROVE  \E w \in Sayings \cup {Silent} : said' = [said EXCEPT ![g] = w]
        <4> DEFINE w == [step |-> "publish", type |-> type, svc |-> s, content |-> catalog[s]]
        <4>1. w \in Sayings
          BY <1>2, <3>2 DEF Sayings, Types, TypeOK
        <4>2. said' = [said EXCEPT ![g] = w]
          BY <3>2, Zenon DEF Say
        <4> QED BY <4>1, <4>2
      <3> QED BY <1>3, <3>1, <3>2 DEF Read, s
    <2>2. said' \in [Goroutines -> Sayings \cup {Silent}]
      BY <2>1, SayType
    <2>3. UNCHANGED <<catalog, changes, untold, bus, faults, unseen, since>>
      BY <1>3 DEF Read, pageVars, socketVars
    <2> QED BY <1>1, <2>2, <2>3, TypeAway DEF TypeOK
  <1>4. CASE Publish(g)
    <2> DEFINE e == [type |-> said[g].type, svc |-> said[g].svc, content |-> said[g].content]
    <2>1. e \in Events
      BY <1>4, SayingType DEF Publish
    <2>2. bus' = bus \/ bus' = Append(bus, e)
      BY <1>4, Zenon DEF Publish
    <2> HIDE DEF e
    <2>3. bus' \in Seq(Events)
      <3>1. bus \in Seq(Events)
        BY DEF TypeOK
      <3>2. Append(bus, e) \in Seq(Events)
        BY <2>1, <3>1, AppendType
      <3> QED BY <2>2, <3>1, <3>2
    <2>4. said' \in [Goroutines -> Sayings \cup {Silent}]
      BY <1>4, SayType DEF Publish, FallSilent, TypeOK
    <2>5. untold' \subseteq Services /\ unseen' \subseteq Services /\ since' \subseteq Services
      BY <1>2, <1>4 DEF Publish, Missed, UsedUp, TypeOK, s
    <2>6. catalog' = catalog /\ changes' = changes /\ faults' \in 0 .. MaxFaults
      BY <1>4, PageAssumption DEF Publish, TypeOK
    <2> QED BY <1>1, <2>3, <2>4, <2>5, <2>6, TypeAway DEF TypeOK
  <1>5. CASE g = Handler /\ WatcherRemove
    <2> DEFINE x == said[Handler].content
    <2>1. CASE x # Gone
      <3> DEFINE w == [step |-> "publish", type |-> "deleted", svc |-> s, content |-> x]
      <3>1. w \in Sayings
        BY <1>2, <1>5, <2>1 DEF Sayings, Types
      <3>2. said' = [said EXCEPT ![Handler] = w]
        BY <1>5, <2>1, Zenon DEF WatcherRemove, Say, s
      <3> HIDE DEF w
      <3>3. said' \in [Goroutines -> Sayings \cup {Silent}]
        BY <1>5, <3>1, <3>2, SayType
      <3>4. Store(s, Gone) /\ UNCHANGED <<changes, bus, faults, unseen, since>>
        BY <1>5, <2>1 DEF WatcherRemove, pageVars, socketVars, s
      <3>5. catalog' \in [Services -> Contents \cup {Gone}] /\ untold' \subseteq Services
        BY <1>2, <3>4 DEF Store, TypeOK
      <3> QED BY <1>1, <3>3, <3>4, <3>5, TypeAway DEF TypeOK
    <2>2. CASE x = Gone
      <3>1. said' \in [Goroutines -> Sayings \cup {Silent}]
        BY <1>5, <2>2, SayType DEF WatcherRemove, FallSilent
      <3>2. /\ catalog' = [catalog EXCEPT ![s] = Gone]
            /\ UNCHANGED <<changes, bus, faults>>
            /\ untold' \subseteq Services /\ unseen' \subseteq Services /\ since' \subseteq Services
        BY <1>2, <1>5, <2>2 DEF WatcherRemove, pageVars, socketVars, s, Missed, UsedUp, TypeOK
      <3>3. catalog' \in [Services -> Contents \cup {Gone}]
        BY <3>2 DEF TypeOK
      <3> QED BY <1>1, <3>1, <3>2, <3>3, TypeAway DEF TypeOK
    <2> QED BY <2>1, <2>2
  <1> QED BY <1>3, <1>4, <1>5 DEF Speak

LEMMA TypePublisher == ASSUME TypeOK, Away PROVE TypeOK'
  <1>1. ASSUME NEW s \in Services, NEW x \in Contents, WatcherAdd(s, x) PROVE TypeOK'
    BY <1>1, TypeChange DEF WatcherAdd, Away, Goroutines, pageVars, socketVars
  <1>2. ASSUME NEW s \in Services, NEW x \in Contents, ResyncAdd(s, x) PROVE TypeOK'
    BY <1>2, TypeChange DEF ResyncAdd, Away, Goroutines, pageVars, socketVars
  <1>3. ASSUME NEW l \in Loops, NEW s \in Services, NEW x \in Contents, Beat(l, s, x)
        PROVE  TypeOK'
    BY <1>3, TypeChange DEF Beat, Away, Goroutines, pageVars, socketVars
  <1>4. ASSUME NEW s \in Services, WatcherLook(s) PROVE TypeOK'
    <2> DEFINE w == [step |-> "remove", type |-> "deleted", svc |-> s, content |-> catalog[s]]
    <2>1. w \in Sayings
      BY DEF Sayings, Types, TypeOK
    <2>2. said' = [said EXCEPT ![Handler] = w]
      BY <1>4, Zenon DEF WatcherLook, Say
    <2> HIDE DEF w
    <2>3. said' \in [Goroutines -> Sayings \cup {Silent}]
      BY <2>1, <2>2, SayType DEF Goroutines
    <2>4. /\ UNCHANGED <<catalog, untold, bus, faults, unseen, since>>
          /\ changes' \in 0 .. MaxChanges
      BY <1>4, PageAssumption DEF WatcherLook, pageVars, socketVars, TypeOK
    <2> QED BY <2>3, <2>4, TypeAway DEF TypeOK
  <1>5. CASE LoseEvent
    <2>1. 1 \in DOMAIN bus /\ Head(bus) \in Events /\ Tail(bus) \in Seq(Events)
      BY <1>5 DEF LoseEvent, TypeOK
    <2>2. Head(bus).svc \in Services
      BY <2>1 DEF Events
    <2>3. bus' \in Seq(Events) /\ UNCHANGED <<said, catalog, changes, untold>>
      BY <1>5, <2>1 DEF LoseEvent, clusterVars
    <2>4. unseen' \subseteq Services /\ since' \subseteq Services
      BY <1>5, <2>2 DEF LoseEvent, Missed, UsedUp, TypeOK
    <2>5. faults' \in 0 .. MaxFaults
      BY <1>5, PageAssumption DEF LoseEvent, TypeOK
    <2> QED BY <2>3, <2>4, <2>5, TypeAway DEF TypeOK
  <1> QED BY <1>1, <1>2, <1>3, <1>4, <1>5, TypeSpeak DEF Away, Publishers

LEMMA WireType ==
    ASSUME TypeOK
    PROVE  /\ \A i \in DOMAIN wire : wire[i] \in Events
           /\ OnWire \subseteq Services
  <1>1. ASSUME NEW i \in DOMAIN wire PROVE wire[i] \in Events
    BY <1>1 DEF TypeOK
  <1>2. ASSUME NEW i \in DOMAIN wire PROVE wire[i].svc \in Services
    BY <1>1 DEF Events
  <1> QED BY <1>1, <1>2 DEF OnWire

LEMMA TypeSocket ==
    ASSUME TypeOK, Dispatch \/ Connect \/ Break \/ OnMessage \/ ValidatorReady
    PROVE  TypeOK'
  <1> USE PageAssumption DEF TypeOK, clusterVars, socketVars, fetchVars, clickVars
  <1>1. CASE Dispatch
    <2>1. Head(bus) \in Events /\ Tail(bus) \in Seq(Events)
      BY <1>1 DEF Dispatch
    <2>2. Head(bus).svc \in Services
      BY <2>1 DEF Events
    <2>3. bus' \in Seq(Events) /\ wire' \in Seq(Events)
      <3>1. bus' = Tail(bus) /\ (wire' = wire \/ wire' = Append(wire, Head(bus)))
        BY <1>1, Zenon DEF Dispatch
      <3>2. Append(wire, Head(bus)) \in Seq(Events)
        BY <2>1, AppendType
      <3> QED BY <2>1, <3>1, <3>2
    <2>4. unseen' \subseteq Services /\ since' \subseteq Services
      BY <1>1, <2>2 DEF Dispatch, Missed, UsedUp
    <2>5. UNCHANGED <<ready, clusterVars, sock, faults, pins, cards, flags, fetchVars,
                      clickVars, unsure>>
      BY <1>1 DEF Dispatch
    <2> QED BY <2>3, <2>4, <2>5
  <1>2. CASE Connect BY <1>2 DEF Connect
  <1>3. CASE Break
    <2>1. unseen' \subseteq Services /\ since' \subseteq Services
      BY <1>3, WireType DEF Break, Missed, UsedUp
    <2>2. wire' \in Seq(Events) /\ faults' \in 0 .. MaxFaults
      BY <1>3 DEF Break
    <2>4. sock' \in BOOLEAN
      BY <1>3, Zenon DEF Break
    <2>3. UNCHANGED <<ready, clusterVars, bus, pins, cards, flags, fetchVars, clickVars, unsure>>
      BY <1>3 DEF Break
    <2> QED BY <2>1, <2>2, <2>3, <2>4
  <1>4. CASE OnMessage
    <2>1. Head(wire) \in Events /\ Tail(wire) \in Seq(Events)
      BY <1>4 DEF OnMessage
    <2>2. Head(wire).svc \in Services /\ Upsert(Head(wire)) \in Contents \cup {Gone}
      BY <2>1 DEF Events, Upsert
    <2> QED BY <1>4, <2>1, <2>2 DEF OnMessage, UsedUp
  <1>5. CASE ValidatorReady BY <1>5 DEF ValidatorReady
  <1> QED BY <1>1, <1>2, <1>3, <1>4, <1>5

LEMMA TypeFetch ==
    ASSUME TypeOK, FetchRefused \/ FetchPins \/ FetchNoPins \/ FetchCatalog \/ FetchApply
    PROVE  TypeOK'
  <1> USE CallerAssumption, PageAssumption DEF TypeOK, clusterVars, socketVars, clickVars
  <1>1. CASE FetchRefused BY <1>1 DEF FetchRefused
  <1>2. CASE FetchPins
    <2>1. CallerPinnedUIDs \subseteq Services
      BY DEF CallerPinnedUIDs, UserOf
    <2> QED BY <1>2, <2>1 DEF FetchPins
  <1>3. CASE FetchCatalog BY <1>3 DEF FetchCatalog
  <1>4. CASE FetchApply
    BY <1>4, WireType DEF FetchApply, Nowhere
  <1>5. CASE FetchNoPins
    <2>1. blind' \in BOOLEAN
      BY <1>5, Zenon DEF FetchNoPins
    <2> QED BY <1>5, <2>1 DEF FetchNoPins
  <1> QED BY <1>1, <1>2, <1>3, <1>4, <1>5

LEMMA TypeToggle ==
    ASSUME TypeOK, NEW t \in Toggles, Toggle(t) PROVE TypeOK'
  <1> USE PageAssumption DEF TypeOK, clusterVars, socketVars, fetchVars
  <1>1. CASE Click(t)      BY <1>1 DEF Click
  <1>2. CASE PinByUID(t)
    <2> DEFINE me == RequireAuth(Me, ready)
    <2>1. \E P \in SUBSET Services : pins' = [pins EXCEPT ![me] = P]
      <3>1. me \in Users
        BY <1>2, CallerAssumption DEF PinByUID, RequireAuth, UserOf
      <3>2. /\ pins[me] \cup {on[t]} \in SUBSET Services
            /\ pins[me] \ {on[t]} \in SUBSET Services
        BY <3>1
      <3> QED BY <1>2, <3>2, Zenon DEF PinByUID
    <2>2. pins' \in [Users -> SUBSET Services]
      BY <2>1
    <2>3. click' \in [Toggles -> {"new", "sent", "stored", "over"}]
      BY <1>2 DEF PinByUID
    <2>4. UNCHANGED <<ready, clusterVars, bus, socketVars, cards, flags, fetchVars, on, pinning,
                      unseen, since, unsure>>
      BY <1>2, Zenon DEF PinByUID
    <2> QED BY <2>2, <2>3, <2>4
  <1>3. CASE ClickOk(t)    BY <1>3 DEF ClickOk
  <1>4. CASE ClickFails(t) BY <1>4 DEF ClickFails
  <1> QED BY <1>1, <1>2, <1>3, <1>4 DEF Toggle

LEMMA TypeStep == ASSUME TypeOK, [Next]_vars PROVE TypeOK'
  <1>1. CASE UNCHANGED vars
    BY <1>1 DEF TypeOK, vars, clusterVars, socketVars, fetchVars, clickVars
  <1> QED BY <1>1, TypePublisher, TypeSocket, TypeFetch, TypeToggle DEF Next, Away, Server, Page

-----------------------------------------------------------------------------
(* Entitlement.                                                            *)

(* The policy lets through only what the names of the groups allow.        *)
LEMMA SeenIsEntitled ==
    ASSUME NEW x \in Contents, MaySee(x) PROVE Entitled(x)
  BY CallerAssumption, PageAssumption DEF MaySee, Entitled, CanAccessService, CanAccessPolicy,
     HasRequiredGroups, GroupMatches, GroupsOf, Authenticated, ExtractAndValidateJWT

EntitledInv == CardsAreEntitled /\ TransitIsEntitled

LEMMA EntitledStep ==
    ASSUME TypeOK, EntitledInv, [Next]_vars PROVE EntitledInv'
  <1> USE DEF EntitledInv, CardsAreEntitled, TransitIsEntitled
  <1>1. ASSUME UNCHANGED <<cards, snapshot, wire>> PROVE EntitledInv'
    BY <1>1 DEF Entitled
  <1>2. CASE Dispatch
    <2>1. CASE wire' = wire
      BY <1>1, <1>2, <2>1 DEF Dispatch, fetchVars
    <2>2. CASE MaySee(Head(bus).content) /\ wire' = Append(wire, Head(bus))
      <3>1. Head(bus) \in Events /\ wire \in Seq(Events)
        BY <1>2 DEF Dispatch, TypeOK
      <3>2. Entitled(Head(bus).content)
        BY <2>2, <3>1, SeenIsEntitled DEF Events
      <3>3. \A i \in DOMAIN wire' : wire'[i] = Head(bus) \/ (i \in DOMAIN wire /\ wire'[i] = wire[i])
        BY <2>2, <3>1
      <3>4. cards' = cards /\ snapshot' = snapshot
        BY <1>2 DEF Dispatch, fetchVars
      <3> QED BY <3>2, <3>3, <3>4 DEF Entitled
    <2> QED BY <1>2, <2>1, <2>2, Zenon DEF Dispatch
  <1>3. CASE OnMessage
    <2>1. wire # <<>> /\ wire \in Seq(Events) /\ wire' = Tail(wire) /\ snapshot' = snapshot
      BY <1>3 DEF OnMessage, TypeOK, fetchVars
    <2>2. \A i \in DOMAIN wire' : i + 1 \in DOMAIN wire /\ wire'[i] = wire[i + 1]
      BY <2>1
    <2>3. Entitled(Head(wire).content)
      BY <2>1
    <2>4. \A s \in Services : \/ cards'[s] = cards[s] \/ cards'[s] = Gone
                             \/ cards'[s] = Head(wire).content
      BY <1>3 DEF OnMessage, Upsert, TypeOK
    <2>5. \A i \in DOMAIN wire' : Entitled(wire'[i].content)
      BY <2>2
    <2>6. \A s \in Services : cards'[s] # Gone => Entitled(cards'[s])
      BY <2>3, <2>4
    <2> QED BY <2>1, <2>5, <2>6 DEF Entitled
  <1>4. CASE Break
    BY <1>4 DEF Break, fetchVars, Entitled
  <1>5. CASE FetchCatalog
    <2>1. \A s \in Services : snapshot'[s] # Gone =>
              catalog[s] \in Contents /\ MaySee(catalog[s]) /\ snapshot'[s] = catalog[s]
      BY <1>5 DEF FetchCatalog, TypeOK
    <2>2. cards' = cards /\ wire' = wire
      BY <1>5 DEF FetchCatalog, socketVars
    <2> QED BY <2>1, <2>2, SeenIsEntitled DEF Entitled
  <1>6. CASE FetchApply
    BY <1>6 DEF FetchApply, Nowhere, socketVars, Entitled
  <1>7. CASE Away
    BY <1>1, <1>7, AwayFromPage
  <1>8. CASE \E t \in Toggles : Toggle(t)
    BY <1>1, <1>8 DEF Toggle, Click, PinByUID, ClickOk, ClickFails, socketVars, fetchVars
  <1>9. CASE ValidatorReady \/ Connect \/ FetchRefused \/ FetchPins \/ FetchNoPins \/ UNCHANGED vars
    BY <1>1, <1>9 DEF ValidatorReady, Connect, FetchRefused, FetchPins, FetchNoPins, vars, socketVars,
       fetchVars
  <1> QED BY <1>2, <1>3, <1>4, <1>5, <1>6, <1>7, <1>8, <1>9 DEF Next, Away, Server, Page

LEMMA Invariance == Spec => [](TypeOK /\ EntitledInv)
  <1>1. ASSUME Init PROVE TypeOK /\ EntitledInv
    <2>1. \A s \in Services : cards[s] = Gone /\ snapshot[s] = Gone
      BY <1>1 DEF Init, Nowhere
    <2>2. wire = <<>>
      BY <1>1 DEF Init
    <2> QED BY <1>1, <2>1, <2>2, TypeInit DEF EntitledInv, CardsAreEntitled, TransitIsEntitled
  <1>2. (TypeOK /\ EntitledInv) /\ [Next]_vars => (TypeOK /\ EntitledInv)'
    BY TypeStep, EntitledStep
  <1> QED BY <1>1, <1>2, PTL DEF Spec

(* Every reachable state has the types TypeOK says.                        *)
THEOREM TypeCorrect == Spec => []TypeOK
  BY Invariance, PTL

(* The page shows no card its user is not entitled to, in whatever order   *)
(* the list, the events, lost sockets and changes of visibility come.      *)
THEOREM PageNeverReveals == Spec => []CardsAreEntitled
  <1>1. TypeOK /\ EntitledInv => CardsAreEntitled BY DEF EntitledInv
  <1> QED BY <1>1, Invariance, PTL

(* Nor do GET /pins and GET /services/{id}, whatever was pinned.           *)
THEOREM PinsNeverReveal == Spec => []PinsRevealNothing
  <1>1. TypeOK => PinsRevealNothing
    <2> SUFFICES ASSUME TypeOK, AuthEnabled PROVE PinsRevealNothing
      BY DEF PinsRevealNothing
    <2>1. ASSUME NEW x \in Contents, MaySeePinned(x), RequireAuth(Me, ready) # NoUser
          PROVE  Entitled(x)
      BY <2>1, CallerAssumption, PageAssumption DEF MaySeePinned, Entitled, CanAccessPolicy,
         HasRequiredGroups, GroupMatches, GroupsOf, RequireAuth, Authenticated,
         ExtractAndValidateJWT
    <2>2. ASSUME NEW uids \in SUBSET Services, NEW x \in GetPins(uids) PROVE Entitled(x)
      BY <2>1, <2>2 DEF GetPins, TypeOK
    <2>3. ASSUME NEW s \in Services, NEW x \in GetServiceByUID(s) PROVE Entitled(x)
      BY <2>3, SeenIsEntitled DEF GetServiceByUID, TypeOK
    <2> QED BY <2>2, <2>3 DEF PinsRevealNothing
  <1> QED BY <1>1, TypeCorrect, PTL

-----------------------------------------------------------------------------
(* The cards.  For each service a goroutine has its present entry in hand, *)
(* or else the last event under way, or else the answer under way, or else *)
(* the card, is what the page should show.                                 *)

(* Services with events in queue q.                                        *)
Svcs(q) == {q[i].svc : i \in DOMAIN q}

OnBus == Svcs(bus)

(* Event i is the last of its service in queue q.                          *)
LastIn(q, i) == i \in DOMAIN q /\ \A j \in DOMAIN q : j > i => q[j].svc # q[i].svc

(* Services of which there will be more to dispatch.                       *)
Afoot == OnBus \cup untold

(* Goroutine g will publish the present entry of s.                        *)
InHand(g, s) ==
    /\ said[g] # Silent /\ said[g].svc = s
    /\ \/ said[g].step = "get" /\ catalog[s] # Gone
       \/ said[g].step = "publish" /\ Tells(said[g]) = catalog[s]

ChangesAreTold == \A s \in untold : \E g \in Goroutines : InHand(g, s)

WireEndsAtView ==
    \A i \in DOMAIN wire :
        LastIn(wire, i) /\ wire[i].svc \notin Afoot /\ wire[i].svc \notin unseen =>
            Upsert(wire[i]) = View(wire[i].svc)

AnswerIsView ==
    fetch = "answered" =>
        \A s \in Services : s \notin since /\ s \notin Afoot /\ s \notin OnWire =>
            snapshot[s] = View(s)

ListIsView ==
    fetch = "applied" =>
        \A s \in Services : s \notin unseen /\ s \notin Afoot /\ s \notin OnWire =>
            cards[s] = View(s)

(* The request was let in: its caller is as good as he will ever be.       *)
LetIn == ~(AuthEnabled /\ Header[Me] = "valid" /\ ~ready)

AnsweredWhenLetIn == fetch \in {"pins", "answered", "applied"} => LetIn

CardsInv ==
    /\ ChangesAreTold /\ WireEndsAtView /\ AnswerIsView /\ ListIsView
    /\ AnsweredWhenLetIn

-----------------------------------------------------------------------------
(* The pins.                                                               *)

UnderWay(t) == click[t] \in {"sent", "stored"}

(* Only a toggle under way is remembered as one that pins.                 *)
PinningIsUnderWay == \A t \in pinning : UnderWay(t)

(* The answer has the pins of every service that was not clicked yet.      *)
AnswerKnowsPins ==
    fetch \in {"pins", "answered"} /\ LoggedIn /\ ~blind =>
        \A s \in Services : (\A t \in Toggles : on[t] = s => click[t] = "new") =>
            (s \in snapPins <=> s \in Pinned)

(* Two toggles under way on one service leave its pin disputed.            *)
OneToggleAtATime ==
    fetch = "applied" =>
        \A t, u \in Toggles : t # u /\ on[t] = on[u] /\ UnderWay(t) /\ UnderWay(u) =>
            on[t] \in unsure

(* A toggle under way is what the card shows; the store shows the opposite *)
(* until the toggle has reached it.                                        *)
ToggleIsExplained ==
    fetch = "applied" /\ LoggedIn =>
        \A t \in Toggles : UnderWay(t) /\ on[t] \notin unsure /\ cards[on[t]] # Gone =>
            /\ on[t] \in flags <=> t \in pinning
            /\ on[t] \in Pinned <=> (click[t] = "stored" <=> t \in pinning)

PinsInv ==
    /\ PinningIsUnderWay /\ AnswerKnowsPins /\ OneToggleAtATime
    /\ ToggleIsExplained /\ PinFlagIsStored

LEMMA PinsUserKnown ==
    ASSUME LoggedIn PROVE RequireAuth(Me, TRUE) \in Users /\ RequireAuth(Me, TRUE) = UserOf(Me)
  <1>1. Authenticated(Me, TRUE) /\ RequireAuth(Me, TRUE) = UserOf(Me)
    BY Zenon DEF LoggedIn, RequireAuth
  <1>2. UserOf(Me) \in Users \cup {NoUser}
    BY CallerAssumption, PageAssumption DEF UserOf
  <1> QED BY <1>1, <1>2 DEF LoggedIn

(* The user of a request is the same whenever he is known.                 *)
LEMMA PinsUserStays ==
    ASSUME LoggedIn, RequireAuth(Me, ready) # NoUser
    PROVE  RequireAuth(Me, ready) = RequireAuth(Me, TRUE)
  BY PinsUserKnown, Zenon DEF LoggedIn, RequireAuth

(* callerPinnedUIDs reads the pins the page is about.                      *)
LEMMA PinsAreRead ==
    ASSUME LoggedIn, ExtractAndValidateJWT(Me, ready) # "not ready"
    PROVE  CallerPinnedUIDs = Pinned
  <1>1. ExtractAndValidateJWT(Me, TRUE) = "authenticated"
    BY Zenon DEF LoggedIn, RequireAuth, Authenticated
  <1>2. ExtractAndValidateJWT(Me, ready) = ExtractAndValidateJWT(Me, TRUE)
    BY Zenon DEF ExtractAndValidateJWT
  <1>3. UserOf(Me) # NoUser /\ UserOf(Me) = RequireAuth(Me, TRUE)
    BY PinsUserKnown DEF LoggedIn
  <1> QED BY <1>1, <1>2, <1>3, Zenon DEF CallerPinnedUIDs, Pinned, Authenticated

LEMMA PinsConstant == LoggedIn' = LoggedIn /\ Pinned' = pins'[RequireAuth(Me, TRUE)]
  BY Zenon DEF LoggedIn, Pinned, RequireAuth, Authenticated, ExtractAndValidateJWT, UserOf

(* What the pins invariant is about.                                       *)
pinVars == <<pins, cards, flags, fetch, snapPins, blind, click, on, pinning, unsure>>

LEMMA PinsUnchanged == ASSUME PinsInv, UNCHANGED pinVars PROVE PinsInv'
  <1> USE PinsConstant DEF pinVars
  <1>1. \A s \in Services : Pending(s)' <=> Pending(s)
    BY DEF Pending
  <1>2. \A t : UnderWay(t)' <=> UnderWay(t)
    BY DEF UnderWay
  <1>3. Pinned' = Pinned
    BY DEF Pinned
  <1> QED BY <1>1, <1>2, <1>3 DEF PinsInv, PinningIsUnderWay, AnswerKnowsPins, OneToggleAtATime,
             ToggleIsExplained, PinFlagIsStored

(* The fetch reads the pins before anything was clicked and shows them.    *)
LEMMA PinsFetch ==
    ASSUME TypeOK, PinsInv, FetchRefused \/ FetchPins \/ FetchNoPins \/ FetchCatalog \/ FetchApply
    PROVE  PinsInv'
  <1> USE DEF PinsInv, TypeOK
  <1>1. PinningIsUnderWay'
    BY DEF FetchRefused, FetchPins, FetchNoPins, FetchCatalog, FetchApply, clickVars,
       PinningIsUnderWay, UnderWay
  <1>2. Pinned' = Pinned
    BY PinsConstant DEF FetchRefused, FetchPins, FetchNoPins, FetchCatalog, FetchApply, Pinned
  <1>3. CASE fetch' # "applied"
    <2>1. AnswerKnowsPins'
      <3>1. CASE FetchPins
        BY <3>1, <1>2, PinsAreRead, PinsConstant DEF FetchPins, AnswerKnowsPins
      <3>2. CASE FetchCatalog
        BY <3>2, <1>2, PinsConstant DEF FetchCatalog, AnswerKnowsPins, clickVars
      <3>3. CASE FetchRefused \/ FetchNoPins \/ FetchApply
        BY <3>3, <1>3, Zenon DEF FetchRefused, FetchNoPins, FetchApply, AnswerKnowsPins
      <3> QED BY <3>1, <3>2, <3>3
    <2> QED BY <1>1, <1>3, <2>1 DEF OneToggleAtATime, ToggleIsExplained, PinFlagIsStored
  <1>4. CASE FetchApply
    <2>1. /\ fetch = "answered" /\ fetch' = "applied" /\ click' = click /\ on' = on
          /\ cards' = snapshot /\ flags' = {s \in snapPins : snapshot[s] # Gone}
      BY <1>4 DEF FetchApply, clickVars
    <2>2. \A s \in Services : s \notin unsure' =>
              ~blind /\ \A t \in Toggles : on[t] = s => click[t] = "new"
      BY <1>4 DEF FetchApply
    <2>3. \A t \in Toggles : UnderWay(t)' => on'[t] \in unsure'
      BY <2>1, <2>2 DEF UnderWay
    <2>4. PinFlagIsStored'
      BY <2>1, <2>2, <1>2, PinsConstant DEF AnswerKnowsPins, PinFlagIsStored
    <2> QED BY <1>1, <2>1, <2>3, <2>4 DEF AnswerKnowsPins, OneToggleAtATime, ToggleIsExplained
  <1> QED BY <1>3, <1>4 DEF FetchRefused, FetchPins, FetchNoPins, FetchCatalog

(* An event brings a card whose pin is disputed, or leaves flags alone.    *)
LEMMA PinsMessage == ASSUME TypeOK, PinsInv, OnMessage PROVE PinsInv'
  <1> USE DEF PinsInv, TypeOK
  <1>1. UNCHANGED <<pins, fetch, snapPins, blind, click, on, pinning>>
    BY DEF OnMessage, fetchVars, clickVars
  <1>2. Head(wire).svc \in Services
    <2>1. 1 \in DOMAIN wire /\ Head(wire) = wire[1]
      BY DEF OnMessage
    <2> QED BY <2>1, WireType DEF Events
  <1>3. ASSUME NEW s \in Services, s \notin unsure', cards'[s] # Gone
        PROVE  s \notin unsure /\ cards[s] # Gone /\ (s \in flags' <=> s \in flags)
    <2>1. CASE s # Head(wire).svc
      BY <1>2, <1>3, <2>1 DEF OnMessage
    <2>2. CASE s = Head(wire).svc
      BY <1>2, <1>3, <2>2 DEF OnMessage, Upsert
    <2> QED BY <2>1, <2>2
  <1>4. unsure \subseteq unsure'
    BY DEF OnMessage
  <1>5. /\ \A s \in Services : Pending(s)' <=> Pending(s)
        /\ \A t : UnderWay(t)' <=> UnderWay(t)
        /\ Pinned' = Pinned
    BY <1>1, PinsConstant DEF Pending, UnderWay, Pinned
  <1>6. PinningIsUnderWay' /\ AnswerKnowsPins' /\ OneToggleAtATime'
    BY <1>1, <1>4, <1>5, PinsConstant DEF PinningIsUnderWay, AnswerKnowsPins, OneToggleAtATime
  <1>7. ToggleIsExplained' /\ PinFlagIsStored'
    BY <1>1, <1>3, <1>5, PinsConstant DEF ToggleIsExplained, PinFlagIsStored
  <1> QED BY <1>6, <1>7

(* A click and its request, one service at a time.                         *)
LEMMA PinsToggle == ASSUME TypeOK, PinsInv, NEW t \in Toggles, Toggle(t) PROVE PinsInv'
  <1> USE DEF PinsInv
  <1> DEFINE me == RequireAuth(Me, TRUE)
  <1>1. /\ UNCHANGED <<cards, fetch, snapPins, blind, on>>
        /\ click[t] # "new" \/ (click[t] = "new" /\ click'[t] # "new")
        /\ \A u \in Toggles : u # t => click'[u] = click[u]
        /\ \A u : u # t => (u \in pinning' <=> u \in pinning)
        /\ \A s \in Services : s # on[t] => (s \in flags' <=> s \in flags)
        /\ unsure \subseteq unsure'
    BY DEF Toggle, Click, PinByUID, ClickOk, ClickFails, TypeOK, fetchVars
  <1>2. click'[t] # "new" /\ click' \in [Toggles -> {"new", "sent", "stored", "over"}]
    BY DEF Toggle, Click, PinByUID, ClickOk, ClickFails, TypeOK
  <1>3. PinningIsUnderWay'
    BY DEF Toggle, Click, PinByUID, ClickOk, ClickFails, TypeOK, PinningIsUnderWay, UnderWay
  <1>4. ASSUME LoggedIn, NEW s \in Services, s # on[t]
        PROVE  s \in Pinned' <=> s \in Pinned
    <2>1. CASE PinByUID(t)
      <3>1. /\ RequireAuth(Me, ready) = me /\ me \in Users
            /\ pins' = [pins EXCEPT ![me] = IF t \in pinning THEN @ \cup {on[t]} ELSE @ \ {on[t]}]
        BY <1>4, <2>1, PinsUserStays, PinsUserKnown DEF PinByUID
      <3> QED BY <1>4, <3>1, PinsConstant DEF TypeOK, Pinned
    <2>2. CASE ~PinByUID(t)
      BY <2>2, PinsConstant DEF Toggle, Click, ClickOk, ClickFails, Pinned
    <2> QED BY <2>1, <2>2
  <1>5. AnswerKnowsPins'
    BY <1>1, <1>2, <1>4, PinsConstant DEF AnswerKnowsPins, TypeOK
  <1>6. ASSUME NEW u \in Toggles, u # t PROVE UnderWay(u)' <=> UnderWay(u)
    BY <1>1, <1>6 DEF UnderWay
  <1>7. /\ Click(t) => ~UnderWay(t) /\ (Pending(on[t]) => on[t] \in unsure')
        /\ ~Click(t) => UnderWay(t)
    BY DEF Toggle, Click, PinByUID, ClickOk, ClickFails, UnderWay
  <1>8. OneToggleAtATime'
    <2> SUFFICES ASSUME fetch = "applied", NEW u \in Toggles, u # t, on[u] = on[t], UnderWay(u)
                 PROVE  on[t] \in unsure'
      BY <1>1, <1>6 DEF OneToggleAtATime
    <2>1. CASE Click(t)
      BY <1>7, <2>1 DEF Pending, UnderWay
    <2>2. CASE ~Click(t)
      BY <1>1, <1>7, <2>2 DEF OneToggleAtATime
    <2> QED BY <2>1, <2>2
  <1>9. ASSUME LoggedIn, fetch = "applied", on[t] \notin unsure', cards[on[t]] # Gone
        PROVE  /\ UnderWay(t)' => /\ on[t] \in flags' <=> t \in pinning'
                                  /\ on[t] \in Pinned' <=> (click'[t] = "stored" <=> t \in pinning')
               /\ ~Pending(on[t])' => (on[t] \in flags' <=> on[t] \in Pinned')
    <2> DEFINE s == on[t]
    <2>1. s \in Services /\ s \notin unsure
      BY <1>1, <1>9 DEF TypeOK
    <2>2. CASE Click(t)
      <3>1. ~Pending(s) /\ t \notin pinning
        BY <1>7, <1>9, <2>2 DEF PinningIsUnderWay
      <3>2. s \in flags <=> s \in Pinned
        BY <1>9, <2>1, <3>1 DEF PinFlagIsStored
      <3>3. click'[t] = "sent" /\ Pinned' = Pinned
        BY <2>2, PinsConstant DEF Click, TypeOK, Pinned
      <3>4. Pending(s)'
        BY <1>1, <3>3 DEF Pending
      <3>5. /\ s \in flags' <=> s \notin flags
            /\ t \in pinning' <=> s \notin flags
        BY <2>2, <3>1 DEF Click
      <3> QED BY <3>2, <3>3, <3>4, <3>5
    <2>3. CASE ~Click(t)
      <3>1. /\ s \in flags <=> t \in pinning
            /\ s \in Pinned <=> (click[t] = "stored" <=> t \in pinning)
        BY <1>7, <1>9, <2>1, <2>3 DEF ToggleIsExplained
      <3>2. CASE PinByUID(t)
        <4>1. /\ RequireAuth(Me, ready) = me /\ me \in Users
              /\ pins' = [pins EXCEPT ![me] = IF t \in pinning THEN @ \cup {s} ELSE @ \ {s}]
          BY <1>9, <3>2, PinsUserStays, PinsUserKnown DEF PinByUID
        <4>2. s \in Pinned' <=> t \in pinning
          BY <4>1, PinsConstant DEF TypeOK
        <4>3. click'[t] = "stored" /\ flags' = flags /\ pinning' = pinning
          BY <3>2 DEF PinByUID, TypeOK
        <4>4. Pending(s)'
          BY <1>1, <4>3 DEF Pending
        <4> QED BY <3>1, <4>2, <4>3, <4>4
      <3>3. CASE ClickOk(t)
        BY <3>1, <3>3, PinsConstant DEF ClickOk, TypeOK, UnderWay, Pinned
      <3>4. CASE ClickFails(t)
        BY <1>9, <3>1, <3>4, PinsConstant DEF ClickFails, TypeOK, UnderWay, Pinned
      <3> QED BY <2>3, <3>2, <3>3, <3>4 DEF Toggle
    <2> QED BY <2>2, <2>3
  <1>10. ToggleIsExplained'
    <2> SUFFICES ASSUME LoggedIn, fetch = "applied", NEW u \in Toggles, UnderWay(u)',
                        on[u] \notin unsure', cards[on[u]] # Gone
                 PROVE  /\ on[u] \in flags' <=> u \in pinning'
                        /\ on[u] \in Pinned' <=> (click'[u] = "stored" <=> u \in pinning')
      BY <1>1, PinsConstant DEF ToggleIsExplained
    <2>1. CASE u = t
      BY <1>9, <2>1
    <2>2. CASE u # t
      <3>1. on[u] # on[t]
        <4>1. ASSUME on[u] = on[t] PROVE UnderWay(t)
          BY <1>6, <1>7, <2>2, <4>1 DEF Pending, UnderWay
        <4> QED BY <1>1, <1>6, <2>2, <4>1 DEF OneToggleAtATime
      <3>2. on[u] \in Services /\ on[u] \notin unsure
        BY <1>1 DEF TypeOK
      <3>3. /\ on[u] \in flags <=> u \in pinning
            /\ on[u] \in Pinned <=> (click[u] = "stored" <=> u \in pinning)
        BY <1>6, <2>2, <3>2 DEF ToggleIsExplained
      <3> QED BY <1>1, <1>4, <2>2, <3>1, <3>2, <3>3
    <2> QED BY <2>1, <2>2
  <1>11. PinFlagIsStored'
    <2> SUFFICES ASSUME LoggedIn, fetch = "applied", NEW s \in Services, s \notin unsure',
                        cards[s] # Gone, ~Pending(s)'
                 PROVE  s \in flags' <=> s \in Pinned'
      BY <1>1, PinsConstant DEF PinFlagIsStored
    <2>1. CASE s = on[t]
      BY <1>1, <1>9, <2>1 DEF Pending
    <2>2. CASE s # on[t]
      <3>1. ~Pending(s)
        BY <1>1, <2>2 DEF Pending
      <3>2. s \in flags <=> s \in Pinned
        BY <1>1, <3>1 DEF PinFlagIsStored
      <3> QED BY <1>1, <1>4, <2>2, <3>2
    <2> QED BY <2>1, <2>2
  <1> QED BY <1>3, <1>5, <1>8, <1>10, <1>11

LEMMA PinsStep == ASSUME TypeOK, PinsInv, [Next]_vars PROVE PinsInv'
  <1>1. CASE Away
    BY <1>1, PinsUnchanged, AwayFromPage DEF pinVars
  <1>2. CASE Dispatch \/ Connect \/ Break \/ ValidatorReady \/ UNCHANGED vars
    BY <1>2, PinsUnchanged DEF Dispatch, Connect, Break, ValidatorReady, vars, fetchVars,
       clickVars, pinVars
  <1> QED BY <1>1, <1>2, PinsFetch, PinsMessage, PinsToggle DEF Next, Away, Server, Page

(* The pin a card shows is the stored one, with authentication on, in      *)
(* whatever order clicks, their answers, failures, events and the list     *)
(* come; where it may not be, a history variable says so.                  *)
THEOREM PinsAreShown == Spec => []PinFlagIsStored
  <1>1. ASSUME Init PROVE PinsInv
    BY <1>1 DEF Init, PinsInv, PinningIsUnderWay, AnswerKnowsPins, OneToggleAtATime,
       ToggleIsExplained, PinFlagIsStored
  <1>2. TypeOK /\ PinsInv /\ [Next]_vars => PinsInv'
    BY PinsStep
  <1>3. PinsInv => PinFlagIsStored
    BY DEF PinsInv
  <1> QED BY <1>1, <1>2, <1>3, TypeCorrect, PTL DEF Spec

-----------------------------------------------------------------------------
(* Queues.                                                                 *)

LEMMA EventOfQueue ==
    ASSUME NEW q \in Seq(Events), NEW i \in DOMAIN q
    PROVE  q[i] \in Events /\ q[i].svc \in Services /\ q[i].content \in Contents
  <1>1. q[i] \in Events
    OBVIOUS
  <1> QED BY <1>1 DEF Events

LEMMA LastOfAppend ==
    ASSUME NEW q \in Seq(Events), NEW e \in Events, NEW i, LastIn(Append(q, e), i)
    PROVE  \/ Append(q, e)[i] = e
           \/ LastIn(q, i) /\ Append(q, e)[i] = q[i] /\ q[i].svc # e.svc
  <1> DEFINE n == Len(q) + 1
  <1>1. /\ DOMAIN Append(q, e) = 1 .. n /\ DOMAIN q = 1 .. Len(q) /\ n \in Nat
        /\ Append(q, e)[n] = e /\ \A j \in 1 .. Len(q) : Append(q, e)[j] = q[j]
    OBVIOUS
  <1> HIDE DEF n
  <1> QED BY <1>1 DEF LastIn, n

LEMMA LastOfTail ==
    ASSUME NEW q \in Seq(Events), q # <<>>, NEW i, LastIn(Tail(q), i)
    PROVE  LastIn(q, i + 1) /\ Tail(q)[i] = q[i + 1]
  <1>1. /\ DOMAIN Tail(q) = 1 .. (Len(q) - 1) /\ DOMAIN q = 1 .. Len(q) /\ Len(q) \in Nat \ {0}
        /\ \A j \in 1 .. (Len(q) - 1) : Tail(q)[j] = q[j + 1]
    OBVIOUS
  <1>2. i \in 1 .. (Len(q) - 1)
    BY <1>1 DEF LastIn
  <1>3. ASSUME NEW j \in DOMAIN q, j > i + 1 PROVE q[j].svc # q[i + 1].svc
    <2>1. j - 1 \in DOMAIN Tail(q) /\ j - 1 > i /\ Tail(q)[j - 1] = q[j]
      BY <1>1, <1>2, <1>3
    <2> QED BY <1>1, <1>2, <2>1 DEF LastIn
  <1> QED BY <1>1, <1>2, <1>3 DEF LastIn

LEMMA SvcsOfAppend ==
    ASSUME NEW q \in Seq(Events), NEW e \in Events
    PROVE  Svcs(Append(q, e)) = Svcs(q) \cup {e.svc}
  <1>1. /\ DOMAIN Append(q, e) = 1 .. Len(q) + 1 /\ DOMAIN q = 1 .. Len(q) /\ Len(q) \in Nat
        /\ Append(q, e)[Len(q) + 1] = e /\ \A j \in 1 .. Len(q) : Append(q, e)[j] = q[j]
    OBVIOUS
  <1>2. \A i \in DOMAIN Append(q, e) : i = Len(q) + 1 \/ i \in DOMAIN q
    BY <1>1
  <1>3. Len(q) + 1 \in DOMAIN Append(q, e) /\ DOMAIN q \subseteq DOMAIN Append(q, e)
    BY <1>1
  <1> QED BY <1>1, <1>2, <1>3 DEF Svcs

(* A service leaves a queue with its last event.                           *)
LEMMA SvcsOfTail ==
    ASSUME NEW q \in Seq(Events), q # <<>>
    PROVE  /\ Svcs(Tail(q)) \subseteq Svcs(q)
           /\ \A s \in Svcs(q) \ Svcs(Tail(q)) : LastIn(q, 1) /\ s = q[1].svc
  <1>1. /\ DOMAIN Tail(q) = 1 .. (Len(q) - 1) /\ DOMAIN q = 1 .. Len(q) /\ Len(q) \in Nat \ {0}
        /\ \A j \in 1 .. (Len(q) - 1) : Tail(q)[j] = q[j + 1]
    OBVIOUS
  <1>2. \A i \in DOMAIN Tail(q) : i + 1 \in DOMAIN q /\ Tail(q)[i] = q[i + 1]
    BY <1>1
  <1>3. ASSUME NEW i \in DOMAIN q, i # 1 PROVE q[i].svc \in Svcs(Tail(q))
    <2>1. i - 1 \in DOMAIN Tail(q) /\ Tail(q)[i - 1] = q[i]
      BY <1>1, <1>3
    <2> QED BY <2>1, Zenon DEF Svcs
  <1>4. Svcs(Tail(q)) \subseteq Svcs(q)
    BY <1>2 DEF Svcs
  <1>5. ASSUME NEW s \in Svcs(q) \ Svcs(Tail(q)) PROVE LastIn(q, 1) /\ s = q[1].svc
    <2>1. s = q[1].svc
      BY <1>3, <1>5 DEF Svcs
    <2>2. \A j \in DOMAIN q : j > 1 => q[j].svc # q[1].svc
      BY <1>3, <1>5, <2>1
    <2> QED BY <1>1, <2>1, <2>2 DEF LastIn
  <1> QED BY <1>4, <1>5

-----------------------------------------------------------------------------
(* How each step keeps the cards invariant.                                *)

(* Once the caller is let in, the policy lets through all he is entitled   *)
(* to.                                                                     *)
LEMMA EntitledIsSeen ==
    ASSUME LetIn, NEW x \in Contents PROVE MaySee(x) <=> Entitled(x)
  <1>1. Authenticated(Me, ready) <=> AuthEnabled /\ Header[Me] = "valid"
    BY CallerAssumption, PageAssumption, Zenon DEF LetIn, Authenticated, ExtractAndValidateJWT
  <1> QED BY <1>1, SeenIsEntitled DEF MaySee, Entitled, CanAccessService, CanAccessPolicy,
             HasRequiredGroups, GroupMatches, GroupsOf

LEMMA LetInWhenReady ==
    ASSUME ExtractAndValidateJWT(Me, ready) # "not ready" PROVE LetIn
  BY Zenon DEF LetIn, ExtractAndValidateJWT

LEMMA ViewConstant ==
    /\ \A x : Entitled(x)' <=> Entitled(x)
    /\ \A s : catalog'[s] = catalog[s] => View(s)' = View(s)
  BY DEF View, Entitled

LEMMA UpsertConstant == \A e : Upsert(e)' = Upsert(e)
  BY DEF Upsert

(* What the cards invariant is about.                                      *)
cardVars == <<catalog, said, untold, bus, wire, cards, fetch, snapshot, unseen, since>>

LEMMA CardsUnchanged == ASSUME CardsInv, UNCHANGED cardVars, LetIn => LetIn' PROVE CardsInv'
  <1> USE ViewConstant, UpsertConstant DEF cardVars
  <1>1. OnBus' = OnBus /\ OnWire' = OnWire /\ Afoot' = Afoot
    BY DEF OnBus, OnWire, Afoot, Svcs
  <1>2. ChangesAreTold'
    BY DEF CardsInv, ChangesAreTold, InHand, Tells
  <1> QED BY <1>1, <1>2 DEF CardsInv, WireEndsAtView, AnswerIsView, ListIsView,
             AnsweredWhenLetIn, LastIn

(* Whoever has the present entry in hand keeps it while nobody acts.       *)
LEMMA InHandKept ==
    ASSUME NEW g, NEW s, InHand(g, s), said'[g] = said[g], catalog'[s] = catalog[s]
    PROVE  InHand(g, s)'
  BY DEF InHand, Tells

(* A change of the cache is told by the goroutine that makes it.           *)
LEMMA StoreIsTold ==
    ASSUME TypeOK, ChangesAreTold, NEW g \in Goroutines, said[g] = Silent,
           NEW s \in Services, NEW x \in Contents,
           Store(s, x), Say(g, "get", "modified", s, Gone)
    PROVE  ChangesAreTold'
  <1> DEFINE v == [step |-> "get", type |-> "modified", svc |-> s, content |-> Gone]
  <1>1. said' = [said EXCEPT ![g] = v]
    BY Zenon DEF Say
  <1>2. v # Silent /\ v.step = "get" /\ v.svc = s
    <2>1. v \in Sayings
      BY DEF Sayings, Types
    <2> QED BY <2>1, SilentAssumption
  <1> HIDE DEF v
  <1>3. said'[g] = v /\ \A h \in Goroutines : h # g => said'[h] = said[h]
    BY <1>1 DEF TypeOK
  <1>4. catalog'[s] = x /\ \A r \in Services : r # s => catalog'[r] = catalog[r]
    BY DEF Store, TypeOK
  <1> SUFFICES ASSUME NEW r \in untold' PROVE \E h \in Goroutines : InHand(h, r)'
    BY DEF ChangesAreTold
  <1>5. CASE r = s
    <2>1. InHand(g, s)'
      BY <1>2, <1>3, <1>4, PageAssumption DEF InHand
    <2> QED BY <1>5, <2>1
  <1>6. CASE r # s
    <2>1. r \in untold /\ r \in Services
      BY <1>6 DEF Store, TypeOK
    <2>2. PICK h \in Goroutines : InHand(h, r)
      BY <2>1 DEF ChangesAreTold
    <2>3. said'[h] = said[h] /\ catalog'[r] = catalog[r]
      BY <1>3, <1>4, <1>6, <2>1, <2>2 DEF InHand
    <2> QED BY <2>2, <2>3, InHandKept
  <1> QED BY <1>5, <1>6

LEMMA RemovalIsTold ==
    ASSUME TypeOK, ChangesAreTold, Handler \in Goroutines, WatcherRemove
    PROVE  ChangesAreTold'
  <1>0. PICK s \in Services, x \in Contents \cup {Gone} :
            s = said[Handler].svc /\ x = said[Handler].content
    BY SayingType DEF WatcherRemove
  <1>1. said[Handler] # Silent /\ said[Handler].step = "remove"
    BY DEF WatcherRemove
  <1>2. ASSUME NEW r \in untold PROVE \E h \in Goroutines : h # Handler /\ InHand(h, r)
    <2>1. PICK h \in Goroutines : InHand(h, r)
      BY <1>2 DEF ChangesAreTold
    <2>2. h # Handler
      BY <1>1, <2>1 DEF InHand
    <2> QED BY <2>1, <2>2
  <1>3. \A h \in Goroutines : h # Handler => said'[h] = said[h]
    BY DEF WatcherRemove, Say, FallSilent, TypeOK
  <1>4. catalog' = [catalog EXCEPT ![s] = Gone]
    BY <1>0 DEF WatcherRemove, Store
  <1>5. ASSUME NEW r \in untold, catalog'[r] = catalog[r] PROVE \E h \in Goroutines : InHand(h, r)'
    BY <1>2, <1>3, <1>5, InHandKept
  <1>6. \A r \in Services : r # s => catalog'[r] = catalog[r]
    BY <1>4 DEF TypeOK
  <1>7. CASE x # Gone
    <2> DEFINE w == [step |-> "publish", type |-> "deleted", svc |-> s, content |-> x]
    <2>1. said' = [said EXCEPT ![Handler] = w]
      BY <1>0, <1>7, Zenon DEF WatcherRemove, Say
    <2>2. w # Silent /\ w.step = "publish" /\ w.svc = s /\ w.type = "deleted"
      <3>1. w \in Sayings
        BY <1>7 DEF Sayings, Types
      <3> QED BY <3>1, SilentAssumption
    <2> HIDE DEF w
    <2>3. said'[Handler] = w /\ catalog'[s] = Gone
      BY <1>1, <1>4, <2>1 DEF TypeOK
    <2>4. InHand(Handler, s)'
      BY <2>2, <2>3 DEF InHand, Tells
    <2>5. untold' \subseteq untold \cup {s}
      BY <1>0, <1>7 DEF WatcherRemove, Store
    <2>6. untold \subseteq Services
      BY DEF TypeOK
    <2> QED BY <1>5, <1>6, <2>4, <2>5, <2>6 DEF ChangesAreTold
  <1>8. CASE x = Gone
    <2>1. untold' \subseteq untold /\ (s \in untold' => catalog[s] = Gone)
      BY <1>0, <1>8 DEF WatcherRemove
    <2>2. \A r \in untold' : r \in Services /\ catalog'[r] = catalog[r]
      BY <1>1, <1>4, <1>6, <2>1 DEF TypeOK
    <2> QED BY <1>5, <2>1, <2>2 DEF ChangesAreTold
  <1> QED BY <1>7, <1>8

(* Reading keeps the entry in hand, and publishing it tells it.            *)
LEMMA ReadingIsTold ==
    ASSUME TypeOK, ChangesAreTold, NEW g \in Goroutines, Read(g) PROVE ChangesAreTold'
  <1> DEFINE s == said[g].svc
  <1>1. /\ said[g] # Silent /\ said[g].step = "get"
        /\ UNCHANGED <<catalog, untold>>
    BY DEF Read
  <1>2. s \in Services
    BY <1>1, SayingType
  <1>3. \A h \in Goroutines : h # g => said'[h] = said[h]
    BY DEF Read, Say, FallSilent, TypeOK
  <1> SUFFICES ASSUME NEW r \in untold PROVE \E h \in Goroutines : InHand(h, r)'
    BY <1>1 DEF ChangesAreTold
  <1>4. PICK h \in Goroutines : InHand(h, r)
    BY DEF ChangesAreTold
  <1>5. CASE h # g
    BY <1>1, <1>3, <1>4, <1>5, InHandKept
  <1>6. CASE h = g
    <2>1. r = s /\ catalog[s] # Gone
      BY <1>1, <1>4, <1>6 DEF InHand
    <2> HIDE DEF s
    <2>2. PICK type \in {"added", "modified"} : Say(g, "publish", type, s, catalog[s])
      BY <2>1, Zenon DEF Read, s
    <2> DEFINE w == [step |-> "publish", type |-> type, svc |-> s, content |-> catalog[s]]
    <2>3. w \in Sayings
      BY <1>2, <2>1 DEF Sayings, Types, TypeOK
    <2>4. w # Silent /\ w.step = "publish" /\ w.svc = s /\ w.type # "deleted" /\ w.content = catalog[s]
      BY <2>2, <2>3, SilentAssumption
    <2>5. said' = [said EXCEPT ![g] = w]
      BY <2>2, Zenon DEF Say
    <2> HIDE DEF w
    <2>6. said'[g] = w
      BY <2>5 DEF TypeOK
    <2>7. InHand(g, r)'
      BY <1>1, <2>1, <2>4, <2>6 DEF InHand, Tells
    <2> QED BY <2>7
  <1> QED BY <1>5, <1>6

LEMMA PublishingIsTold ==
    ASSUME TypeOK, ChangesAreTold, NEW g \in Goroutines, Publish(g) PROVE ChangesAreTold'
  <1> DEFINE s == said[g].svc
             present == Tells(said[g]) = catalog[s]
  <1>1. said[g] # Silent /\ said[g].step = "publish" /\ UNCHANGED catalog
    BY DEF Publish
  <1>2. /\ untold' \subseteq untold
        /\ said' # said => (present => s \notin untold')
        /\ \A h \in Goroutines : h # g => said'[h] = said[h]
    BY DEF Publish, Tells, FallSilent, TypeOK
  <1> SUFFICES ASSUME NEW r \in untold' PROVE \E h \in Goroutines : InHand(h, r)'
    BY DEF ChangesAreTold
  <1>3. PICK h \in Goroutines : InHand(h, r)
    BY <1>2 DEF ChangesAreTold
  <1>4. said'[h] = said[h]
    BY <1>1, <1>2, <1>3 DEF InHand
  <1> QED BY <1>1, <1>3, <1>4, InHandKept

LEMMA ToldAway == ASSUME TypeOK, ChangesAreTold, Away PROVE ChangesAreTold'
  <1>1. ASSUME NEW s \in Services, NEW x \in Contents, WatcherAdd(s, x) PROVE ChangesAreTold'
    BY <1>1, StoreIsTold DEF WatcherAdd, Goroutines
  <1>2. ASSUME NEW s \in Services, NEW x \in Contents, ResyncAdd(s, x) PROVE ChangesAreTold'
    BY <1>2, StoreIsTold DEF ResyncAdd, Goroutines
  <1>3. ASSUME NEW l \in Loops, NEW s \in Services, NEW x \in Contents, Beat(l, s, x)
        PROVE  ChangesAreTold'
    BY <1>3, StoreIsTold DEF Beat, Goroutines
  <1>4. ASSUME NEW s \in Services, WatcherLook(s) PROVE ChangesAreTold'
    <2>1. /\ said[Handler] = Silent /\ UNCHANGED <<catalog, untold>>
          /\ \A h \in Goroutines : h # Handler => said'[h] = said[h]
      BY <1>4 DEF WatcherLook, Say, TypeOK
    <2>2. ASSUME NEW h \in Goroutines, NEW r, InHand(h, r) PROVE InHand(h, r)'
      <3>1. h # Handler
        BY <2>1, <2>2 DEF InHand
      <3> QED BY <2>1, <2>2, <3>1, InHandKept
    <2> QED BY <2>1, <2>2 DEF ChangesAreTold
  <1>5. CASE LoseEvent
    <2>1. UNCHANGED <<catalog, said, untold>>
      BY <1>5 DEF LoseEvent, clusterVars
    <2> QED BY <2>1 DEF ChangesAreTold, InHand, Tells
  <1>6. ASSUME NEW g \in Goroutines, Speak(g) PROVE ChangesAreTold'
    BY <1>6, RemovalIsTold, ReadingIsTold, PublishingIsTold DEF Speak
  <1> QED BY <1>1, <1>2, <1>3, <1>4, <1>5, <1>6 DEF Away, Publishers

(* A step away from the page leaves the claims about every service that is *)
(* not afoot after it, unless it uses up its last event.                   *)
LEMMA CardsKept ==
    ASSUME TypeOK, CardsInv, ChangesAreTold',
           UNCHANGED <<ready, wire, cards, fetch, snapshot>>,
           unseen \subseteq unseen', fetch = "answered" => since \subseteq since',
           \A r \in Services : r \notin Afoot' =>
               \/ r \notin Afoot /\ catalog'[r] = catalog[r]
               \/ r \in unseen' /\ (fetch = "answered" => r \in since')
    PROVE  CardsInv'
  <1> USE DEF CardsInv
  <1>1. OnWire' = OnWire
    BY DEF OnWire
  <1>2. WireEndsAtView'
    <2> SUFFICES ASSUME NEW i \in DOMAIN wire, LastIn(wire, i), wire[i].svc \notin Afoot',
                        wire[i].svc \notin unseen'
                 PROVE  Upsert(wire[i]) = View(wire[i].svc)'
      BY UpsertConstant DEF WireEndsAtView, LastIn
    <2>1. wire[i].svc \in Services
      BY WireType DEF Events
    <2> QED BY <2>1, ViewConstant DEF WireEndsAtView
  <1>3. AnswerIsView' /\ ListIsView'
    BY <1>1, ViewConstant DEF AnswerIsView, ListIsView
  <1>4. AnsweredWhenLetIn'
    BY DEF AnsweredWhenLetIn, LetIn
  <1> QED BY <1>2, <1>3, <1>4

LEMMA CardsAway == ASSUME TypeOK, CardsInv, Away PROVE CardsInv'
  <1>1. ChangesAreTold' /\ UNCHANGED <<ready, wire, cards, fetch, snapshot>>
    BY ToldAway, AwayFromPage DEF CardsInv
  <1> DEFINE Kept ==
        /\ unseen \subseteq unseen' /\ (fetch = "answered" => since \subseteq since')
        /\ \A r \in Services : r \notin Afoot' =>
               \/ r \notin Afoot /\ catalog'[r] = catalog[r]
               \/ r \in unseen' /\ (fetch = "answered" => r \in since')
  <1>2. ASSUME NEW s \in Services, NEW x, Store(s, x), UNCHANGED <<bus, unseen, since>>
        PROVE  Kept
    <2>1. /\ untold \subseteq untold'
          /\ \A r \in Services : catalog'[r] # catalog[r] => r \in untold'
      BY <1>2 DEF Store, TypeOK
    <2> QED BY <1>2, <2>1 DEF Afoot, OnBus, Svcs
  <1>3. ASSUME UNCHANGED <<catalog, untold, bus, unseen, since>> PROVE Kept
    BY <1>3 DEF Afoot, OnBus, Svcs
  <1>4. ASSUME NEW s \in Services, WatcherLook(s) PROVE Kept
    BY <1>3, <1>4 DEF WatcherLook
  <1>5. ASSUME NEW s \in Services, NEW x \in Contents,
               WatcherAdd(s, x) \/ ResyncAdd(s, x) \/ \E l \in Loops : Beat(l, s, x)
        PROVE  Kept
    BY <1>2, <1>5 DEF WatcherAdd, ResyncAdd, Beat
  <1>6. ASSUME LoseEvent PROVE Kept
    <2>1. bus \in Seq(Events) /\ bus # <<>> /\ bus' = Tail(bus) /\ Head(bus) = bus[1]
      BY <1>6 DEF LoseEvent, TypeOK
    <2>2. \A r \in OnBus \ OnBus' : r = Head(bus).svc
      <3>1. OnBus' = Svcs(Tail(bus))
        BY <2>1 DEF OnBus, Svcs
      <3> QED BY <2>1, <3>1, SvcsOfTail DEF OnBus
    <2>3. UNCHANGED <<catalog, untold>> /\ Missed({Head(bus).svc})
      BY <1>6 DEF LoseEvent, clusterVars
    <2> QED BY <2>2, <2>3 DEF Afoot, Missed, UsedUp
  <1>7. ASSUME NEW g \in Goroutines, Read(g) PROVE Kept
    BY <1>3, <1>7 DEF Read
  <1>8. ASSUME NEW g \in Goroutines, Publish(g) PROVE Kept
    <2> DEFINE s == said[g].svc
               e == [type |-> said[g].type, svc |-> said[g].svc, content |-> said[g].content]
    <2>1. e \in Events /\ s \in Services
      BY <1>8, SayingType DEF Publish
    <2>2. catalog' = catalog
      BY <1>8 DEF Publish
    <2>3. \/ bus' = Append(bus, e) /\ UNCHANGED <<unseen, since>> /\ untold \ {s} \subseteq untold'
          \/ bus' = bus /\ untold' = untold \ {s} /\ Missed({s})
          \/ bus' = bus /\ UNCHANGED <<untold, unseen, since>>
      BY <1>8 DEF Publish
    <2> HIDE DEF e
    <2>4. CASE bus' = Append(bus, e) /\ UNCHANGED <<unseen, since>> /\ untold \ {s} \subseteq untold'
      <3>1. e.svc = s
        BY DEF e
      <3>2. OnBus' = OnBus \cup {s}
        <4>1. OnBus' = Svcs(Append(bus, e)) /\ OnBus = Svcs(bus)
          BY <2>4 DEF OnBus, Svcs
        <4> QED BY <2>1, <3>1, <4>1, SvcsOfAppend DEF TypeOK
      <3> HIDE DEF s
      <3> QED BY <2>2, <2>4, <3>2 DEF Afoot
    <2>5. CASE bus' = bus /\ untold' = untold \ {s} /\ Missed({s})
      <3>1. OnBus' = OnBus
        BY <2>5 DEF OnBus, Svcs
      <3> HIDE DEF s
      <3> QED BY <2>2, <2>5, <3>1 DEF Afoot, Missed, UsedUp
    <2> QED BY <1>3, <2>2, <2>3, <2>4, <2>5
  <1>9. ASSUME WatcherRemove, Handler \in Goroutines PROVE Kept
    <2> DEFINE s == said[Handler].svc
    <2>1. s \in Services
      BY <1>9, SayingType DEF WatcherRemove
    <2>2. bus' = bus
      BY <1>9 DEF WatcherRemove
    <2>3. CASE said[Handler].content # Gone
      BY <1>2, <1>9, <2>1, <2>2, <2>3 DEF WatcherRemove
    <2>4. CASE said[Handler].content = Gone
      <3>1. /\ catalog' = [catalog EXCEPT ![s] = Gone]
            /\ IF catalog[s] = Gone THEN UNCHANGED <<untold, unseen, since>>
               ELSE untold' = untold \ {s} /\ Missed({s})
        BY <1>9, <2>4 DEF WatcherRemove
      <3>2. OnBus' = OnBus
        BY <2>2 DEF OnBus, Svcs
      <3> HIDE DEF s
      <3>3. \A r \in Services : r # s \/ catalog[s] = Gone => catalog'[r] = catalog[r]
        BY <2>1, <3>1 DEF TypeOK
      <3> QED BY <3>1, <3>2, <3>3 DEF Afoot, Missed, UsedUp
    <2> QED BY <2>3, <2>4
  <1>10. Kept
    BY <1>4, <1>5, <1>6, <1>7, <1>8, <1>9 DEF Away, Publishers, Speak
  <1> QED BY <1>1, <1>10, CardsKept

(* The hub takes an event off the bus and writes it, or it is not for the  *)
(* page.                                                                   *)
LEMMA CardsDispatch == ASSUME TypeOK, CardsInv, Dispatch PROVE CardsInv'
  <1> USE DEF CardsInv
  <1> DEFINE e == Head(bus)
  <1>1. /\ bus \in Seq(Events) /\ bus # <<>> /\ bus' = Tail(bus) /\ wire \in Seq(Events)
        /\ UNCHANGED <<ready, catalog, said, untold, cards, fetch, snapshot>>
    BY DEF Dispatch, TypeOK, clusterVars, fetchVars
  <1>2. 1 \in DOMAIN bus /\ e = bus[1]
    BY <1>1
  <1>3. e \in Events /\ e.svc \in Services /\ e.content \in Contents /\ e.svc \in OnBus
    BY <1>1, <1>2, EventOfQueue DEF OnBus, Svcs
  <1>4. Afoot' \subseteq Afoot /\ \A r \in Afoot \ Afoot' : r = e.svc
    <2>1. OnBus' = Svcs(Tail(bus))
      BY <1>1 DEF OnBus, Svcs
    <2>2. OnBus' \subseteq OnBus /\ \A r \in OnBus \ OnBus' : r = e.svc
      BY <1>1, <1>2, <2>1, SvcsOfTail DEF OnBus
    <2> QED BY <1>1, <2>2 DEF Afoot
  <1>5. \A s : View(s)' = View(s)
    BY <1>1, ViewConstant
  <1>6. ChangesAreTold'
    BY <1>1 DEF ChangesAreTold, InHand, Tells
  <1>7. AnsweredWhenLetIn'
    BY <1>1 DEF AnsweredWhenLetIn, LetIn
  <1> HIDE DEF e
  <1>8. CASE MaySee(e.content) /\ wire' = Append(wire, e) /\ since' = since
             /\ unseen' = IF Tells(e) = catalog[e.svc] THEN unseen \ {e.svc}
                          ELSE unseen \cup {e.svc}
    <2>1. OnWire' = OnWire \cup {e.svc}
      <3>1. OnWire' = Svcs(Append(wire, e)) /\ OnWire = Svcs(wire)
        BY <1>8 DEF OnWire, Svcs
      <3> QED BY <1>1, <1>3, <3>1, SvcsOfAppend
    <2>2. AnswerIsView' /\ ListIsView'
      BY <1>1, <1>4, <1>5, <1>8, <2>1 DEF AnswerIsView, ListIsView
    <2>3. WireEndsAtView'
      <3> SUFFICES ASSUME NEW i, LastIn(wire', i), wire'[i].svc \notin Afoot',
                          wire'[i].svc \notin unseen'
                   PROVE  Upsert(wire'[i]) = View(wire'[i].svc)
        BY <1>5, UpsertConstant DEF WireEndsAtView, LastIn
      <3>1. CASE wire'[i] = e
        <4>1. Tells(e) = catalog[e.svc]
          BY <1>8, <3>1
        <4>2. Entitled(e.content)
          BY <1>3, <1>8, SeenIsEntitled
        <4> QED BY <3>1, <4>1, <4>2 DEF Upsert, Tells, View
      <3>2. CASE LastIn(wire, i) /\ wire'[i] = wire[i] /\ wire[i].svc # e.svc
        <4>1. i \in DOMAIN wire
          BY <3>2 DEF LastIn
        <4> QED BY <1>4, <1>8, <3>2, <4>1 DEF WireEndsAtView
      <3>3. LastIn(Append(wire, e), i)
        BY <1>8, Zenon
      <3>4. wire \in Seq(Events) /\ e \in Events
        BY <1>1, <1>3
      <3>5. \A j : LastIn(Append(wire, e), j) =>
                \/ Append(wire, e)[j] = e
                \/ LastIn(wire, j) /\ Append(wire, e)[j] = wire[j] /\ wire[j].svc # e.svc
        BY <3>4, LastOfAppend
      <3> QED BY <1>8, <3>1, <3>2, <3>3, <3>5, Zenon
    <2> QED BY <1>6, <1>7, <2>2, <2>3
  <1>9. CASE wire' = wire /\ Missed({e.svc})
    <2>1. unseen \subseteq unseen' /\ (fetch = "answered" => since \subseteq since')
      BY <1>9 DEF Missed, UsedUp
    <2>2. ASSUME NEW r \in Services, r \notin Afoot'
          PROVE  \/ r \notin Afoot /\ catalog'[r] = catalog[r]
                 \/ r \in unseen' /\ (fetch = "answered" => r \in since')
      BY <1>1, <1>4, <1>9, <2>2 DEF Missed, UsedUp
    <2> QED BY <1>1, <1>6, <1>9, <2>1, <2>2, CardsKept
  <1> QED BY <1>8, <1>9, Zenon DEF Dispatch, e

(* The page takes a frame off the wire and changes the card.               *)
LEMMA CardsMessage == ASSUME TypeOK, CardsInv, OnMessage PROVE CardsInv'
  <1> USE DEF CardsInv
  <1> DEFINE e == Head(wire)
  <1>1. /\ wire \in Seq(Events) /\ wire # <<>> /\ wire' = Tail(wire)
        /\ UNCHANGED <<ready, catalog, said, untold, bus, fetch, snapshot, unseen>>
        /\ since' = UsedUp({e.svc})
        /\ cards' = [cards EXCEPT ![e.svc] = Upsert(e)]
    BY DEF OnMessage, TypeOK, clusterVars, fetchVars
  <1>2. 1 \in DOMAIN wire /\ e = wire[1]
    BY <1>1
  <1>3. e.svc \in OnWire
    BY <1>2 DEF OnWire
  <1>4. /\ OnWire' \subseteq OnWire /\ Afoot' = Afoot
        /\ \A r \in OnWire \ OnWire' : LastIn(wire, 1) /\ r = e.svc
    <2>1. OnWire' = Svcs(Tail(wire)) /\ OnWire = Svcs(wire) /\ Afoot' = Afoot
      BY <1>1 DEF OnWire, OnBus, Afoot, Svcs
    <2> QED BY <1>1, <1>2, <2>1, SvcsOfTail
  <1>5. \A s : View(s)' = View(s)
    BY <1>1, ViewConstant
  <1>6. ChangesAreTold' /\ AnsweredWhenLetIn'
    BY <1>1 DEF ChangesAreTold, InHand, Tells, AnsweredWhenLetIn, LetIn
  <1>7. WireEndsAtView'
    <2> SUFFICES ASSUME NEW i, LastIn(wire', i), wire'[i].svc \notin Afoot,
                        wire'[i].svc \notin unseen
                 PROVE  Upsert(wire'[i]) = View(wire'[i].svc)
      BY <1>1, <1>4, <1>5, UpsertConstant DEF WireEndsAtView, LastIn
    <2>1. LastIn(wire, i + 1) /\ wire'[i] = wire[i + 1]
      BY <1>1, LastOfTail
    <2> QED BY <2>1 DEF WireEndsAtView, LastIn
  <1> HIDE DEF e
  <1>8. AnswerIsView'
    BY <1>1, <1>4, <1>5 DEF AnswerIsView, UsedUp
  <1>9. ListIsView'
    <2> SUFFICES ASSUME fetch = "applied", NEW s \in Services, s \notin unseen, s \notin Afoot,
                        s \notin OnWire'
                 PROVE  cards'[s] = View(s)
      BY <1>1, <1>4, <1>5 DEF ListIsView
    <2>1. CASE s \notin OnWire
      BY <1>1, <1>3, <2>1 DEF ListIsView, TypeOK
    <2>2. CASE s \in OnWire
      <3>1. LastIn(wire, 1) /\ s = e.svc
        BY <1>4, <2>2
      <3>2. Upsert(e) = View(s)
        BY <1>2, <3>1 DEF WireEndsAtView
      <3> QED BY <1>1, <3>1, <3>2 DEF TypeOK
    <2> QED BY <2>1, <2>2
  <1> QED BY <1>6, <1>7, <1>8, <1>9

(* A lost socket takes its frames with it.                                 *)
LEMMA CardsBreak == ASSUME TypeOK, CardsInv, Break PROVE CardsInv'
  <1> USE DEF CardsInv
  <1>1. /\ UNCHANGED <<ready, catalog, said, untold, bus, cards, fetch, snapshot>>
        /\ wire' = <<>> /\ unseen' = unseen \cup OnWire /\ since' = UsedUp(OnWire)
    BY DEF Break, Missed, clusterVars, fetchVars
  <1>2. Afoot' = Afoot /\ OnWire' = {} /\ \A s : View(s)' = View(s)
    BY <1>1, ViewConstant DEF OnBus, OnWire, Afoot, Svcs
  <1>3. ChangesAreTold' /\ WireEndsAtView' /\ AnsweredWhenLetIn'
    BY <1>1, UpsertConstant DEF ChangesAreTold, InHand, Tells, WireEndsAtView, LastIn,
       AnsweredWhenLetIn, LetIn
  <1>4. AnswerIsView' /\ ListIsView'
    BY <1>1, <1>2 DEF AnswerIsView, ListIsView, UsedUp
  <1> QED BY <1>3, <1>4

(* The list is the view when the cache is read, and replaces the cards.    *)
LEMMA CardsFetch ==
    ASSUME TypeOK, CardsInv, FetchRefused \/ FetchPins \/ FetchNoPins \/ FetchCatalog \/ FetchApply
    PROVE  CardsInv'
  <1> USE DEF CardsInv
  <1>1. /\ UNCHANGED <<ready, catalog, said, untold, bus, wire>>
        /\ Afoot' = Afoot /\ OnWire' = OnWire /\ \A s : View(s)' = View(s)
        /\ ChangesAreTold'
    <2>1. UNCHANGED <<ready, catalog, said, untold, bus, wire>>
      BY DEF FetchRefused, FetchPins, FetchNoPins, FetchCatalog, FetchApply, clusterVars, socketVars
    <2>2. Afoot' = Afoot /\ OnWire' = OnWire /\ \A s : View(s)' = View(s)
      BY <2>1, ViewConstant DEF OnBus, OnWire, Afoot, Svcs
    <2> QED BY <2>1, <2>2 DEF ChangesAreTold, InHand, Tells
  <1>2. AnsweredWhenLetIn'
    <2>1. CASE FetchPins
      <3>1. LetIn
        BY <2>1, LetInWhenReady, Zenon DEF FetchPins
      <3> QED BY <1>1, <3>1 DEF AnsweredWhenLetIn, LetIn
    <2>2. CASE FetchNoPins
      <3>1. ExtractAndValidateJWT(Me, ready) = "authenticated"
        BY <2>2, Zenon DEF FetchNoPins, Authenticated
      <3>2. LetIn
        BY <3>1, Zenon DEF LetIn, ExtractAndValidateJWT
      <3> QED BY <1>1, <3>2 DEF AnsweredWhenLetIn, LetIn
    <2>3. CASE FetchRefused
      <3>1. fetch' = "failed"
        BY <2>3, Zenon DEF FetchRefused
      <3> QED BY <3>1 DEF AnsweredWhenLetIn
    <2>4. CASE FetchCatalog \/ FetchApply
      BY <1>1, <2>4 DEF FetchCatalog, FetchApply, AnsweredWhenLetIn, LetIn
    <2> QED BY <2>1, <2>2, <2>3, <2>4
  <1>3. CASE FetchRefused \/ FetchPins \/ FetchNoPins
    <2>1. fetch' \in {"failed", "pins"} /\ unseen' = unseen
      BY <1>3, Zenon DEF FetchRefused, FetchPins, FetchNoPins
    <2>2. WireEndsAtView'
      BY <1>1, <2>1, UpsertConstant DEF WireEndsAtView, LastIn
    <2> QED BY <1>1, <1>2, <2>1, <2>2 DEF AnswerIsView, ListIsView
  <1>4. CASE FetchCatalog
    <2>1. /\ fetch = "pins" /\ fetch' = "answered" /\ unseen' = unseen
          /\ snapshot' = [s \in Services |->
                 IF catalog[s] # Gone /\ MaySee(catalog[s]) THEN catalog[s] ELSE Gone]
      BY <1>4 DEF FetchCatalog
    <2>2. ASSUME NEW s \in Services PROVE snapshot'[s] = View(s)
      <3>1. catalog[s] # Gone => (MaySee(catalog[s]) <=> Entitled(catalog[s]))
        BY <2>1, EntitledIsSeen DEF AnsweredWhenLetIn, TypeOK
      <3> QED BY <2>1, <3>1 DEF View
    <2>3. WireEndsAtView'
      BY <1>1, <2>1, UpsertConstant DEF WireEndsAtView, LastIn
    <2> QED BY <1>1, <1>2, <2>1, <2>2, <2>3 DEF AnswerIsView, ListIsView
  <1>5. CASE FetchApply
    <2>1. /\ fetch = "answered" /\ fetch' = "applied" /\ cards' = snapshot
          /\ unseen' = (since \ OnWire) \cup (unseen \cap OnWire)
      BY <1>5 DEF FetchApply
    <2>2. AnswerIsView' /\ ListIsView'
      BY <1>1, <2>1 DEF AnswerIsView, ListIsView
    <2>3. WireEndsAtView'
      <3>1. \A i \in DOMAIN wire : wire[i].svc \in OnWire
        BY DEF OnWire
      <3> QED BY <1>1, <2>1, <3>1, UpsertConstant DEF WireEndsAtView, LastIn
    <2> QED BY <1>1, <1>2, <2>2, <2>3
  <1> QED BY <1>3, <1>4, <1>5

LEMMA CardsStep == ASSUME TypeOK, CardsInv, [Next]_vars PROVE CardsInv'
  <1>1. CASE \E t \in Toggles : Toggle(t)
    BY <1>1, CardsUnchanged DEF Toggle, Click, PinByUID, ClickOk, ClickFails, clusterVars,
       socketVars, fetchVars, cardVars, LetIn
  <1>2. CASE ValidatorReady \/ Connect \/ UNCHANGED vars
    BY <1>2, CardsUnchanged DEF ValidatorReady, Connect, vars, clusterVars, socketVars, fetchVars,
       cardVars, LetIn
  <1> QED BY <1>1, <1>2, CardsAway, CardsDispatch, CardsMessage, CardsBreak, CardsFetch
          DEF Next, Away, Server, Page

(* Once all that goroutines had to publish has arrived, the page shows the *)
(* catalog as its user may see it, but for the services whose last event   *)
(* did not reach the list: however changes, readings and publications of   *)
(* any number of goroutines interleave, and whatever Redis and the socket  *)
(* lose.                                                                   *)
THEOREM CardsFollowCatalog == Spec => []CardsAreCurrent
  <1>1. ASSUME Init PROVE CardsInv
    BY <1>1 DEF Init, CardsInv, ChangesAreTold, WireEndsAtView, AnswerIsView, ListIsView,
       AnsweredWhenLetIn, LastIn
  <1>2. TypeOK /\ CardsInv /\ [Next]_vars => CardsInv'
    BY CardsStep
  <1>3. CardsInv => CardsAreCurrent
    <2> SUFFICES ASSUME CardsInv, fetch = "applied", bus = <<>>, wire = <<>>,
                        \A g \in Goroutines : said[g] = Silent
                 PROVE  \A s \in Services \ unseen : cards[s] = View(s)
      BY DEF CardsAreCurrent
    <2>1. untold = {}
      BY DEF CardsInv, ChangesAreTold, InHand
    <2> QED BY <2>1 DEF CardsInv, ListIsView, Afoot, OnBus, OnWire, Svcs
  <1> QED BY <1>1, <1>2, <1>3, TypeCorrect, PTL DEF Spec
=============================================================================
