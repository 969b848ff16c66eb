---------------------------- MODULE WatcherProofs ----------------------------
(***************************************************************************)
(* Proofs about Watcher, for any apps, contents and bounds.                *)
(***************************************************************************)
EXTENDS Watcher, TLAPS, FiniteSetTheorems

-----------------------------------------------------------------------------
(* The two ends of a queue of events.                                      *)

LEMMA Appended ==
    ASSUME NEW S, NEW q \in Seq(S), NEW e \in S
    PROVE  /\ Append(q, e) \in Seq(S) /\ Append(q, e) # <<>>
           /\ Append(q, e)[Len(Append(q, e))] = e
           /\ Head(Append(q, e)) = IF q = <<>> THEN e ELSE Head(q)
  OBVIOUS

LEMMA Taken ==
    ASSUME NEW S, NEW q \in Seq(S), q # <<>>
    PROVE  /\ Head(q) \in S /\ Tail(q) \in Seq(S)
           /\ Tail(q) = <<>> => Head(q) = q[Len(q)]
  <1>1. Len(q) \in Nat /\ Len(q) > 0 /\ Len(Tail(q)) = Len(q) - 1 /\ Head(q) = q[1]
    OBVIOUS
  <1>2. Len(<<>>) = 0
    OBVIOUS
  <1>3. ASSUME Tail(q) = <<>> PROVE Len(q) = 1
    <2>1. Len(Tail(q)) = 0 BY <1>2, <1>3, Zenon
    <2>2. \A n \in Nat : 0 = n - 1 => n = 1 OBVIOUS
    <2> QED BY <1>1, <2>1, <2>2, Zenon
  <1>4. Head(q) \in S /\ Tail(q) \in Seq(S)
    OBVIOUS
  <1> QED BY <1>1, <1>3, <1>4

(* Every step keeps the types; the goroutine that is at work has an app,   *)
(* and a consent it found is one of a cross-namespace app.                 *)
LEMMA TypeStep == ASSUME IInv, [Next]_vars PROVE TypeOK'
  <1> USE AppAssumption, ValueAssumption, BoundAssumption
      DEF IInv, TypeOK, Object, Workers, Nothing, clusterVars, informerVars,
          cacheVars, workVars, historyVars
  <1>1. ASSUME NEW u \in Apps, NEW o \in Object \cup {Gone}, Change(u, o) PROVE TypeOK'
    BY <1>1 DEF Change
  <1>2. ASSUME NEW u \in Apps, ChangeGrant(u) PROVE TypeOK'
    BY <1>2 DEF ChangeGrant
  <1>3. CASE SyncInitial
    BY <1>3 DEF SyncInitial, Listed
  <1>4. CASE Watch
    <2>1. ASSUME NEW u \in Apps PROVE events'[u] \in Seq(Object \cup {Gone})
      <3>1. CASE cluster[u] \in Object
        <4>1. events'[u] = <<cluster[u]>> BY <1>4, <3>1 DEF Watch
        <4> QED BY <3>1, <4>1
      <3>2. CASE cluster[u] \notin Object BY <1>4, <3>2 DEF Watch
      <3> QED BY <3>1, <3>2
    <2> QED BY <1>4, <2>1 DEF Watch
  <1>5. CASE WatchReferenceGrants
    <2>1. Cardinality(grants) \in Nat
      BY FS_Subset, FS_CardinalityType
    <2> QED BY <1>5, <2>1 DEF WatchReferenceGrants
  <1>6. CASE ResyncList
    BY <1>6 DEF ResyncList, Listed
  <1>7. ASSUME NEW w \in Workers, NEW u \in Apps, NextItem(w, u) PROVE TypeOK'
    BY <1>7 DEF NextItem, TakeUp
  <1>8. ASSUME NEW u \in Apps, HandleEvent(u) PROVE TypeOK'
    BY <1>8 DEF HandleEvent, TakeUp
  <1>9. ASSUME NEW w \in Workers, ToApp(w) PROVE TypeOK'
    <2>1. (item[w] \in grants) \in BOOLEAN OBVIOUS
    <2>3. \E b \in BOOLEAN : consent' = [consent EXCEPT ![w] = b]
      BY <1>9, <2>1, Zenon DEF ToApp
    <2>2. consent' \in [Workers -> BOOLEAN] BY <2>3
    <2> QED BY <1>9, <2>2 DEF ToApp, GoTo
  <1>10. ASSUME NEW w \in Workers, CacheAdd(w) PROVE TypeOK'
    <2>1. item[w] \in Apps BY <1>10 DEF CacheAdd, WorkersInOrder
    <2>2. allowed' \subseteq CrossNs
      BY <1>10, <2>1 DEF CacheAdd, ConsentInv
    <2>3. services' \in [Apps -> Specs \cup {None}]
      BY <1>10, <2>1 DEF CacheAdd
    <2>4. CASE kind[w] = "initial"
      <3>1. Return(w) BY <1>10, <2>4 DEF CacheAdd
      <3>2. UNCHANGED <<clusterVars, phase, initialUIDs, informerVars, board, notice, historyVars>>
        BY <1>10 DEF CacheAdd
      <3> QED BY <2>2, <2>3, <3>1, <3>2 DEF Return
    <2>5. CASE kind[w] # "initial" BY <1>10, <2>2, <2>3, <2>5 DEF CacheAdd, GoTo
    <2> QED BY <2>4, <2>5
  <1>11. ASSUME NEW w \in Workers, CacheGet(w) PROVE TypeOK'
    <2>1. item[w] \in Apps BY <1>11 DEF CacheGet, WorkersInOrder
    <2>2. services[item[w]] \in Specs \cup {None} BY <2>1
    <2> QED BY <1>11, <2>2 DEF CacheGet, GoTo
  <1>12. ASSUME NEW w \in Workers, Publish(w) PROVE TypeOK'
    BY <1>12 DEF Publish, Return
  <1>13. CASE Lookup("apps")
    <2>1. item["apps"] \in Apps BY <1>13 DEF Lookup, WorkersInOrder
    <2>2. services[item["apps"]] \in Specs \cup {None} BY <2>1
    <2> QED BY <1>13, <2>2 DEF Lookup, GoTo
  <1>14. CASE CacheRemove("apps")
    BY <1>14 DEF CacheRemove, GoTo
  <1>15. CASE SayGoodbye("apps")
    BY <1>15 DEF SayGoodbye, Return
  <1>16. CASE UNCHANGED vars BY <1>16 DEF vars
  <1> QED
    BY <1>1, <1>2, <1>3, <1>4, <1>5, <1>6, <1>7, <1>8,
       <1>9, <1>10, <1>11, <1>12, <1>13, <1>14, <1>15, <1>16
    DEF Next, ClusterStep, AppsStep, GrantsStep, WorkerStep, Remover

(* Every step keeps the goroutines in order: the resync never looks up or  *)
(* removes, and nothing is published before the informer has listed.       *)
LEMMA WorkersStep == ASSUME IInv, [Next]_vars PROVE WorkersInOrder'
  <1> USE AppAssumption, ValueAssumption, BoundAssumption
      DEF IInv, TypeOK, Object, Workers, Nothing, clusterVars, informerVars,
          cacheVars, workVars, historyVars, WorkersInOrder, Starting
  <1>1. ASSUME NEW u \in Apps, NEW o \in Object \cup {Gone}, Change(u, o) PROVE WorkersInOrder'
    BY <1>1 DEF Change
  <1>2. ASSUME NEW u \in Apps, ChangeGrant(u) PROVE WorkersInOrder'
    BY <1>2 DEF ChangeGrant
  <1>3. CASE SyncInitial
    BY <1>3 DEF SyncInitial, Listed
  <1>4. CASE Watch
    BY <1>4 DEF Watch
  <1>5. CASE WatchReferenceGrants
    BY <1>5 DEF WatchReferenceGrants
  <1>6. CASE ResyncList
    BY <1>6 DEF ResyncList, Listed
  <1>7. ASSUME NEW w \in Workers, NEW u \in Apps, NextItem(w, u) PROVE WorkersInOrder'
    BY <1>7 DEF NextItem, TakeUp
  <1>8. ASSUME NEW u \in Apps, HandleEvent(u) PROVE WorkersInOrder'
    BY <1>8 DEF HandleEvent, TakeUp
  <1>9. ASSUME NEW w \in Workers, ToApp(w) PROVE WorkersInOrder'
    BY <1>9 DEF ToApp, GoTo
  <1>10. ASSUME NEW w \in Workers, CacheAdd(w) PROVE WorkersInOrder'
    BY <1>10 DEF CacheAdd, GoTo, Return
  <1>11. ASSUME NEW w \in Workers, CacheGet(w) PROVE WorkersInOrder'
    BY <1>11 DEF CacheGet, GoTo
  <1>12. ASSUME NEW w \in Workers, Publish(w) PROVE WorkersInOrder'
    BY <1>12 DEF Publish, Return
  <1>13. CASE Lookup("apps")
    BY <1>13 DEF Lookup, GoTo
  <1>14. CASE CacheRemove("apps")
    BY <1>14 DEF CacheRemove, GoTo
  <1>15. CASE SayGoodbye("apps")
    BY <1>15 DEF SayGoodbye, Return
  <1>16. CASE UNCHANGED vars BY <1>16 DEF vars
  <1> QED
    BY <1>1, <1>2, <1>3, <1>4, <1>5, <1>6, <1>7, <1>8,
       <1>9, <1>10, <1>11, <1>12, <1>13, <1>14, <1>15, <1>16
    DEF Next, ClusterStep, AppsStep, GrantsStep, WorkerStep, Remover

(* The last event waiting tells the present state of its app.              *)
LEMMA EventsStep == ASSUME IInv, [Next]_vars PROVE EventsEndAtCluster'
  <1> USE AppAssumption, ValueAssumption, BoundAssumption
      DEF IInv, TypeOK, Object, Workers, Nothing, clusterVars, informerVars,
          cacheVars, workVars, historyVars, EventsEndAtCluster, WorkersInOrder,
          Starting
  <1>1. ASSUME NEW u \in Apps, NEW o \in Object \cup {Gone}, Change(u, o) PROVE EventsEndAtCluster'
    BY <1>1 DEF Change
  <1>2. ASSUME NEW u \in Apps, ChangeGrant(u) PROVE EventsEndAtCluster'
    BY <1>2 DEF ChangeGrant
  <1>3. CASE SyncInitial
    BY <1>3 DEF SyncInitial, Listed
  <1>4. CASE Watch
    BY <1>4 DEF Watch
  <1>5. CASE WatchReferenceGrants
    BY <1>5 DEF WatchReferenceGrants
  <1>6. CASE ResyncList
    BY <1>6 DEF ResyncList, Listed
  <1>7. ASSUME NEW w \in Workers, NEW u \in Apps, NextItem(w, u) PROVE EventsEndAtCluster'
    BY <1>7 DEF NextItem, TakeUp
  <1>8. ASSUME NEW u \in Apps, HandleEvent(u) PROVE EventsEndAtCluster'
    BY <1>8 DEF HandleEvent, TakeUp
  <1>9. ASSUME NEW w \in Workers, ToApp(w) PROVE EventsEndAtCluster'
    BY <1>9 DEF ToApp, GoTo
  <1>10. ASSUME NEW w \in Workers, CacheAdd(w) PROVE EventsEndAtCluster'
    BY <1>10 DEF CacheAdd, GoTo, Return
  <1>11. ASSUME NEW w \in Workers, CacheGet(w) PROVE EventsEndAtCluster'
    BY <1>11 DEF CacheGet, GoTo
  <1>12. ASSUME NEW w \in Workers, Publish(w) PROVE EventsEndAtCluster'
    BY <1>12 DEF Publish, Return
  <1>13. CASE Lookup("apps")
    BY <1>13 DEF Lookup, GoTo
  <1>14. CASE CacheRemove("apps")
    BY <1>14 DEF CacheRemove, GoTo
  <1>15. CASE SayGoodbye("apps")
    BY <1>15 DEF SayGoodbye, Return
  <1>16. CASE UNCHANGED vars BY <1>16 DEF vars
  <1> QED
    BY <1>1, <1>2, <1>3, <1>4, <1>5, <1>6, <1>7, <1>8,
       <1>9, <1>10, <1>11, <1>12, <1>13, <1>14, <1>15, <1>16
    DEF Next, ClusterStep, AppsStep, GrantsStep, WorkerStep, Remover

(* Only the NebariApp handler touches an app of its own namespace, and it  *)
(* ends where the last event says.                                         *)
LEMMA CatalogStep == ASSUME IInv, [Next]_vars PROVE CatalogInv'
  <1> USE AppAssumption, ValueAssumption, BoundAssumption
      DEF IInv, TypeOK, Object, Workers, Nothing, clusterVars, informerVars,
          cacheVars, workVars, historyVars, CatalogInv, HandlerFollowsEvent,
          CatalogApproachesCluster, Due, EventsEndAtCluster, WorkersInOrder, Starting
  <1>1. ASSUME NEW u \in Apps, NEW o \in Object \cup {Gone}, Change(u, o) PROVE CatalogInv'
    <2> SUFFICES ASSUME ~Starting, NEW v \in Apps \ (CrossNs \cup ghosts)
                 PROVE  HandlerFollowsEvent(v)' /\ CatalogApproachesCluster(v)'
      BY <1>1 DEF Change
    <2>1. CASE v # u BY <1>1, <2>1 DEF Change
    <2>2. CASE v = u
      <3>1. /\ events'[v] = Append(events[v], o) /\ events'[v] # <<>>
            /\ Head(events'[v]) = IF events[v] = <<>> THEN o ELSE Head(events[v])
        <4> DEFINE S == Object \cup {Gone}
        <4>1. events[v] \in Seq(S) /\ o \in S /\ events'[v] = Append(events[v], o)
          BY <1>1, <2>2 DEF Change
        <4> HIDE DEF S
        <4>2. /\ Append(events[v], o) # <<>>
              /\ Head(Append(events[v], o)) = IF events[v] = <<>> THEN o ELSE Head(events[v])
          BY <4>1, Appended
        <4> QED BY <4>1, <4>2, Zenon
      <3>2. HandlerFollowsEvent(v)' BY <1>1, <2>2 DEF Change
      <3>3. v \notin known => v # item["apps"]
        OBVIOUS
      <3> QED BY <1>1, <2>2, <3>1, <3>2, <3>3 DEF Change
    <2> QED BY <2>1, <2>2
  <1>2. ASSUME NEW u \in Apps, ChangeGrant(u) PROVE CatalogInv'
    BY <1>2 DEF ChangeGrant
  <1>3. CASE SyncInitial
    BY <1>3 DEF SyncInitial, Listed
  <1>4. CASE Watch
    BY <1>4 DEF Watch
  <1>5. CASE WatchReferenceGrants
    BY <1>5 DEF WatchReferenceGrants
  <1>6. CASE ResyncList
    BY <1>6 DEF ResyncList, Listed
  <1>7. ASSUME NEW w \in Workers, NEW u \in Apps, NextItem(w, u) PROVE CatalogInv'
    BY <1>7 DEF NextItem, TakeUp
  <1>8. ASSUME NEW u \in Apps, HandleEvent(u) PROVE CatalogInv'
    <2> SUFFICES ASSUME NEW v \in Apps \ (CrossNs \cup ghosts)
                 PROVE  HandlerFollowsEvent(v)' /\ CatalogApproachesCluster(v)'
      BY <1>8 DEF HandleEvent
    <2>1. /\ pc["apps"] = "idle" /\ item["apps"] = NoApp /\ v # NoApp /\ ~Starting
      BY <1>8 DEF HandleEvent
    <2>2. CASE v # u BY <1>8, <2>1, <2>2 DEF HandleEvent, TakeUp
    <2>3. CASE v = u
      <3> DEFINE o == Head(events[u])
      <3>1. /\ events' = [events EXCEPT ![u] = Tail(@)] /\ known' = known \cup {u}
            /\ services' = services /\ board' = board /\ cluster' = cluster
        BY <1>8 DEF HandleEvent
      <3>2. events'[u] = <<>> => o = cluster[u]
        <4> DEFINE S == Object \cup {Gone}
        <4>1. /\ events[u] \in Seq(S) /\ events[u] # <<>> /\ events'[u] = Tail(events[u])
              /\ events[u][Len(events[u])] = cluster[u]
          BY <1>8, <3>1 DEF HandleEvent
        <4> HIDE DEF S
        <4> QED BY <4>1, Taken
      <3>3. services[u] = None => board[u] = None BY <2>1, <2>3
      <3> HIDE DEF o
      <3>4. CASE o \in Specs
        <4>1. item'["apps"] = u /\ pc'["apps"] = "toApp" /\ obj'["apps"] = o
          BY <1>8, <3>4 DEF HandleEvent, TakeUp, o
        <4> QED BY <2>3, <3>1, <3>2, <3>3, <3>4, <4>1
      <3>5. CASE o = Gone \/ (o = Off /\ u \in known)
        <4>1. item'["apps"] = u /\ pc'["apps"] = "lookup"
          BY <1>8, <3>5 DEF HandleEvent, TakeUp, o
        <4> QED BY <2>3, <3>1, <3>2, <3>3, <3>5, <4>1
      <3>6. CASE o = Off /\ u \notin known
        <4>1. item'["apps"] # u /\ events[u] # <<>>
          BY <1>8, <3>6, <2>1 DEF HandleEvent, TakeUp, o
        <4>2. services[u] = None BY <2>3, <2>1, <3>6, <4>1 DEF o
        <4> QED BY <2>3, <3>1, <3>2, <3>3, <3>6, <4>1, <4>2
      <3> QED BY <1>8, <3>4, <3>5, <3>6 DEF HandleEvent, o
    <2> QED BY <2>2, <2>3
  <1>9. ASSUME NEW w \in Workers, ToApp(w) PROVE CatalogInv'
    BY <1>9 DEF ToApp, GoTo
  <1>10. ASSUME NEW w \in Workers, CacheAdd(w) PROVE CatalogInv'
    BY <1>10 DEF CacheAdd, GoTo, Return
  <1>11. ASSUME NEW w \in Workers, CacheGet(w) PROVE CatalogInv'
    BY <1>11 DEF CacheGet, GoTo
  <1>12. ASSUME NEW w \in Workers, Publish(w) PROVE CatalogInv'
    BY <1>12 DEF Publish, Return
  <1>13. CASE Lookup("apps")
    BY <1>13 DEF Lookup, GoTo
  <1>14. CASE CacheRemove("apps")
    BY <1>14 DEF CacheRemove, GoTo
  <1>15. CASE SayGoodbye("apps")
    BY <1>15 DEF SayGoodbye, Return
  <1>16. CASE UNCHANGED vars BY <1>16 DEF vars
  <1> QED
    BY <1>1, <1>2, <1>3, <1>4, <1>5, <1>6, <1>7, <1>8,
       <1>9, <1>10, <1>11, <1>12, <1>13, <1>14, <1>15, <1>16
    DEF Next, ClusterStep, AppsStep, GrantsStep, WorkerStep, Remover

(* What was announced is in the cache until it is withdrawn.               *)
LEMMA NoticeStep == ASSUME IInv, [Next]_vars PROVE NoticeInv'
  <1> USE AppAssumption, ValueAssumption, BoundAssumption
      DEF IInv, TypeOK, Object, Workers, Nothing, clusterVars, informerVars,
          cacheVars, workVars, historyVars, NoticeInv, WorkersInOrder, Starting
  <1>1. ASSUME NEW u \in Apps, NEW o \in Object \cup {Gone}, Change(u, o) PROVE NoticeInv'
    BY <1>1 DEF Change
  <1>2. ASSUME NEW u \in Apps, ChangeGrant(u) PROVE NoticeInv'
    BY <1>2 DEF ChangeGrant
  <1>3. CASE SyncInitial
    BY <1>3 DEF SyncInitial, Listed
  <1>4. CASE Watch
    BY <1>4 DEF Watch
  <1>5. CASE WatchReferenceGrants
    BY <1>5 DEF WatchReferenceGrants
  <1>6. CASE ResyncList
    BY <1>6 DEF ResyncList, Listed
  <1>7. ASSUME NEW w \in Workers, NEW u \in Apps, NextItem(w, u) PROVE NoticeInv'
    BY <1>7 DEF NextItem, TakeUp
  <1>8. ASSUME NEW u \in Apps, HandleEvent(u) PROVE NoticeInv'
    BY <1>8 DEF HandleEvent, TakeUp
  <1>9. ASSUME NEW w \in Workers, ToApp(w) PROVE NoticeInv'
    BY <1>9 DEF ToApp, GoTo
  <1>10. ASSUME NEW w \in Workers, CacheAdd(w) PROVE NoticeInv'
    BY <1>10 DEF CacheAdd, GoTo, Return
  <1>11. ASSUME NEW w \in Workers, CacheGet(w) PROVE NoticeInv'
    BY <1>11 DEF CacheGet, GoTo
  <1>12. ASSUME NEW w \in Workers, Publish(w) PROVE NoticeInv'
    BY <1>12 DEF Publish, Return
  <1>13. CASE Lookup("apps")
    BY <1>13 DEF Lookup, GoTo
  <1>14. CASE CacheRemove("apps")
    BY <1>14 DEF CacheRemove, GoTo
  <1>15. CASE SayGoodbye("apps")
    BY <1>15 DEF SayGoodbye, Return
  <1>16. CASE UNCHANGED vars BY <1>16 DEF vars
  <1> QED
    BY <1>1, <1>2, <1>3, <1>4, <1>5, <1>6, <1>7, <1>8,
       <1>9, <1>10, <1>11, <1>12, <1>13, <1>14, <1>15, <1>16
    DEF Next, ClusterStep, AppsStep, GrantsStep, WorkerStep, Remover

(* A consent that no longer holds is overtaken or will be looked up again. *)
LEMMA ConsentStep == ASSUME IInv, [Next]_vars PROVE ConsentInv'
  <1> USE AppAssumption, ValueAssumption, BoundAssumption
      DEF IInv, TypeOK, Object, Workers, Nothing, clusterVars, informerVars,
          cacheVars, workVars, historyVars, ConsentInv, WillRefresh, WorkersInOrder,
          Starting
  <1>1. ASSUME NEW u \in Apps, NEW o \in Object \cup {Gone}, Change(u, o) PROVE ConsentInv'
    <2>1. ~Starting => events'[u] # <<>> BY <1>1, Appended DEF Change
    <2> QED BY <1>1, <2>1 DEF Change
  <1>2. ASSUME NEW u \in Apps, ChangeGrant(u) PROVE ConsentInv'
    BY <1>2 DEF ChangeGrant
  <1>3. CASE SyncInitial
    BY <1>3 DEF SyncInitial, Listed
  <1>4. CASE Watch
    BY <1>4 DEF Watch
  <1>5. CASE WatchReferenceGrants
    BY <1>5 DEF WatchReferenceGrants
  <1>6. CASE ResyncList
    BY <1>6 DEF ResyncList, Listed
  <1>7. ASSUME NEW w \in Workers, NEW u \in Apps, NextItem(w, u) PROVE ConsentInv'
    BY <1>7 DEF NextItem, TakeUp
  <1>8. ASSUME NEW u \in Apps, HandleEvent(u) PROVE ConsentInv'
    <2>1. /\ ~Starting /\ item["apps"] = NoApp /\ pc["apps"] = "idle"
          /\ \A w \in Workers : pc'[w] = "add" => /\ pc[w] = "add" /\ item'[w] = item[w]
                                                /\ consent'[w] = consent[w]
      BY <1>8 DEF HandleEvent, TakeUp
    <2>2. ASSUME NEW v \in allowed \ overtaken
          PROVE  v \in grants \/ cluster[v] \notin Specs \/ WillRefresh(v)'
      <3>1. CASE v # u
        BY <1>8, <2>1, <3>1 DEF HandleEvent, TakeUp
      <3>2. CASE v = u
        <4>1. events'[u] = Tail(events[u]) BY <1>8 DEF HandleEvent
        <4>2. events'[u] = <<>> => Head(events[u]) = cluster[u]
          <5>1. events[u] \in Seq(Object \cup {Gone}) /\ events[u] # <<>>
            BY <1>8 DEF HandleEvent
          <5> QED BY <4>1, <5>1, Taken DEF EventsEndAtCluster
        <4>3. Head(events[u]) \in Specs => item'["apps"] = u /\ pc'["apps"] = "toApp"
          BY <1>8 DEF HandleEvent, TakeUp
        <4> QED BY <3>2, <4>2, <4>3
      <3> QED BY <3>1, <3>2
    <2>3. UNCHANGED <<grants, overtaken, allowed, cluster>>
      BY <1>8 DEF HandleEvent, clusterVars, cacheVars, historyVars
    <2>4. \A w \in Workers : pc'[w] = "add" /\ consent'[w] => item'[w] \in grants \cup overtaken
      BY <2>1
    <2> QED BY <2>2, <2>3, <2>4
  <1>9. ASSUME NEW w \in Workers, ToApp(w) PROVE ConsentInv'
    <2>1. CASE item[w] \in grants
      BY <1>9, <2>1 DEF ToApp, GoTo
    <2>2. CASE item[w] \notin grants
      <3>1. (item[w] \in grants) = FALSE BY <2>2
      <3>2. consent' = [consent EXCEPT ![w] = FALSE] BY <1>9, <3>1, Zenon DEF ToApp
      <3> QED BY <1>9, <2>2, <3>2 DEF ToApp, GoTo
    <2> QED BY <2>1, <2>2
  <1>10. ASSUME NEW w \in Workers, CacheAdd(w) PROVE ConsentInv'
    BY <1>10 DEF CacheAdd, GoTo, Return
  <1>11. ASSUME NEW w \in Workers, CacheGet(w) PROVE ConsentInv'
    BY <1>11 DEF CacheGet, GoTo
  <1>12. ASSUME NEW w \in Workers, Publish(w) PROVE ConsentInv'
    BY <1>12 DEF Publish, Return
  <1>13. CASE Lookup("apps")
    BY <1>13 DEF Lookup, GoTo
  <1>14. CASE CacheRemove("apps")
    BY <1>14 DEF CacheRemove, GoTo
  <1>15. CASE SayGoodbye("apps")
    BY <1>15 DEF SayGoodbye, Return
  <1>16. CASE UNCHANGED vars BY <1>16 DEF vars
  <1> QED
    BY <1>1, <1>2, <1>3, <1>4, <1>5, <1>6, <1>7, <1>8,
       <1>9, <1>10, <1>11, <1>12, <1>13, <1>14, <1>15, <1>16
    DEF Next, ClusterStep, AppsStep, GrantsStep, WorkerStep, Remover

-----------------------------------------------------------------------------
(* The initial state, and the invariant as a whole.                        *)

LEMMA Initially == ASSUME Init PROVE IInv
  <1> USE AppAssumption, ValueAssumption, BoundAssumption DEF Init, Object, Workers, Nothing
  <1>1. TypeOK
    <2>1. events \in [Apps -> Seq(Object \cup {Gone})] OBVIOUS
    <2> QED BY <2>1 DEF TypeOK
  <1>2. WorkersInOrder BY DEF WorkersInOrder, Starting
  <1>3. EventsEndAtCluster BY DEF EventsEndAtCluster
  <1>4. CatalogInv BY DEF CatalogInv, Starting
  <1>5. NoticeInv BY DEF NoticeInv
  <1>6. ConsentInv BY DEF ConsentInv
  <1> QED BY <1>1, <1>2, <1>3, <1>4, <1>5, <1>6 DEF IInv

(* The watcher keeps its inductive invariant, whatever the cluster does    *)
(* and in whatever order the two goroutines run.                           *)
THEOREM Inductive == Spec => []IInv
  <1>1. Init => IInv
    BY Initially
  <1>2. IInv /\ [Next]_vars => IInv'
    <2> SUFFICES ASSUME IInv, [Next]_vars PROVE IInv' OBVIOUS
    <2>1. TypeOK' /\ WorkersInOrder' /\ EventsEndAtCluster'
      BY TypeStep, WorkersStep, EventsStep
    <2>2. CatalogInv' /\ NoticeInv' /\ ConsentInv'
      BY CatalogStep, NoticeStep, ConsentStep
    <2> QED BY <2>1, <2>2 DEF IInv
  <1> QED BY <1>1, <1>2, PTL DEF Spec

-----------------------------------------------------------------------------
(* The properties.                                                         *)

(* Every variable of the watcher keeps its type.                           *)
THEOREM TypeCorrect == Spec => []TypeOK
  <1>1. IInv => TypeOK BY DEF IInv
  <1> QED BY <1>1, Inductive, PTL

(* When the events of an app are used up, its entry and its card are those *)
(* of the cluster (onAdd, onUpdate, onDelete).                             *)
THEOREM CatalogIsFollowed == Spec => []CatalogFollowsCluster
  <1>1. IInv => CatalogFollowsCluster
    BY DEF IInv, CatalogFollowsCluster, CatalogInv, CatalogApproachesCluster, Settled,
           Starting, Workers
  <1> QED BY <1>1, Inductive, PTL

(* A missing app was not announced last (postNewServiceNotification,       *)
(* postServiceRemovedNotification).                                        *)
THEOREM NoticesAreFollowed == Spec => []NoticesFollowCatalog
  <1>1. IInv => NoticesFollowCatalog
    BY DEF IInv, NoticesFollowCatalog, NoticeInv, Settled, Workers
  <1> QED BY <1>1, Inductive, PTL

(* Withdrawn consent leaves the cache but for the overtaken answers        *)
(* (resyncCrossNamespaceApps, toApp).                                      *)
THEOREM ConsentIsKept == Spec => []ConsentIsGranted
  <1>1. IInv => ConsentIsGranted
    <2> SUFFICES ASSUME IInv, phase = "watching", grantEvents = 0,
                        \A u \in Apps : Settled(u),
                        NEW u \in allowed \ overtaken, cluster[u] \in Specs
                 PROVE  u \in grants
      BY DEF ConsentIsGranted
    <2>1. u \in Apps BY AppAssumption DEF IInv, TypeOK
    <2>2. ~WillRefresh(u)
      BY <2>1 DEF WillRefresh, Settled, Starting, Workers
    <2> QED BY <2>2 DEF IInv, ConsentInv
  <1> QED BY <1>1, Inductive, PTL
=============================================================================
