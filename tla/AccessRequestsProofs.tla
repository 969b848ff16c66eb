------------------------ MODULE AccessRequestsProofs -------------------------
(***************************************************************************)
(* The safety invariants of AccessRequests for any number of users,        *)
(* services, requests and concurrent handlers, failures included.          *)
(***************************************************************************)
EXTENDS AccessRequests, TLAPS

(* Every step preserves the types; a grant names a user and a group        *)
(* because the handler's request was generated for a user and a service.   *)
LEMMA TypeStep == IInv /\ [Next]_vars => TypeOK'
<1> SUFFICES ASSUME IInv, [Next]_vars PROVE TypeOK'
  OBVIOUS
<1> USE IDAssumption, ServiceAssumption
    DEF IInv, TypeOK, CreateSteps, ResolveSteps, HandlersOwnTheirIDs, storeVars, handlerVars, historyVars
<1>1. ASSUME NEW h \in Handlers, NEW p \in Pairs, NEW id \in IDs, RequestAccess(h, p, id) PROVE TypeOK'
  BY <1>1 DEF RequestAccess
<1>2. ASSUME NEW h \in Handlers, CreateHash(h) PROVE TypeOK'
  BY <1>2 DEF CreateHash, GoTo
<1>3. ASSUME NEW h \in Handlers, CreateIndexAll(h) PROVE TypeOK'
  BY <1>3 DEF CreateIndexAll, GoTo
<1>4. ASSUME NEW h \in Handlers, CreateIndexPending(h) PROVE TypeOK'
  BY <1>4 DEF CreateIndexPending, GoTo
<1>5. ASSUME NEW h \in Handlers, CreateIndexUser(h) PROVE TypeOK'
  BY <1>5 DEF CreateIndexUser, GoTo, Done
<1>6. ASSUME NEW h \in Handlers, CreateFails(h) PROVE TypeOK'
  BY <1>6 DEF CreateFails, GoTo
<1>7. ASSUME NEW h \in Handlers, CreateCleanup(h) PROVE TypeOK'
  BY <1>7 DEF CreateCleanup, GoTo, Done, Release
<1>8. ASSUME NEW h \in Handlers, NEW id \in IDs, NEW v \in {"approved", "denied"},
            Resolve(h, id, v) PROVE TypeOK'
  BY <1>8 DEF Resolve
<1>9. ASSUME NEW h \in Handlers, ResolveStatus(h) PROVE TypeOK'
  BY <1>9 DEF ResolveStatus, GoTo
<1>10. ASSUME NEW h \in Handlers, ResolveUnindex(h) PROVE TypeOK'
  BY <1>10 DEF ResolveUnindex, GoTo
<1>11. ASSUME NEW h \in Handlers, ResolveUnlock(h) PROVE TypeOK'
  BY <1>11 DEF ResolveUnlock, GoTo, Done, Release
<1>12. ASSUME NEW h \in Handlers, Grant(h) PROVE TypeOK'
  BY <1>12 DEF Grant, GrantsFor, GoTo
<1>13. ASSUME NEW h \in Handlers, NEW g \in Groups, AddUserToGroup(h, g) PROVE TypeOK'
  <2>1. owner[rid[h]] \in Users \X Services
    BY <1>13 DEF AddUserToGroup, Pairs
  <2> QED
    BY <1>13, <2>1 DEF AddUserToGroup
<1>14. ASSUME NEW h \in Handlers, GrantDone(h) PROVE TypeOK'
  BY <1>14 DEF GrantDone, Done
<1>15. ASSUME NEW h \in Handlers, Abort(h) PROVE TypeOK'
  BY <1>15 DEF Abort, Done
<1>16. ASSUME NEW svc \in Services, Relist(svc) PROVE TypeOK'
  BY <1>16 DEF Relist
<1>17. ASSUME UNCHANGED vars PROVE TypeOK'
  BY <1>17 DEF vars
<1>18. ASSUME NEW h \in Handlers, CreateResend(h) \/ ResolveResend(h) PROVE TypeOK'
  BY <1>18 DEF CreateResend, ResolveResend, GoTo
<1> QED
  BY <1>1, <1>2, <1>3, <1>4, <1>5, <1>6, <1>7, <1>8, <1>9, <1>10,
     <1>11, <1>12, <1>13, <1>14, <1>15, <1>16, <1>17, <1>18
     DEF Next, Step

(* Every step leaves each handler with a generated ID, and each creation   *)
(* with one of its own: RequestAccess takes an ID nobody has.              *)
LEMMA WorkStep == IInv /\ [Next]_vars => HandlersOwnTheirIDs'
<1> SUFFICES ASSUME IInv, [Next]_vars PROVE HandlersOwnTheirIDs'
  OBVIOUS
<1> USE IDAssumption
    DEF IInv, TypeOK, CreateSteps, ResolveSteps, HandlersOwnTheirIDs, HashFollowsPipeline,
        storeVars, handlerVars, historyVars
<1>1. ASSUME NEW h \in Handlers, NEW p \in Pairs, NEW id \in IDs, RequestAccess(h, p, id) PROVE HandlersOwnTheirIDs'
  BY <1>1 DEF RequestAccess
<1>2. ASSUME NEW h \in Handlers, CreateHash(h) PROVE HandlersOwnTheirIDs'
  BY <1>2 DEF CreateHash, GoTo
<1>3. ASSUME NEW h \in Handlers, CreateIndexAll(h) PROVE HandlersOwnTheirIDs'
  BY <1>3 DEF CreateIndexAll, GoTo
<1>4. ASSUME NEW h \in Handlers, CreateIndexPending(h) PROVE HandlersOwnTheirIDs'
  BY <1>4 DEF CreateIndexPending, GoTo
<1>5. ASSUME NEW h \in Handlers, CreateIndexUser(h) PROVE HandlersOwnTheirIDs'
  BY <1>5 DEF CreateIndexUser, GoTo, Done
<1>6. ASSUME NEW h \in Handlers, CreateFails(h) PROVE HandlersOwnTheirIDs'
  BY <1>6 DEF CreateFails, GoTo
<1>7. ASSUME NEW h \in Handlers, CreateCleanup(h) PROVE HandlersOwnTheirIDs'
  BY <1>7 DEF CreateCleanup, GoTo, Done, Release
<1>8. ASSUME NEW h \in Handlers, NEW id \in IDs, NEW v \in {"approved", "denied"},
            Resolve(h, id, v) PROVE HandlersOwnTheirIDs'
  BY <1>8 DEF Resolve
<1>9. ASSUME NEW h \in Handlers, ResolveStatus(h) PROVE HandlersOwnTheirIDs'
  BY <1>9 DEF ResolveStatus, GoTo
<1>10. ASSUME NEW h \in Handlers, ResolveUnindex(h) PROVE HandlersOwnTheirIDs'
  BY <1>10 DEF ResolveUnindex, GoTo
<1>11. ASSUME NEW h \in Handlers, ResolveUnlock(h) PROVE HandlersOwnTheirIDs'
  BY <1>11 DEF ResolveUnlock, GoTo, Done, Release
<1>12. ASSUME NEW h \in Handlers, Grant(h) PROVE HandlersOwnTheirIDs'
  BY <1>12 DEF Grant, GrantsFor, GoTo
<1>13. ASSUME NEW h \in Handlers, NEW g \in Groups, AddUserToGroup(h, g) PROVE HandlersOwnTheirIDs'
  BY <1>13 DEF AddUserToGroup
<1>14. ASSUME NEW h \in Handlers, GrantDone(h) PROVE HandlersOwnTheirIDs'
  BY <1>14 DEF GrantDone, Done
<1>15. ASSUME NEW h \in Handlers, Abort(h) PROVE HandlersOwnTheirIDs'
  BY <1>15 DEF Abort, Done
<1>16. ASSUME NEW svc \in Services, Relist(svc) PROVE HandlersOwnTheirIDs'
  BY <1>16 DEF Relist
<1>17. ASSUME UNCHANGED vars PROVE HandlersOwnTheirIDs'
  BY <1>17 DEF vars
<1>18. ASSUME NEW h \in Handlers, CreateResend(h) \/ ResolveResend(h) PROVE HandlersOwnTheirIDs'
  BY <1>18 DEF CreateResend, ResolveResend, GoTo
<1> QED
  BY <1>1, <1>2, <1>3, <1>4, <1>5, <1>6, <1>7, <1>8, <1>9, <1>10,
     <1>11, <1>12, <1>13, <1>14, <1>15, <1>16, <1>17, <1>18
     DEF Next, Step

(* A hash appears with HSET and never goes; UpdateStatus starts from a     *)
(* hash it found, so that its status is final from HSET status on, but for *)
(* a repeated HSET of Create.                                              *)
LEMMA HashStep == IInv /\ [Next]_vars => HashFollowsPipeline'
<1> SUFFICES ASSUME IInv, [Next]_vars PROVE HashFollowsPipeline'
  OBVIOUS
<1> USE IDAssumption
    DEF IInv, TypeOK, CreateSteps, ResolveSteps, HandlersOwnTheirIDs, HashFollowsPipeline,
        storeVars, handlerVars, historyVars
<1>1. ASSUME NEW h \in Handlers, NEW p \in Pairs, NEW id \in IDs, RequestAccess(h, p, id) PROVE HashFollowsPipeline'
  BY <1>1 DEF RequestAccess
<1>2. ASSUME NEW h \in Handlers, CreateHash(h) PROVE HashFollowsPipeline'
  BY <1>2 DEF CreateHash, GoTo
<1>3. ASSUME NEW h \in Handlers, CreateIndexAll(h) PROVE HashFollowsPipeline'
  BY <1>3 DEF CreateIndexAll, GoTo
<1>4. ASSUME NEW h \in Handlers, CreateIndexPending(h) PROVE HashFollowsPipeline'
  BY <1>4 DEF CreateIndexPending, GoTo
<1>5. ASSUME NEW h \in Handlers, CreateIndexUser(h) PROVE HashFollowsPipeline'
  BY <1>5 DEF CreateIndexUser, GoTo, Done
<1>6. ASSUME NEW h \in Handlers, CreateFails(h) PROVE HashFollowsPipeline'
  BY <1>6 DEF CreateFails, GoTo
<1>7. ASSUME NEW h \in Handlers, CreateCleanup(h) PROVE HashFollowsPipeline'
  BY <1>7 DEF CreateCleanup, GoTo, Done, Release
<1>8. ASSUME NEW h \in Handlers, NEW id \in IDs, NEW v \in {"approved", "denied"},
            Resolve(h, id, v) PROVE HashFollowsPipeline'
  BY <1>8 DEF Resolve
<1>9. ASSUME NEW h \in Handlers, ResolveStatus(h) PROVE HashFollowsPipeline'
  BY <1>9 DEF ResolveStatus, GoTo
<1>10. ASSUME NEW h \in Handlers, ResolveUnindex(h) PROVE HashFollowsPipeline'
  BY <1>10 DEF ResolveUnindex, GoTo
<1>11. ASSUME NEW h \in Handlers, ResolveUnlock(h) PROVE HashFollowsPipeline'
  BY <1>11 DEF ResolveUnlock, GoTo, Done, Release
<1>12. ASSUME NEW h \in Handlers, Grant(h) PROVE HashFollowsPipeline'
  BY <1>12 DEF Grant, GrantsFor, GoTo
<1>13. ASSUME NEW h \in Handlers, NEW g \in Groups, AddUserToGroup(h, g) PROVE HashFollowsPipeline'
  BY <1>13 DEF AddUserToGroup
<1>14. ASSUME NEW h \in Handlers, GrantDone(h) PROVE HashFollowsPipeline'
  BY <1>14 DEF GrantDone, Done
<1>15. ASSUME NEW h \in Handlers, Abort(h) PROVE HashFollowsPipeline'
  BY <1>15 DEF Abort, Done
<1>16. ASSUME NEW svc \in Services, Relist(svc) PROVE HashFollowsPipeline'
  BY <1>16 DEF Relist
<1>17. ASSUME UNCHANGED vars PROVE HashFollowsPipeline'
  BY <1>17 DEF vars
<1>18. ASSUME NEW h \in Handlers, CreateResend(h) \/ ResolveResend(h) PROVE HashFollowsPipeline'
  BY <1>18 DEF CreateResend, ResolveResend, GoTo
<1> QED
  BY <1>1, <1>2, <1>3, <1>4, <1>5, <1>6, <1>7, <1>8, <1>9, <1>10,
     <1>11, <1>12, <1>13, <1>14, <1>15, <1>16, <1>17, <1>18
     DEF Next, Step

(* A request holds its key from SET NX on and while it is pending.         *)
KeyInv == CreatorHoldsKey /\ PendingHoldsKey

(* SET NX takes only a free key, and DEL on an untainted pair meets no     *)
(* other request: the key then belongs to the finished request itself.     *)
LEMMA KeyStep == IInv /\ [Next]_vars => KeyInv'
<1> SUFFICES ASSUME IInv, [Next]_vars PROVE KeyInv'
  OBVIOUS
<1> USE IDAssumption
    DEF IInv, TypeOK, CreateSteps, ResolveSteps, HandlersOwnTheirIDs, HashFollowsPipeline,
        KeyInv, CreatorHoldsKey, PendingHoldsKey, storeVars, handlerVars, historyVars
<1>1. ASSUME NEW h \in Handlers, NEW p \in Pairs, NEW id \in IDs, RequestAccess(h, p, id) PROVE KeyInv'
  BY <1>1 DEF RequestAccess
<1>2. ASSUME NEW h \in Handlers, CreateHash(h) PROVE KeyInv'
  BY <1>2 DEF CreateHash, GoTo
<1>3. ASSUME NEW h \in Handlers, CreateIndexAll(h) PROVE KeyInv'
  BY <1>3 DEF CreateIndexAll, GoTo
<1>4. ASSUME NEW h \in Handlers, CreateIndexPending(h) PROVE KeyInv'
  BY <1>4 DEF CreateIndexPending, GoTo
<1>5. ASSUME NEW h \in Handlers, CreateIndexUser(h) PROVE KeyInv'
  BY <1>5 DEF CreateIndexUser, GoTo, Done
<1>6. ASSUME NEW h \in Handlers, CreateFails(h) PROVE KeyInv'
  BY <1>6 DEF CreateFails, GoTo
<1>7. ASSUME NEW h \in Handlers, CreateCleanup(h) PROVE KeyInv'
  BY <1>7 DEF CreateCleanup, GoTo, Done, Release
<1>8. ASSUME NEW h \in Handlers, NEW id \in IDs, NEW v \in {"approved", "denied"},
            Resolve(h, id, v) PROVE KeyInv'
  BY <1>8 DEF Resolve
<1>9. ASSUME NEW h \in Handlers, ResolveStatus(h) PROVE KeyInv'
  BY <1>9 DEF ResolveStatus, GoTo
<1>10. ASSUME NEW h \in Handlers, ResolveUnindex(h) PROVE KeyInv'
  BY <1>10 DEF ResolveUnindex, GoTo
<1>11. ASSUME NEW h \in Handlers, ResolveUnlock(h) PROVE KeyInv'
  BY <1>11 DEF ResolveUnlock, GoTo, Done, Release
<1>12. ASSUME NEW h \in Handlers, Grant(h) PROVE KeyInv'
  BY <1>12 DEF Grant, GrantsFor, GoTo
<1>13. ASSUME NEW h \in Handlers, NEW g \in Groups, AddUserToGroup(h, g) PROVE KeyInv'
  BY <1>13 DEF AddUserToGroup
<1>14. ASSUME NEW h \in Handlers, GrantDone(h) PROVE KeyInv'
  BY <1>14 DEF GrantDone, Done
<1>15. ASSUME NEW h \in Handlers, Abort(h) PROVE KeyInv'
  BY <1>15 DEF Abort, Done
<1>16. ASSUME NEW svc \in Services, Relist(svc) PROVE KeyInv'
  BY <1>16 DEF Relist
<1>17. ASSUME UNCHANGED vars PROVE KeyInv'
  BY <1>17 DEF vars
<1>18. ASSUME NEW h \in Handlers, CreateResend(h) \/ ResolveResend(h) PROVE KeyInv'
  BY <1>18 DEF CreateResend, ResolveResend, GoTo
<1> QED
  BY <1>1, <1>2, <1>3, <1>4, <1>5, <1>6, <1>7, <1>8, <1>9, <1>10,
     <1>11, <1>12, <1>13, <1>14, <1>15, <1>16, <1>17, <1>18
     DEF Next, Step

(* The indexes list requests that exist, and all that were accepted.       *)
IndexInv == IndexedHasHash /\ IndexesFollowPipeline /\ AcceptedStaysVisible

(* An ID is indexed after its HSET, accepted after its last ZADD, and      *)
(* leaves the pending index only once its status is final.                 *)
LEMMA IndexStep == IInv /\ [Next]_vars => IndexInv'
<1> SUFFICES ASSUME IInv, [Next]_vars PROVE IndexInv'
  OBVIOUS
<1> USE IDAssumption
    DEF IInv, TypeOK, CreateSteps, ResolveSteps, HandlersOwnTheirIDs, HashFollowsPipeline,
        IndexInv, IndexedHasHash, IndexesFollowPipeline, AcceptedStaysVisible,
        storeVars, handlerVars, historyVars
<1>1. ASSUME NEW h \in Handlers, NEW p \in Pairs, NEW id \in IDs, RequestAccess(h, p, id) PROVE IndexInv'
  BY <1>1 DEF RequestAccess
<1>2. ASSUME NEW h \in Handlers, CreateHash(h) PROVE IndexInv'
  BY <1>2 DEF CreateHash, GoTo
<1>3. ASSUME NEW h \in Handlers, CreateIndexAll(h) PROVE IndexInv'
  BY <1>3 DEF CreateIndexAll, GoTo
<1>4. ASSUME NEW h \in Handlers, CreateIndexPending(h) PROVE IndexInv'
  BY <1>4 DEF CreateIndexPending, GoTo
<1>5. ASSUME NEW h \in Handlers, CreateIndexUser(h) PROVE IndexInv'
  BY <1>5 DEF CreateIndexUser, GoTo, Done
<1>6. ASSUME NEW h \in Handlers, CreateFails(h) PROVE IndexInv'
  BY <1>6 DEF CreateFails, GoTo
<1>7. ASSUME NEW h \in Handlers, CreateCleanup(h) PROVE IndexInv'
  BY <1>7 DEF CreateCleanup, GoTo, Done, Release
<1>8. ASSUME NEW h \in Handlers, NEW id \in IDs, NEW v \in {"approved", "denied"},
            Resolve(h, id, v) PROVE IndexInv'
  BY <1>8 DEF Resolve
<1>9. ASSUME NEW h \in Handlers, ResolveStatus(h) PROVE IndexInv'
  BY <1>9 DEF ResolveStatus, GoTo
<1>10. ASSUME NEW h \in Handlers, ResolveUnindex(h) PROVE IndexInv'
  BY <1>10 DEF ResolveUnindex, GoTo
<1>11. ASSUME NEW h \in Handlers, ResolveUnlock(h) PROVE IndexInv'
  BY <1>11 DEF ResolveUnlock, GoTo, Done, Release
<1>12. ASSUME NEW h \in Handlers, Grant(h) PROVE IndexInv'
  BY <1>12 DEF Grant, GrantsFor, GoTo
<1>13. ASSUME NEW h \in Handlers, NEW g \in Groups, AddUserToGroup(h, g) PROVE IndexInv'
  BY <1>13 DEF AddUserToGroup
<1>14. ASSUME NEW h \in Handlers, GrantDone(h) PROVE IndexInv'
  BY <1>14 DEF GrantDone, Done
<1>15. ASSUME NEW h \in Handlers, Abort(h) PROVE IndexInv'
  BY <1>15 DEF Abort, Done
<1>16. ASSUME NEW svc \in Services, Relist(svc) PROVE IndexInv'
  BY <1>16 DEF Relist
<1>17. ASSUME UNCHANGED vars PROVE IndexInv'
  BY <1>17 DEF vars
<1>18. ASSUME NEW h \in Handlers, CreateResend(h) \/ ResolveResend(h) PROVE IndexInv'
  BY <1>18 DEF CreateResend, ResolveResend, GoTo
<1> QED
  BY <1>1, <1>2, <1>3, <1>4, <1>5, <1>6, <1>7, <1>8, <1>9, <1>10,
     <1>11, <1>12, <1>13, <1>14, <1>15, <1>16, <1>17, <1>18
     DEF Next, Step

(* Only the handler that stored an approval goes on to the groups, and it  *)
(* adds those the service requires.                                        *)
LEMMA GrantStep == IInv /\ [Next]_vars => GrantIsApproved'
<1> SUFFICES ASSUME IInv, [Next]_vars PROVE GrantIsApproved'
  OBVIOUS
<1> USE IDAssumption
    DEF IInv, TypeOK, CreateSteps, ResolveSteps, HandlersOwnTheirIDs, HashFollowsPipeline,
        GrantIsApproved, storeVars, handlerVars, historyVars
<1>1. ASSUME NEW h \in Handlers, NEW p \in Pairs, NEW id \in IDs, RequestAccess(h, p, id) PROVE GrantIsApproved'
  BY <1>1 DEF RequestAccess
<1>2. ASSUME NEW h \in Handlers, CreateHash(h) PROVE GrantIsApproved'
  BY <1>2 DEF CreateHash, GoTo
<1>3. ASSUME NEW h \in Handlers, CreateIndexAll(h) PROVE GrantIsApproved'
  BY <1>3 DEF CreateIndexAll, GoTo
<1>4. ASSUME NEW h \in Handlers, CreateIndexPending(h) PROVE GrantIsApproved'
  BY <1>4 DEF CreateIndexPending, GoTo
<1>5. ASSUME NEW h \in Handlers, CreateIndexUser(h) PROVE GrantIsApproved'
  BY <1>5 DEF CreateIndexUser, GoTo, Done
<1>6. ASSUME NEW h \in Handlers, CreateFails(h) PROVE GrantIsApproved'
  BY <1>6 DEF CreateFails, GoTo
<1>7. ASSUME NEW h \in Handlers, CreateCleanup(h) PROVE GrantIsApproved'
  BY <1>7 DEF CreateCleanup, GoTo, Done, Release
<1>8. ASSUME NEW h \in Handlers, NEW id \in IDs, NEW v \in {"approved", "denied"},
            Resolve(h, id, v) PROVE GrantIsApproved'
  BY <1>8 DEF Resolve
<1>9. ASSUME NEW h \in Handlers, ResolveStatus(h) PROVE GrantIsApproved'
  BY <1>9 DEF ResolveStatus, GoTo
<1>10. ASSUME NEW h \in Handlers, ResolveUnindex(h) PROVE GrantIsApproved'
  BY <1>10 DEF ResolveUnindex, GoTo
<1>11. ASSUME NEW h \in Handlers, ResolveUnlock(h) PROVE GrantIsApproved'
  BY <1>11 DEF ResolveUnlock, GoTo, Done, Release
<1>12. ASSUME NEW h \in Handlers, Grant(h) PROVE GrantIsApproved'
  BY <1>12 DEF Grant, GrantsFor, GoTo
<1>13. ASSUME NEW h \in Handlers, NEW g \in Groups, AddUserToGroup(h, g) PROVE GrantIsApproved'
  BY <1>13 DEF AddUserToGroup
<1>14. ASSUME NEW h \in Handlers, GrantDone(h) PROVE GrantIsApproved'
  BY <1>14 DEF GrantDone, Done
<1>15. ASSUME NEW h \in Handlers, Abort(h) PROVE GrantIsApproved'
  BY <1>15 DEF Abort, Done
<1>16. ASSUME NEW svc \in Services, Relist(svc) PROVE GrantIsApproved'
  BY <1>16 DEF Relist
<1>17. ASSUME UNCHANGED vars PROVE GrantIsApproved'
  BY <1>17 DEF vars
<1>18. ASSUME NEW h \in Handlers, CreateResend(h) \/ ResolveResend(h) PROVE GrantIsApproved'
  BY <1>18 DEF CreateResend, ResolveResend, GoTo
<1> QED
  BY <1>1, <1>2, <1>3, <1>4, <1>5, <1>6, <1>7, <1>8, <1>9, <1>10,
     <1>11, <1>12, <1>13, <1>14, <1>15, <1>16, <1>17, <1>18
     DEF Next, Step

(* The initial state satisfies the inductive invariant.                    *)
LEMMA InitIInv == Init => IInv
<1> SUFFICES ASSUME Init PROVE IInv
  OBVIOUS
<1>1. TypeOK
  BY DEF Init, TypeOK
<1>2. HandlersOwnTheirIDs /\ HashFollowsPipeline /\ CreatorHoldsKey /\ PendingHoldsKey
  BY DEF Init, HandlersOwnTheirIDs, HashFollowsPipeline, CreatorHoldsKey, PendingHoldsKey,
         CreateSteps
<1>3. IndexedHasHash /\ IndexesFollowPipeline /\ AcceptedStaysVisible
  BY DEF Init, IndexedHasHash, IndexesFollowPipeline, AcceptedStaysVisible
<1>4. GrantIsApproved
  BY DEF Init, GrantIsApproved
<1> QED
  BY <1>1, <1>2, <1>3, <1>4 DEF IInv

(* The inductive invariant holds in every reachable state.                 *)
THEOREM Invariance == Spec => []IInv
<1>1. IInv /\ [Next]_vars => IInv'
  BY TypeStep, WorkStep, HashStep, KeyStep, IndexStep, GrantStep DEF IInv, KeyInv, IndexInv
<1> QED
  BY InitIInv, <1>1, PTL DEF Spec

(* Types.                                                                  *)
THEOREM TypeCorrect == Spec => []TypeOK
<1>1. IInv => TypeOK
  BY DEF IInv
<1> QED
  BY Invariance, <1>1, PTL

(* A pending request holds the dedup key of its user and service unless    *)
(* the key was deleted for another request, or for a request that a failed *)
(* pipeline had made pending, or a repeated HSET took back a decision:     *)
(* these three are all that can break it, however often go-redis sends a   *)
(* pipeline again.                                                         *)
THEOREM PendingRequestsHoldTheirKey == Spec => []PendingHoldsKey
<1>1. IInv => PendingHoldsKey
  BY DEF IInv
<1> QED
  BY Invariance, <1>1, PTL

(* As long as none of the three happened for a user and a service, Create  *)
(* never lets a second pending request of theirs in.                       *)
THEOREM OnePendingUnlessTainted ==
  Spec => [](\A i, j \in IDs : /\ status[i] = "pending" /\ status[j] = "pending"
                              /\ owner[i] = owner[j] /\ owner[i] \notin tainted => i = j)
<1>1. IInv => \A i, j \in IDs : /\ status[i] = "pending" /\ status[j] = "pending"
                               /\ owner[i] = owner[j] /\ owner[i] \notin tainted => i = j
  BY DEF IInv, PendingHoldsKey
<1> QED
  BY Invariance, <1>1, PTL

(* Whatever fails halfway or is sent twice, no index names a request       *)
(* without a hash, and an accepted request stays where its user and the    *)
(* admins look for it; a request that a repeated HSET put back to pending  *)
(* stays in all lists but the queue of pending ones.                       *)
THEOREM ListingsAreComplete == Spec => [](IndexedHasHash /\ AcceptedStaysVisible)
<1>1. IInv => IndexedHasHash /\ AcceptedStaysVisible
  BY DEF IInv
<1> QED
  BY Invariance, <1>1, PTL

(* An accepted request stays in the listings, as far as it was not put     *)
(* back to pending.                                                        *)
THEOREM AcceptedIsListed == Spec => []AcceptedStaysVisible
<1>1. IInv => AcceptedStaysVisible
  BY DEF IInv
<1> QED
  BY Invariance, <1>1, PTL

(* Without failures every held key has its request, or its handler: the    *)
(* handler that makes a request pending or resolved passes the key on      *)
(* before it ends.                                                         *)
LEMMA HolderStep == IInv /\ KeyHolderIsAtWork /\ [Next]_vars => KeyHolderIsAtWork'
<1> SUFFICES ASSUME IInv, KeyHolderIsAtWork, [Next]_vars, ~Failures PROVE KeyHolderIsAtWork'
  BY DEF KeyHolderIsAtWork
<1> USE IDAssumption DEF IInv, TypeOK, KeyHolderIsAtWork, HandlersOwnTheirIDs, storeVars, handlerVars, historyVars
<1>1. ASSUME NEW h \in Handlers, NEW p \in Pairs, NEW id \in IDs, RequestAccess(h, p, id)
      PROVE KeyHolderIsAtWork'
  BY <1>1 DEF RequestAccess
<1>2. ASSUME NEW h \in Handlers, CreateHash(h) PROVE KeyHolderIsAtWork'
  BY <1>2 DEF CreateHash, GoTo
<1>3. ASSUME NEW h \in Handlers,
             CreateIndexAll(h) \/ CreateIndexPending(h) \/ CreateIndexUser(h)
      PROVE KeyHolderIsAtWork'
  BY <1>3 DEF CreateIndexAll, CreateIndexPending, CreateIndexUser, GoTo, Done
<1>4. ASSUME NEW h \in Handlers, CreateCleanup(h) PROVE KeyHolderIsAtWork'
  BY <1>4 DEF CreateCleanup, GoTo, Done, Release
<1>5. ASSUME NEW h \in Handlers, NEW id \in IDs, NEW v \in {"approved", "denied"},
             Resolve(h, id, v)
      PROVE KeyHolderIsAtWork'
  BY <1>5 DEF Resolve
<1>6. ASSUME NEW h \in Handlers, ResolveStatus(h) PROVE KeyHolderIsAtWork'
  BY <1>6 DEF ResolveStatus, GoTo
<1>7. ASSUME NEW h \in Handlers, ResolveUnindex(h) PROVE KeyHolderIsAtWork'
  BY <1>7 DEF ResolveUnindex, GoTo
<1>8. ASSUME NEW h \in Handlers, ResolveUnlock(h) PROVE KeyHolderIsAtWork'
  BY <1>8 DEF ResolveUnlock, GoTo, Done, Release
<1>9. ASSUME NEW h \in Handlers,
             Grant(h) \/ GrantDone(h) \/ (\E g \in Groups : AddUserToGroup(h, g))
      PROVE KeyHolderIsAtWork'
  BY <1>9 DEF Grant, GrantDone, AddUserToGroup, GoTo, Done
<1>10. ASSUME (\E svc \in Services : Relist(svc)) \/ UNCHANGED vars PROVE KeyHolderIsAtWork'
  BY <1>10 DEF Relist, vars
<1> QED
  BY <1>1, <1>2, <1>3, <1>4, <1>5, <1>6, <1>7, <1>8, <1>9, <1>10
     DEF Next, Step, CreateResend, CreateFails, ResolveResend, Abort

(* Without failures Create refuses only because of a request that is       *)
(* pending or being worked on, whoever resolves what how often.            *)
THEOREM RefusalsAreFounded == Spec => []RefusalMeansPending
<1>1. Init => KeyHolderIsAtWork
  BY DEF Init, KeyHolderIsAtWork
<1>2. KeyHolderIsAtWork => RefusalMeansPending
  BY DEF KeyHolderIsAtWork, RefusalMeansPending, Busy, CreateSteps, ResolveSteps
<1> QED
  BY Invariance, HolderStep, <1>1, <1>2, PTL DEF Spec

-----------------------------------------------------------------------------
(* AccessRequests implements RequestBook.                                  *)

GrantSteps == {"zrem", "unlock", "grant", "adding"}

(* A step of handler h that changes no hash and no key, and takes up no    *)
(* creation and no grant, is a step of the book that at most ends some.    *)
LEMMA FewerOnHand ==
  ASSUME NEW h \in Handlers,
         \A k \in Handlers \ {h} : pc'[k] = pc[k] /\ rid'[k] = rid[k] /\ verdict'[k] = verdict[k],
         pc'[h] \in CreateSteps => pc[h] \in CreateSteps /\ rid'[h] = rid[h],
         verdict'[h] = "approved" /\ pc'[h] \in GrantSteps =>
             verdict[h] = "approved" /\ pc[h] \in GrantSteps /\ rid'[h] = rid[h]
  PROVE  Filing' \subseteq Filing /\ Granting' \subseteq Granting
<1>1. Filing' \subseteq Filing
  BY DEF Filing
<1>2. Granting' \subseteq Granting
  BY DEF Granting, GrantSteps
<1> QED
  BY <1>1, <1>2

LEMMA QuietStep ==
  ASSUME UNCHANGED <<owner, status, tainted, members>>,
         Filing' \subseteq Filing, Granting' \subseteq Granting
  PROVE  [Book!Next]_(Book!vars)
BY DEF Book!Next, Book!Answer

(* SET NX opens a request for an ID that was never used.                   *)
LEMMA AskStep ==
  ASSUME IInv, NEW h \in Handlers, NEW p \in Pairs, NEW id \in IDs, RequestAccess(h, p, id)
  PROVE  [Book!Next]_(Book!vars)
<1>1. /\ owner' = [owner EXCEPT ![id] = p] /\ owner[id] = NoPair
      /\ UNCHANGED <<status, tainted, members, verdict>>
      /\ pc[h] = "idle" /\ pc' = [pc EXCEPT ![h] = "hset"] /\ rid' = [rid EXCEPT ![h] = id]
  BY DEF RequestAccess, historyVars
<1>2. \A k \in Handlers : k # h => pc'[k] = pc[k] /\ rid'[k] = rid[k]
  BY <1>1 DEF IInv, TypeOK
<1>3. pc'[h] = "hset" /\ rid'[h] = id
  BY <1>1 DEF IInv, TypeOK
<1>4. Filing' = Filing \cup {id}
  BY <1>1, <1>2, <1>3 DEF Filing, CreateSteps
<1>5. UNCHANGED Granting
  BY <1>1, <1>2, <1>3 DEF Granting
<1>6. Book!Ask(id, p)
  BY <1>1, <1>4, <1>5 DEF Book!Ask
<1> QED
  BY <1>6 DEF Book!Next, Pairs, Book!Pairs

(* HSET files the request, for which the key it still holds keeps every    *)
(* other request of its user and service from being pending; a repeated    *)
(* one finds it filed, or takes a decision back.                           *)
LEMMA FileStep ==
  ASSUME IInv, NEW h \in Handlers, CreateHash(h)
  PROVE  [Book!Next]_(Book!vars)
<1>1. /\ pc[h] = "hset" /\ pc' = [pc EXCEPT ![h] = "zall"] /\ UNCHANGED <<rid, verdict>>
      /\ status' = [status EXCEPT ![rid[h]] = "pending"] /\ UNCHANGED <<owner, members>>
      /\ IF status[rid[h]] \in {"approved", "denied"}
         THEN tainted' = tainted \cup {owner[rid[h]]} ELSE UNCHANGED tainted
  BY DEF CreateHash, GoTo, historyVars
<1>2. PICK id \in IDs : rid[h] = id
  BY <1>1 DEF IInv, HandlersOwnTheirIDs
<1>3. id \in Filing
  BY <1>1, <1>2 DEF Filing, CreateSteps
<1>4. \A k \in Handlers : k # h => pc'[k] = pc[k]
  BY <1>1 DEF IInv, TypeOK
<1>5. pc'[h] = "zall"
  BY <1>1 DEF IInv, TypeOK
<1>6. UNCHANGED Filing /\ UNCHANGED Granting
  BY <1>1, <1>4, <1>5 DEF Filing, Granting, CreateSteps
<1>7. CASE status[id] = "none"
  <2>1. owner[id] \in tainted \/ \A i \in IDs : owner[i] = owner[id] => status[i] # "pending"
    <3> SUFFICES ASSUME owner[id] \notin tainted, NEW i \in IDs, owner[i] = owner[id],
                        status[i] = "pending"
                 PROVE  FALSE
      OBVIOUS
    <3>1. dedup[owner[id]] = i /\ dedup[owner[id]] = id
      BY <1>1, <1>2, <1>7 DEF IInv, PendingHoldsKey, CreatorHoldsKey
    <3> QED
      BY <1>7, <3>1
  <2>2. UNCHANGED tainted
    BY <1>1, <1>2, <1>7
  <2>3. Book!File(id)
    BY <1>1, <1>2, <1>3, <1>6, <1>7, <2>1, <2>2 DEF Book!File
  <2> QED
    BY <2>3 DEF Book!Next
<1>8. CASE status[id] = "pending"
  <2>1. UNCHANGED status
    BY <1>1, <1>2, <1>8 DEF IInv, TypeOK
  <2>2. UNCHANGED tainted
    BY <1>1, <1>2, <1>8
  <2> QED
    BY <1>1, <1>6, <2>1, <2>2, QuietStep
<1>9. CASE status[id] \in {"approved", "denied"}
  <2>1. Book!Refile(id)
    BY <1>1, <1>2, <1>3, <1>6, <1>9 DEF Book!Refile
  <2> QED
    BY <2>1 DEF Book!Next
<1> QED
  BY <1>2, <1>7, <1>8, <1>9 DEF IInv, TypeOK

(* The first command of UpdateStatus is the decision.                      *)
LEMMA DecideStep ==
  ASSUME IInv, NEW h \in Handlers, ResolveStatus(h)
  PROVE  [Book!Next]_(Book!vars)
<1>1. /\ pc[h] = "setStatus" /\ pc' = [pc EXCEPT ![h] = "zrem"] /\ UNCHANGED <<rid, verdict>>
      /\ status' = [status EXCEPT ![rid[h]] = verdict[h]]
      /\ UNCHANGED <<owner, tainted, members>>
  BY DEF ResolveStatus, GoTo, historyVars
<1>2. PICK id \in IDs, v \in {"approved", "denied"} : id = rid[h] /\ v = verdict[h]
  BY <1>1 DEF IInv, TypeOK, HandlersOwnTheirIDs
<1>3. status[id] # "none"
  BY <1>1, <1>2 DEF IInv, HashFollowsPipeline
<1>4. \A k \in Handlers : k # h => pc'[k] = pc[k]
  BY <1>1 DEF IInv, TypeOK
<1>5. pc'[h] = "zrem"
  BY <1>1 DEF IInv, TypeOK
<1>6. UNCHANGED Filing
  BY <1>1, <1>4, <1>5 DEF Filing, CreateSteps
<1>7. Granting' = Granting \cup IF v = "approved" THEN {id} ELSE {}
  <2>1. ASSUME NEW i \in IDs
        PROVE  i \in Granting' <=> i \in Granting \/ (v = "approved" /\ i = id)
    BY <1>1, <1>2, <1>4, <1>5 DEF Granting
  <2> QED
    BY <2>1 DEF Granting
<1>8. Book!Decide(id, v)
  BY <1>1, <1>2, <1>3, <1>6, <1>7 DEF Book!Decide
<1> QED
  BY <1>8 DEF Book!Next

(* A DEL of the key disputes the pair of the request it is sent for.       *)
LEMMA ReleaseStep ==
  ASSUME NEW id \in IDs, NEW own, Release(id, own), UNCHANGED <<owner, status, members>>,
         id \in Filing \/ status[id] # "none",
         Filing' \subseteq Filing, Granting' \subseteq Granting
  PROVE  [Book!Next]_(Book!vars)
<1>1. CASE tainted' = tainted
  BY <1>1, QuietStep
<1>2. CASE tainted' # tainted
  <2>1. Book!Dispute(id)
    BY <1>2 DEF Release, Book!Dispute
  <2> QED
    BY <2>1 DEF Book!Next
<1> QED
  BY <1>1, <1>2

(* A group is joined under an approval that was stored.                    *)
LEMMA JoinStep ==
  ASSUME IInv, NEW h \in Handlers, NEW g \in Groups, AddUserToGroup(h, g)
  PROVE  [Book!Next]_(Book!vars)
<1>1. /\ pc[h] = "adding" /\ g \in groups[h] /\ UNCHANGED <<owner, status, tainted, pc, rid, verdict>>
      /\ members' = members \cup {<<owner[rid[h]][1], g>>} \/ UNCHANGED members
  BY DEF AddUserToGroup, storeVars, historyVars
<1>2. UNCHANGED Granting /\ UNCHANGED Filing
  BY <1>1 DEF Granting, Filing
<1>3. PICK id \in IDs : id = rid[h]
  BY <1>1 DEF IInv, HandlersOwnTheirIDs
<1>4. CASE UNCHANGED members
  BY <1>1, <1>2, <1>4, QuietStep
<1>5. CASE members' = members \cup {<<owner[id][1], g>>}
  <2>1. verdict[h] = "approved" /\ g \in RequiredGroups[owner[id][2]]
    BY <1>1, <1>3 DEF IInv, GrantIsApproved
  <2>2. id \in Granting
    BY <1>1, <1>3, <2>1 DEF Granting
  <2>3. Book!Join(id, g)
    BY <1>1, <1>2, <1>5, <2>1, <2>2 DEF Book!Join
  <2> QED
    BY <2>3 DEF Book!Next
<1> QED
  BY <1>1, <1>3, <1>4, <1>5

(* Every command of a pipeline, failure, resend and crash is a step of the *)
(* book or leaves it as it is.                                             *)
LEMMA BookStep == IInv /\ [Next]_vars => [Book!Next]_(Book!vars)
<1> SUFFICES ASSUME IInv, [Next]_vars PROVE [Book!Next]_(Book!vars)
  OBVIOUS
<1>0. pc \in [Handlers -> {"idle", "grant", "adding"} \cup CreateSteps \cup ResolveSteps]
      /\ rid \in [Handlers -> IDs \cup {NoID}] /\ verdict \in [Handlers -> {"approved", "denied"}]
  BY DEF IInv, TypeOK
<1>1. ASSUME NEW h \in Handlers,
             \/ CreateIndexAll(h) \/ CreateIndexPending(h) \/ CreateIndexUser(h)
             \/ CreateResend(h) \/ CreateFails(h)
             \/ ResolveUnindex(h) \/ ResolveResend(h) \/ Grant(h) \/ GrantDone(h) \/ Abort(h)
      PROVE  [Book!Next]_(Book!vars)
  <2>1. UNCHANGED <<owner, status, tainted, members>>
    BY <1>1 DEF CreateIndexAll, CreateIndexPending, CreateIndexUser, CreateResend, CreateFails,
                ResolveUnindex, ResolveResend, Grant, GrantDone, Abort, storeVars, historyVars
  <2>2. \A k \in Handlers \ {h} : pc'[k] = pc[k] /\ rid'[k] = rid[k] /\ verdict'[k] = verdict[k]
    BY <1>0, <1>1 DEF CreateIndexAll, CreateIndexPending, CreateIndexUser, CreateResend,
                CreateFails, ResolveUnindex, ResolveResend, Grant, GrantDone, Abort, GoTo, Done
  <2>3. pc'[h] \in CreateSteps => pc[h] \in CreateSteps /\ rid'[h] = rid[h]
    BY <1>0, <1>1 DEF CreateIndexAll, CreateIndexPending, CreateIndexUser, CreateResend,
                CreateFails, ResolveUnindex, ResolveResend, Grant, GrantDone, Abort, GoTo, Done,
                CreateSteps, ResolveSteps
  <2>4. verdict'[h] = "approved" /\ pc'[h] \in GrantSteps =>
           verdict[h] = "approved" /\ pc[h] \in GrantSteps /\ rid'[h] = rid[h]
    BY <1>0, <1>1 DEF CreateIndexAll, CreateIndexPending, CreateIndexUser, CreateResend,
                CreateFails, ResolveUnindex, ResolveResend, Grant, GrantDone, Abort, GoTo, Done,
                CreateSteps, ResolveSteps, GrantSteps
  <2> QED
    BY <2>1, <2>2, <2>3, <2>4, FewerOnHand, QuietStep
<1>2. ASSUME NEW h \in Handlers, CreateCleanup(h) PROVE [Book!Next]_(Book!vars)
  <2>1. /\ pc[h] = "cleanup" /\ Release(rid[h], status[rid[h]] # "pending")
        /\ UNCHANGED <<owner, status, members>>
        /\ Done(h) \/ GoTo(h, "cleanup")
    BY <1>2 DEF CreateCleanup
  <2>2. rid[h] \in IDs /\ rid[h] \in Filing
    BY <2>1 DEF IInv, HandlersOwnTheirIDs, Filing, CreateSteps
  <2>3. Filing' \subseteq Filing /\ Granting' \subseteq Granting
    <3>1. \A k \in Handlers \ {h} : pc'[k] = pc[k] /\ rid'[k] = rid[k] /\ verdict'[k] = verdict[k]
      BY <1>0, <2>1 DEF GoTo, Done
    <3>2. pc'[h] \in CreateSteps => pc[h] \in CreateSteps /\ rid'[h] = rid[h]
      BY <1>0, <2>1 DEF GoTo, Done, CreateSteps
    <3>3. pc'[h] \notin GrantSteps
      BY <1>0, <2>1 DEF GoTo, Done, GrantSteps
    <3> QED
      BY <3>1, <3>2, <3>3, FewerOnHand
  <2> QED
    BY <2>1, <2>2, <2>3, ReleaseStep
<1>3. ASSUME NEW h \in Handlers, NEW id \in IDs, NEW v \in {"approved", "denied"}, Resolve(h, id, v)
      PROVE  [Book!Next]_(Book!vars)
  <2>1. /\ UNCHANGED <<owner, status, tainted, members>>
        /\ pc[h] = "idle" /\ pc' = [pc EXCEPT ![h] = "setStatus"]
        /\ rid' = [rid EXCEPT ![h] = id] /\ verdict' = [verdict EXCEPT ![h] = v]
    BY <1>3 DEF Resolve, historyVars
  <2>2. Filing' \subseteq Filing /\ Granting' \subseteq Granting
    BY <1>0, <2>1, FewerOnHand DEF CreateSteps, GrantSteps
  <2> QED
    BY <2>1, <2>2, QuietStep
<1>4. ASSUME NEW h \in Handlers, ResolveUnlock(h) PROVE [Book!Next]_(Book!vars)
  <2>1. /\ pc[h] = "unlock" /\ Release(rid[h], TRUE) /\ UNCHANGED <<owner, status, members>>
        /\ \/ verdict[h] = "approved" /\ GoTo(h, "grant")
           \/ GoTo(h, "setStatus") \/ Done(h)
    BY <1>4 DEF ResolveUnlock
  <2>2. rid[h] \in IDs /\ status[rid[h]] # "none"
    BY <2>1 DEF IInv, HandlersOwnTheirIDs, HashFollowsPipeline
  <2>3. Filing' \subseteq Filing /\ Granting' \subseteq Granting
    <3>1. \A k \in Handlers \ {h} : pc'[k] = pc[k] /\ rid'[k] = rid[k] /\ verdict'[k] = verdict[k]
      BY <1>0, <2>1 DEF GoTo, Done
    <3>2. pc'[h] \notin CreateSteps
      BY <1>0, <2>1 DEF GoTo, Done, CreateSteps
    <3>3. verdict'[h] = "approved" /\ pc'[h] \in GrantSteps =>
             verdict[h] = "approved" /\ pc[h] \in GrantSteps /\ rid'[h] = rid[h]
      BY <1>0, <2>1 DEF GoTo, Done, GrantSteps
    <3> QED
      BY <3>1, <3>2, <3>3, FewerOnHand
  <2> QED
    BY <2>1, <2>2, <2>3, ReleaseStep
<1>5. ASSUME NEW svc \in Services, Relist(svc) PROVE [Book!Next]_(Book!vars)
  BY <1>5, QuietStep DEF Relist, storeVars, handlerVars, historyVars, Granting, Filing
<1>6. ASSUME UNCHANGED vars PROVE [Book!Next]_(Book!vars)
  BY <1>6, QuietStep DEF vars, Granting, Filing
<1> QED
  BY <1>1, <1>2, <1>3, <1>4, <1>5, <1>6, AskStep, FileStep, DecideStep, JoinStep DEF Next, Step

(* The requests and the groups are those of the book, for any number of    *)
(* handlers, whatever fails and however often go-redis sends a pipeline    *)
(* again: one pending request per user and service outside a dispute, no   *)
(* way back to pending once the creation was answered, and no group        *)
(* without an approval.                                                    *)
THEOREM RequestsImplementBook == Spec => RequestsAreBooked
<1>1. Init => Book!Init
  BY DEF Init, Book!Init, Granting, Filing, CreateSteps
<1> QED
  BY Invariance, BookStep, <1>1, PTL DEF Spec, RequestsAreBooked, Book!Spec

=============================================================================
