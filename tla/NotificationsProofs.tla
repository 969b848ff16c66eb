------------------------- MODULE NotificationsProofs -------------------------
(***************************************************************************)
(* Proofs about Notifications, for any callers, notifications and groups,  *)
(* any retention and number of retries.                                    *)
(***************************************************************************)
EXTENDS Notifications, TLAPS

-----------------------------------------------------------------------------
(* Type correctness.                                                       *)

LEMMA TypeInit == ASSUME Init PROVE TypeOK
  <1>1. post \in [Notices -> Stages]
    BY DEF Init, Stages
  <1>2. tries \in [Notices -> 0 .. MaxRetries] /\ ttl \in [Notices -> 0 .. Retention]
    BY NoticeAssumption DEF Init
  <1>3. rq \in [Callers -> {"idle", "fetch", "mark", "marked", "answered", "degraded"}]
    BY DEF Init
  <1> QED BY <1>1, <1>2, <1>3 DEF Init, TypeOK, Nothing

(* A step of a producer or of Redis keeps the types.                       *)
LEMMA TypePost ==
    ASSUME TypeOK, NEW n \in Notices,
           \/ Begin(n) \/ HSet(n) \/ Expire(n) \/ ZAdd(n) \/ Created(n) \/ Publish(n)
           \/ Resend(n) \/ PostFails(n)
    PROVE  TypeOK'
  <1> USE NoticeAssumption DEF TypeOK, Stages, InFlight, storeVars, reqVars, listVars
  <1>1. CASE Begin(n)     BY <1>1 DEF Begin
  <1>2. CASE HSet(n)      BY <1>2 DEF HSet
  <1>3. CASE Expire(n)    BY <1>3 DEF Expire
  <1>4. CASE ZAdd(n)      BY <1>4 DEF ZAdd
  <1>5. CASE Created(n)   BY <1>5 DEF Created
  <1>6. CASE Publish(n)   BY <1>6 DEF Publish
  <1>7. CASE Resend(n)    BY <1>7 DEF Resend
  <1>8. CASE PostFails(n) BY <1>8 DEF PostFails
  <1> QED BY <1>1, <1>2, <1>3, <1>4, <1>5, <1>6, <1>7, <1>8

LEMMA TypeTick == ASSUME TypeOK, Tick PROVE TypeOK'
  BY NoticeAssumption DEF TypeOK, Stages, Tick, postVars

LEMMA TypeReady == ASSUME TypeOK, ValidatorReady PROVE TypeOK'
  BY DEF TypeOK, ValidatorReady, storeVars, postVars, reqVars, listVars

(* A step of a request keeps the types.                                    *)
LEMMA TypeRequest ==
    ASSUME TypeOK, NEW c \in Callers,
           \/ ZRange(c) \/ Answer(c) \/ SAdd(c) \/ Marked(c) \/ EndRequest(c)
           \/ \E n \in Notices : HGetAll(c, n) \/ Exists(c, n)
    PROVE  TypeOK'
  <1> USE CallerAssumption DEF TypeOK, storeVars, postVars, listVars
  <1>1. CASE ZRange(c)     BY <1>1 DEF ZRange, Listed, UserOf
  <1>2. CASE Answer(c)
    <2>1. /\ \E x : rq' = [rq EXCEPT ![c] = x] /\ x \in {"idle", "answered", "degraded"}
          /\ shown' = shown \/ shown' = [shown EXCEPT ![c] = {n \in got[c] : ListFilter(c, n)}]
          /\ \/ flagged' = flagged
             \/ flagged' = [flagged EXCEPT ![c] = {n \in got[c] : ListFilter(c, n)} \cap ReadSet(c)]
          /\ due' = due \/ due' = [due EXCEPT ![c] = {}]
          /\ prior' = prior \/ prior' = [prior EXCEPT ![c] = {}]
      BY <1>2, Zenon DEF Answer
    <2>2. rq' \in [Callers -> {"idle", "fetch", "mark", "marked", "answered", "degraded"}]
      BY <2>1
    <2>3. shown' \in [Callers -> SUBSET Notices]   BY <2>1
    <2>4. flagged' \in [Callers -> SUBSET Notices] BY <2>1
    <2>5. due' \in [Callers -> SUBSET Notices]     BY <2>1
    <2>6. prior' \in [Callers -> SUBSET Notices]   BY <2>1
    <2> QED BY <1>2, <2>2, <2>3, <2>4, <2>5, <2>6 DEF Answer
  <1>3. CASE SAdd(c)       BY <1>3 DEF SAdd
  <1>4. CASE Marked(c)     BY <1>4 DEF Marked
  <1>5. CASE EndRequest(c) BY <1>5 DEF EndRequest
  <1>6. ASSUME NEW n \in Notices, HGetAll(c, n) PROVE TypeOK'
    BY <1>6 DEF HGetAll
  <1>7. ASSUME NEW n \in Notices, Exists(c, n) PROVE TypeOK'
    BY <1>7 DEF Exists
  <1> QED BY <1>1, <1>2, <1>3, <1>4, <1>5, <1>6, <1>7

-----------------------------------------------------------------------------
(* The store: stages, deadlines and the order of store and push.           *)

StoreInv == StoreFollowsPost /\ ShownHasDeadline /\ PushedWasStored

LEMMA StorePost ==
    ASSUME TypeOK, StoreInv, NEW n \in Notices,
           \/ Begin(n) \/ HSet(n) \/ Expire(n) \/ ZAdd(n) \/ Created(n) \/ Publish(n)
           \/ Resend(n) \/ PostFails(n)
    PROVE  StoreInv'
  <1> USE NoticeAssumption DEF TypeOK, StoreInv, StoreFollowsPost, ShownHasDeadline,
          PushedWasStored, Listed, Stages, InFlight, storeVars, reqVars, listVars
  <1>1. CASE Begin(n)     BY <1>1 DEF Begin
  <1>2. CASE HSet(n)      BY <1>2 DEF HSet
  <1>3. CASE Expire(n)    BY <1>3 DEF Expire
  <1>4. CASE ZAdd(n)      BY <1>4 DEF ZAdd
  <1>5. CASE Created(n)   BY <1>5 DEF Created
  <1>6. CASE Publish(n)   BY <1>6 DEF Publish
  <1>7. CASE Resend(n)    BY <1>7 DEF Resend
  <1>8. CASE PostFails(n) BY <1>8 DEF PostFails
  <1> QED BY <1>1, <1>2, <1>3, <1>4, <1>5, <1>6, <1>7, <1>8

(* Time does not overtake a post: its hash and TTL are still there.        *)
LEMMA StoreTick == ASSUME TypeOK, StoreInv, Tick PROVE StoreInv'
  <1> USE NoticeAssumption DEF TypeOK, StoreInv, StoreFollowsPost, ShownHasDeadline,
          PushedWasStored, Listed, Stages, InFlight
  <1>1. /\ \A n \in Notices : post[n] \in InFlight => ttl[n] # 1
        /\ \A n \in Notices : ttl'[n] = IF ttl[n] > 0 THEN ttl[n] - 1 ELSE 0
        /\ \A n \in Notices : n \in stored' <=> n \in stored /\ ttl[n] # 1
        /\ index' = index /\ post' = post /\ pushed' = pushed
    BY DEF Tick, postVars
  <1>2. StoreFollowsPost' BY <1>1
  <1>3. ShownHasDeadline' BY <1>1
  <1> QED BY <1>1, <1>2, <1>3

-----------------------------------------------------------------------------
(* Entitlement: the code's filters against the definition by names.        *)

LEMMA PushImpliesEntitled ==
    ASSUME NEW c \in Callers, NEW n \in Notices, PushFilter(c, n) PROVE Entitled(c, n)
  BY CallerAssumption DEF PushFilter, Entitled, CanAccessPolicy, HasRequiredGroups,
     GroupMatches, GroupsOf, Authenticated, ExtractAndValidateJWT

LEMMA ListIsPolicy ==
    ASSUME NEW c \in Callers, NEW n \in Notices PROVE ListFilter(c, n) <=> PushFilter(c, n)
  BY DEF ListFilter, PushFilter, CanAccessService, DecodeGroups, EncodeGroups

LEMMA EntitledImpliesPush ==
    ASSUME NEW c \in Callers, NEW n \in Notices, Entitled(c, n),
           ExtractAndValidateJWT(c, ready) # "not ready"
    PROVE  PushFilter(c, n)
  BY CallerAssumption DEF PushFilter, Entitled, CanAccessPolicy, HasRequiredGroups,
     GroupMatches, GroupsOf, Authenticated, ExtractAndValidateJWT, Headers

LEMMA DeliveryStep ==
    ASSUME TypeOK, DeliveryIsEntitled, [Next]_vars PROVE DeliveryIsEntitled'
  <1> USE DEF DeliveryIsEntitled
  <1>1. ASSUME UNCHANGED <<shown, pushed>> PROVE DeliveryIsEntitled'
    BY <1>1 DEF Entitled
  <1>2. ASSUME NEW n \in Notices, Publish(n) PROVE DeliveryIsEntitled'
    <2>1. \A c \in Callers : pushed'[c] \subseteq pushed[c] \cup {n}
          /\ (n \in pushed'[c] => n \in pushed[c] \/ PushFilter(c, n))
      BY <1>2 DEF Publish, TypeOK
    <2>2. shown' = shown
      BY <1>2 DEF Publish, reqVars
    <2> QED BY <2>1, <2>2, PushImpliesEntitled DEF Entitled
  <1>3. ASSUME NEW c \in Callers, Answer(c) PROVE DeliveryIsEntitled'
    <2>1. \/ shown' = shown
          \/ shown' = [shown EXCEPT ![c] = {n \in got[c] : ListFilter(c, n)}]
      BY <1>3, Zenon DEF Answer
    <2>2. \A n \in got[c] : ListFilter(c, n) => Entitled(c, n)
      BY ListIsPolicy, PushImpliesEntitled DEF TypeOK
    <2>3. pushed' = pushed
      BY <1>3 DEF Answer, postVars
    <2> QED BY <2>1, <2>2, <2>3 DEF TypeOK, Entitled
  <1>4. ASSUME NEW c \in Callers, EndRequest(c) PROVE DeliveryIsEntitled'
    BY <1>4 DEF EndRequest, postVars, TypeOK, Entitled
  <1>5. CASE \E n \in Notices :
                 \/ PostNotif(n) \/ PostWelcome(n) \/ (\E c \in Callers : AdminCreate(c, n))
                 \/ HSet(n) \/ Expire(n) \/ ZAdd(n) \/ Created(n) \/ Resend(n) \/ PostFails(n)
    BY <1>1, <1>5 DEF PostNotif, PostWelcome, AdminCreate, Begin, HSet, Expire, ZAdd, Created,
       Resend, PostFails, reqVars
  <1>6. CASE \E c \in Callers : \/ ZRange(c) \/ SAdd(c) \/ Marked(c)
                                \/ \E n \in Notices : HGetAll(c, n) \/ Exists(c, n)
    BY <1>1, <1>6 DEF ZRange, SAdd, Marked, HGetAll, Exists, postVars
  <1>7. CASE Tick \/ ValidatorReady \/ UNCHANGED vars
    BY <1>1, <1>7 DEF Tick, ValidatorReady, vars, postVars, reqVars
  <1> QED BY <1>2, <1>3, <1>4, <1>5, <1>6, <1>7 DEF Next, PostStep

-----------------------------------------------------------------------------
(* Listings.                                                               *)

ListInv == ListFollowsIndex /\ ListIsComplete

LEMMA ListRequest ==
    ASSUME TypeOK, ListInv, NEW c \in Callers,
           \/ ZRange(c) \/ Answer(c) \/ SAdd(c) \/ Marked(c) \/ EndRequest(c)
           \/ \E n \in Notices : HGetAll(c, n) \/ Exists(c, n)
    PROVE  ListInv'
  <1> USE DEF TypeOK, ListInv, ListFollowsIndex, ListIsComplete, storeVars, postVars, listVars
  <1>1. CASE ZRange(c)     BY <1>1 DEF ZRange, Listed, Entitled
  <1>2. CASE Answer(c)
    <2> DEFINE list == {n \in got[c] : ListFilter(c, n)}
    <2>1. CASE ExtractAndValidateJWT(c, ready) = "not ready"
      <3>1. /\ rq' = [rq EXCEPT ![c] = "idle"] /\ due' = [due EXCEPT ![c] = {}]
            /\ shown' = shown /\ left' = left /\ got' = [got EXCEPT ![c] = {}]
            /\ stored' = stored /\ ready' = ready
        BY <1>2, <2>1 DEF Answer, Authenticated
      <3> QED BY <3>1 DEF Entitled
    <2>2. CASE ExtractAndValidateJWT(c, ready) # "not ready"
      <3>1. /\ rq' = [rq EXCEPT ![c] = "answered"] \/ rq' = [rq EXCEPT ![c] = "degraded"]
            /\ shown' = [shown EXCEPT ![c] = list]
            /\ due' = due /\ left' = left /\ got' = [got EXCEPT ![c] = {}]
            /\ stored' = stored /\ ready' = ready
        BY <1>2, <2>2, Zenon DEF Answer
      <3>2. due[c] \subseteq got[c]
        BY <1>2 DEF Answer
      <3>3. {n \in due[c] : Entitled(c, n)} \subseteq list
        BY <3>2, <2>2, EntitledImpliesPush, ListIsPolicy
      <3> HIDE DEF list
      <3> QED BY <3>1, <3>3, <2>2 DEF Entitled
    <2> QED BY <2>1, <2>2
  <1>3. CASE SAdd(c)       BY <1>3 DEF SAdd, Entitled
  <1>4. CASE Marked(c)     BY <1>4 DEF Marked, Entitled
  <1>5. CASE EndRequest(c) BY <1>5 DEF EndRequest, Entitled
  <1>6. ASSUME NEW n \in Notices, HGetAll(c, n) PROVE ListInv'
    BY <1>6 DEF HGetAll, Entitled
  <1>7. ASSUME NEW n \in Notices, Exists(c, n) PROVE ListInv'
    BY <1>7 DEF Exists, Entitled
  <1> QED BY <1>1, <1>2, <1>3, <1>4, <1>5, <1>6, <1>7

(* Posts and time only change what is stored; due follows expiry.          *)
LEMMA ListOther ==
    ASSUME TypeOK, ListInv, NEW n \in Notices,
           \/ Begin(n) \/ HSet(n) \/ Expire(n) \/ ZAdd(n) \/ Created(n) \/ Publish(n)
           \/ Resend(n) \/ PostFails(n)
    PROVE  ListInv'
  <1>1. stored \subseteq stored' /\ UNCHANGED <<ready, rq, left, got, due, shown>>
    BY DEF Begin, HSet, Expire, ZAdd, Created, Publish, Resend, PostFails, storeVars, reqVars,
       listVars
  <1> QED BY <1>1 DEF ListInv, ListFollowsIndex, ListIsComplete, Entitled

LEMMA ListTick == ASSUME TypeOK, ListInv, Tick PROVE ListInv'
  <1>1. /\ \A c \in Callers : due'[c] = due[c] \cap stored'
        /\ UNCHANGED <<ready, rq, left, got, shown>>
    BY DEF Tick
  <1> QED BY <1>1 DEF ListInv, ListFollowsIndex, ListIsComplete, Entitled

LEMMA ListReady == ASSUME TypeOK, ListInv, ValidatorReady PROVE ListInv'
  <1>1. ready' = TRUE /\ UNCHANGED <<stored, rq, left, got, due, shown>>
    BY DEF ValidatorReady, storeVars, reqVars, listVars
  <1>2. \A c \in Callers : ExtractAndValidateJWT(c, TRUE) # "not ready"
    BY DEF ExtractAndValidateJWT
  <1> QED BY <1>1, <1>2 DEF ListInv, ListFollowsIndex, ListIsComplete, Entitled

-----------------------------------------------------------------------------
(* Marks.                                                                  *)

MarkInv == MarksFollowReads /\ ReadMarkIsShown

LEMMA UserIsKnown ==
    ASSUME NEW c \in Callers
    PROVE  /\ UserOf(c) \in Users \cup {NoUser}
           /\ RequireAuth(c, ready) \in Users \cup {NoUser}
           /\ Username[c] # NoUser => UserOf(c) = Username[c]
  BY CallerAssumption DEF UserOf, RequireAuth

LEMMA MarkRequest ==
    ASSUME TypeOK, MarkInv, ListInv, NEW c \in Callers,
           \/ ZRange(c) \/ Answer(c) \/ SAdd(c) \/ Marked(c) \/ EndRequest(c)
           \/ \E n \in Notices : HGetAll(c, n) \/ Exists(c, n)
    PROVE  MarkInv'
  <1> USE UserIsKnown, CallerAssumption
      DEF TypeOK, MarkInv, MarksFollowReads, ReadMarkIsShown, storeVars, postVars, listVars
  <1>1. CASE ZRange(c)     BY <1>1 DEF ZRange
  <1>2. CASE Answer(c)
    <2> DEFINE list == {n \in got[c] : ListFilter(c, n)}
    <2>1. UNCHANGED <<ready, acked, reads, index, target>>
      BY <1>2 DEF Answer
    <2>2. CASE rq' = [rq EXCEPT ![c] = "answered"] /\ prior' = prior
               /\ shown' = [shown EXCEPT ![c] = list]
               /\ flagged' = [flagged EXCEPT ![c] = list \cap ReadSet(c)]
      <3>1. Authenticated(c, ready) /\ Username[c] # NoUser => prior[c] \subseteq ReadSet(c)
        BY DEF ReadSet
      <3> HIDE DEF list
      <3>2. MarksFollowReads' BY <2>1, <2>2
      <3>3. ReadMarkIsShown'  BY <2>1, <2>2, <3>1
      <3> QED BY <3>2, <3>3
    <2>3. CASE /\ rq' = [rq EXCEPT ![c] = "idle"] /\ prior' = [prior EXCEPT ![c] = {}]
               /\ UNCHANGED <<shown, flagged>>
      BY <2>1, <2>3
    <2>4. CASE /\ rq' = [rq EXCEPT ![c] = "degraded"] /\ UNCHANGED <<prior, flagged>>
               /\ shown' = [shown EXCEPT ![c] = list]
      <3> HIDE DEF list
      <3> QED BY <2>1, <2>4
    <2> QED BY <1>2, <2>2, <2>3, <2>4, Zenon DEF Answer
  <1>3. CASE SAdd(c)       BY <1>3 DEF SAdd
  <1>4. CASE Marked(c)     BY <1>4 DEF Marked
  <1>5. CASE EndRequest(c) BY <1>5 DEF EndRequest
  <1>6. ASSUME NEW n \in Notices, HGetAll(c, n) PROVE MarkInv'
    BY <1>6 DEF HGetAll
  <1>7. ASSUME NEW n \in Notices, Exists(c, n) PROVE MarkInv'
    BY <1>7 DEF Exists
  <1> QED BY <1>1, <1>2, <1>3, <1>4, <1>5, <1>6, <1>7

LEMMA MarkOther ==
    ASSUME TypeOK, MarkInv, NEW n \in Notices,
           \/ Begin(n) \/ HSet(n) \/ Expire(n) \/ ZAdd(n) \/ Created(n) \/ Publish(n)
           \/ Resend(n) \/ PostFails(n)
    PROVE  MarkInv'
  <1>1. /\ index \subseteq index'
        /\ UNCHANGED <<ready, rq, reads, acked, target, prior, shown, flagged>>
    BY DEF Begin, HSet, Expire, ZAdd, Created, Publish, Resend, PostFails, storeVars, reqVars,
       listVars
  <1> QED BY <1>1 DEF MarkInv, MarksFollowReads, ReadMarkIsShown

LEMMA MarkTick == ASSUME TypeOK, MarkInv, Tick PROVE MarkInv'
  <1>1. UNCHANGED <<ready, rq, reads, acked, index, target, prior, shown, flagged>>
    BY DEF Tick
  <1> QED BY <1>1 DEF MarkInv, MarksFollowReads, ReadMarkIsShown

(* The keys arrive: nobody who was refused is in the middle of a mark.     *)
LEMMA MarkReady == ASSUME TypeOK, MarkInv, ListInv, ValidatorReady PROVE MarkInv'
  <1>1. /\ ~ready /\ ready' = TRUE
        /\ UNCHANGED <<rq, reads, acked, index, target, prior, shown, flagged>>
    BY DEF ValidatorReady, storeVars, reqVars, listVars
  <1>2. \A c \in Callers : RequireAuth(c, ready) \in Users =>
            RequireAuth(c, TRUE) = RequireAuth(c, ready)
    BY <1>1, CallerAssumption DEF RequireAuth, Authenticated, ExtractAndValidateJWT, TypeOK
  <1>3. \A c \in Callers : ExtractAndValidateJWT(c, ready) # "not ready" =>
            (Authenticated(c, TRUE) <=> Authenticated(c, ready))
    BY <1>1, CallerAssumption DEF Authenticated, ExtractAndValidateJWT, TypeOK
  <1>4. MarksFollowReads' BY <1>1, <1>2 DEF MarkInv, MarksFollowReads
  <1>5. ReadMarkIsShown'
    BY <1>1, <1>3 DEF MarkInv, ReadMarkIsShown, ListInv, ListFollowsIndex
  <1> QED BY <1>4, <1>5 DEF MarkInv

-----------------------------------------------------------------------------
(* The inductive invariant.                                                *)

LEMMA IInvInit == ASSUME Init PROVE IInv
  <1>1. TypeOK BY TypeInit
  <1>2. StoreFollowsPost /\ ShownHasDeadline /\ PushedWasStored /\ DeliveryIsEntitled
    BY DEF Init, StoreFollowsPost, ShownHasDeadline, PushedWasStored, DeliveryIsEntitled,
       Listed, Nothing, InFlight
  <1>3. ListFollowsIndex /\ ListIsComplete
    BY DEF Init, ListFollowsIndex, ListIsComplete, Nothing
  <1>4. MarksFollowReads /\ ReadMarkIsShown
    BY DEF Init, MarksFollowReads, ReadMarkIsShown, Nothing
  <1> QED BY <1>1, <1>2, <1>3, <1>4 DEF IInv

LEMMA IInvStep == ASSUME IInv, [Next]_vars PROVE IInv'
  <1>0. TypeOK /\ StoreInv /\ ListInv /\ MarkInv /\ DeliveryIsEntitled
    BY DEF IInv, StoreInv, ListInv, MarkInv
  <1>1. DeliveryIsEntitled' BY <1>0, DeliveryStep
  <1>2. TypeOK' /\ StoreInv' /\ ListInv' /\ MarkInv'
    <2>1. ASSUME NEW n \in Notices,
                 \/ Begin(n) \/ HSet(n) \/ Expire(n) \/ ZAdd(n) \/ Created(n) \/ Publish(n)
                 \/ Resend(n) \/ PostFails(n)
          PROVE  TypeOK' /\ StoreInv' /\ ListInv' /\ MarkInv'
      BY <1>0, <2>1, TypePost, StorePost, ListOther, MarkOther
    <2>2. ASSUME NEW c \in Callers,
                 \/ ZRange(c) \/ Answer(c) \/ SAdd(c) \/ Marked(c) \/ EndRequest(c)
                 \/ \E n \in Notices : HGetAll(c, n) \/ Exists(c, n)
          PROVE  TypeOK' /\ StoreInv' /\ ListInv' /\ MarkInv'
      <3>1. UNCHANGED <<post, stored, ttl, index, pushed>>
        BY <2>2 DEF ZRange, Answer, SAdd, Marked, EndRequest, HGetAll, Exists, storeVars, postVars
      <3>2. StoreInv'
        BY <1>0, <3>1 DEF StoreInv, StoreFollowsPost, ShownHasDeadline, PushedWasStored, Listed
      <3> QED BY <1>0, <2>2, <3>2, TypeRequest, ListRequest, MarkRequest
    <2>3. CASE Tick
      BY <1>0, <2>3, TypeTick, StoreTick, ListTick, MarkTick
    <2>4. CASE ValidatorReady
      <3>1. StoreInv'
        BY <1>0, <2>4 DEF ValidatorReady, storeVars, postVars, StoreInv, StoreFollowsPost,
           ShownHasDeadline, PushedWasStored, Listed
      <3> QED BY <1>0, <2>4, <3>1, TypeReady, ListReady, MarkReady
    <2>5. CASE UNCHANGED vars
      <3> USE <1>0, <2>5 DEF vars, storeVars, postVars, reqVars, listVars
      <3>1. TypeOK'   BY DEF TypeOK
      <3>2. StoreInv' BY DEF StoreInv, StoreFollowsPost, ShownHasDeadline, PushedWasStored, Listed
      <3>3. ListInv'  BY DEF ListInv, ListFollowsIndex, ListIsComplete, Entitled
      <3>4. MarkInv'  BY DEF MarkInv, MarksFollowReads, ReadMarkIsShown
      <3> QED BY <3>1, <3>2, <3>3, <3>4
    <2> QED BY <2>1, <2>2, <2>3, <2>4, <2>5 DEF Next, PostStep, PostNotif, PostWelcome, AdminCreate
  <1> QED BY <1>1, <1>2 DEF IInv, StoreInv, ListInv, MarkInv

LEMMA Invariance == Spec => []IInv
  <1>1. Init => IInv BY IInvInit
  <1>2. IInv /\ [Next]_vars => IInv' BY IInvStep
  <1> QED BY <1>1, <1>2, PTL DEF Spec

(* Every reachable state has the types TypeOK says.                        *)
THEOREM TypeCorrect == Spec => []TypeOK
  <1>1. IInv => TypeOK BY DEF IInv
  <1> QED BY <1>1, Invariance, PTL

(* Whatever pipelines break off or are sent again: what a listing can show *)
(* expires.                                                                *)
THEOREM EverythingShownExpires == Spec => []ShownHasDeadline
  <1>1. IInv => ShownHasDeadline BY DEF IInv
  <1> QED BY <1>1, Invariance, PTL

(* Neither listing nor push tells a caller of a notification he is not     *)
(* entitled to, for any visibility, groups, tokens and warm-up.            *)
THEOREM OnlyEntitledAreTold == Spec => []DeliveryIsEntitled
  <1>1. IInv => DeliveryIsEntitled BY DEF IInv
  <1> QED BY <1>1, Invariance, PTL

(* A listing is complete for what was up all the time it took.             *)
THEOREM ListingsAreComplete == Spec => []ListIsComplete
  <1>1. IInv => ListIsComplete BY DEF IInv
  <1> QED BY <1>1, Invariance, PTL

(* Nothing is pushed that the store does not have in its index.            *)
THEOREM StoredBeforePushed == Spec => []PushedWasStored
  <1>1. IInv => PushedWasStored BY DEF IInv
  <1> QED BY <1>1, Invariance, PTL

(* An acknowledged mark is in every later answer that could get the read   *)
(* set.                                                                    *)
THEOREM MarksAreShown == Spec => []ReadMarkIsShown
  <1>1. IInv => ReadMarkIsShown BY DEF IInv
  <1> QED BY <1>1, Invariance, PTL

-----------------------------------------------------------------------------
(* The refinement: index, what a listing finds and the read sets are a     *)
(* board.                                                                  *)

LEMMA BoardInit == ASSUME Init PROVE Board!Init
  BY DEF Init, Board!Init, Listed

(* Only the first ZADD of a post puts something up; a pipeline that is     *)
(* sent again finds its hash still there, so that its HSET does not either. *)
LEMMA BoardStep == ASSUME IInv, [Next]_vars PROVE [Board!Next]_(Board!vars)
  <1> USE DEF Board!vars, Listed
  <1>0. /\ StoreFollowsPost /\ MarksFollowReads
        /\ stored \subseteq Notices /\ index \subseteq Notices
        /\ reads \in [Users -> SUBSET Notices]
    BY DEF IInv, TypeOK
  <1>1. ASSUME UNCHANGED <<index, stored, reads>> PROVE UNCHANGED Board!vars
    BY <1>1
  <1>2. ASSUME NEW n \in Notices, HSet(n) PROVE UNCHANGED Board!vars
    BY <1>0, <1>2 DEF HSet, StoreFollowsPost, InFlight
  <1>3. ASSUME NEW n \in Notices, ZAdd(n) PROVE [Board!Next]_(Board!vars)
    <2>1. n \in stored BY <1>0, <1>3 DEF ZAdd, StoreFollowsPost
    <2>2. CASE n \in index
      BY <1>3, <2>1, <2>2 DEF ZAdd
    <2>3. CASE n \notin index
      <3>1. Board!PutUp(n) BY <1>3, <2>1, <2>3 DEF ZAdd, Board!PutUp
      <3> QED BY <3>1 DEF Board!Next
    <2> QED BY <2>2, <2>3
  <1>4. CASE Tick
    <2>1. Board!TakeDown BY <1>4 DEF Tick, Board!TakeDown
    <2> QED BY <2>1 DEF Board!Next
  <1>5. ASSUME NEW c \in Callers, SAdd(c) PROVE Board!Next
    <2>1. PICK n \in index : target[c] = {n}
      BY <1>0, <1>5 DEF SAdd, MarksFollowReads
    <2>2. RequireAuth(c, ready) \in Users
      BY <1>0, <1>5 DEF SAdd, MarksFollowReads
    <2>3. Board!Mark(RequireAuth(c, ready), n)
      BY <1>5, <2>1 DEF SAdd, Board!Mark
    <2> QED BY <1>0, <2>1, <2>2, <2>3 DEF Board!Next
  <1>6. CASE \E n \in Notices :
                 \/ PostNotif(n) \/ PostWelcome(n) \/ (\E c \in Callers : AdminCreate(c, n))
                 \/ Expire(n) \/ Created(n) \/ Publish(n) \/ Resend(n) \/ PostFails(n)
    BY <1>1, <1>6 DEF PostNotif, PostWelcome, AdminCreate, Begin, Expire, Created, Publish,
       Resend, PostFails, storeVars
  <1>7. CASE \E c \in Callers : \/ ZRange(c) \/ Answer(c) \/ Marked(c) \/ EndRequest(c)
                                \/ \E n \in Notices : HGetAll(c, n) \/ Exists(c, n)
    BY <1>1, <1>7 DEF ZRange, Answer, Marked, EndRequest, HGetAll, Exists, storeVars
  <1>8. CASE ValidatorReady \/ UNCHANGED vars
    BY <1>1, <1>8 DEF ValidatorReady, vars, storeVars
  <1> QED BY <1>2, <1>3, <1>4, <1>5, <1>6, <1>7, <1>8 DEF Next, PostStep

(* The Redis store, with broken and resent pipelines, expiry and           *)
(* concurrent listings, implements NoticeBoard.                            *)
THEOREM StoreImplementsBoard == Spec => BoardSpec
  <1>1. Init => Board!Init BY BoardInit
  <1>2. IInv /\ [Next]_vars => [Board!Next]_(Board!vars) BY BoardStep
  <1> QED BY <1>1, <1>2, Invariance, PTL DEF Spec, BoardSpec, Board!Spec
=============================================================================
