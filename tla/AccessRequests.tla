---------------------------- MODULE AccessRequests ---------------------------
(***************************************************************************)
(* Access requests: the Redis-backed store (internal/accessrequests/       *)
(* store.go), the handlers that create and resolve requests and the        *)
(* Keycloak group grant that follows an approval (internal/api/handlers.go, *)
(* internal/keycloak/client.go).                                           *)
(*                                                                         *)
(* Several handler goroutines, possibly of several replicas, share one     *)
(* Redis.  Every Redis command is one action: a pipeline is not a          *)
(* transaction, so its commands may interleave with another client's and   *)
(* only a prefix of them may take effect when the connection or the        *)
(* process dies.  The client (go-redis with its default retries) sends a   *)
(* pipeline or a command whose reply it did not get again, from the start, *)
(* and reports an error after the last try; how often is left open.  A     *)
(* copy that was given up has had its effect before the next is sent.      *)
(***************************************************************************)
EXTENDS Naturals, FiniteSets

CONSTANTS
    Users,           \* preferred_username of the callers
    Services,        \* UIDs of services
    StaticServices,  \* those loaded from the static configuration
    Groups,          \* Keycloak groups
    RequiredGroups,  \* the groups each service requires
    IDs,             \* request IDs; bounds how many requests are ever made
    NoID,            \* an absent dedup key, or no request
    NoPair,          \* owner of an ID not generated yet
    Handlers,        \* HTTP handlers at work at the same time
    KeycloakEnabled, \* an admin client is configured
    Failures         \* processes crash, connections and replies get lost, Keycloak
                     \* refuses

Pairs == Users \X Services

ASSUME IDAssumption       == NoID \notin IDs /\ NoPair \notin Pairs
ASSUME ServiceAssumption  == /\ StaticServices \subseteq Services
                             /\ RequiredGroups \in [Services -> SUBSET Groups]
ASSUME BooleanAssumption  == KeycloakEnabled \in BOOLEAN /\ Failures \in BOOLEAN

VARIABLES
    dedup,     \* nebari:ar:dedup:{user}:{svc}: the ID that took the key, or NoID
    owner,     \* user and service each ID was generated for, or NoPair
    status,    \* status field of nebari:ar:{id}, "none" when there is no hash
    allIdx, pendingIdx, userIdx,   \* the three sorted sets (each ID in its own user's)
    accepted,  \* IDs whose creation was answered 202
    listed,    \* services in the cache
    members,   \* Keycloak: the users' group memberships
    pc,        \* next command of each handler
    rid,       \* the request each handler works on
    verdict,   \* the status a resolving handler writes
    groups,    \* required groups a granting handler has still to add
    revived,   \* history: IDs that a repeated HSET put back to pending
    tainted    \* history: pairs with such a request, and those whose dedup key
               \* was deleted although it did not belong, or not only, to the
               \* request being finished

storeVars   == <<dedup, owner, status, allIdx, pendingIdx, userIdx>>
handlerVars == <<pc, rid, verdict, groups>>
vars == <<dedup, owner, status, allIdx, pendingIdx, userIdx, accepted, listed,
          members, pc, rid, verdict, groups, revived, tainted>>
historyVars == <<revived, tainted>>

CreateSteps  == {"hset", "zall", "zpending", "zuser", "cleanup"}
ResolveSteps == {"setStatus", "zrem", "unlock"}

TypeOK ==
    /\ dedup \in [Pairs -> IDs \cup {NoID}]
    /\ owner \in [IDs -> Pairs \cup {NoPair}]
    /\ status \in [IDs -> {"none", "pending", "approved", "denied"}]
    /\ allIdx \subseteq IDs /\ pendingIdx \subseteq IDs /\ userIdx \subseteq IDs
    /\ accepted \subseteq IDs
    /\ listed \subseteq Services
    /\ members \subseteq Users \X Groups
    /\ pc \in [Handlers -> {"idle", "grant", "adding"} \cup CreateSteps \cup ResolveSteps]
    /\ rid \in [Handlers -> IDs \cup {NoID}]
    /\ verdict \in [Handlers -> {"approved", "denied"}]
    /\ groups \in [Handlers -> SUBSET Groups]
    /\ revived \subseteq IDs /\ tainted \subseteq Pairs

Init ==
    /\ dedup = [p \in Pairs |-> NoID]
    /\ owner = [i \in IDs |-> NoPair]
    /\ status = [i \in IDs |-> "none"]
    /\ allIdx = {} /\ pendingIdx = {} /\ userIdx = {}
    /\ accepted = {}
    /\ listed = Services
    /\ members = {}
    /\ pc = [h \in Handlers |-> "idle"]
    /\ rid = [h \in Handlers |-> NoID]
    /\ verdict = [h \in Handlers |-> "denied"]
    /\ groups = [h \in Handlers |-> {}]
    /\ revived = {} /\ tainted = {}

(* Handler h answers; it works on nothing any more.                        *)
Done(h) ==
    /\ pc' = [pc EXCEPT ![h] = "idle"]
    /\ rid' = [rid EXCEPT ![h] = NoID]
    /\ verdict' = [verdict EXCEPT ![h] = "denied"]

GoTo(h, step) ==
    /\ pc' = [pc EXCEPT ![h] = step]
    /\ UNCHANGED <<rid, verdict>>

-----------------------------------------------------------------------------
(* handleRequestAccess and Store.Create.                                   *)

(* Mutation of RequestAccess: SET without NX.                              *)
RequestAccessNoNX(h, p, id) ==
    /\ pc[h] = "idle" /\ owner[id] = NoPair
    /\ p[2] \in listed \ StaticServices
    /\ owner' = [owner EXCEPT ![id] = p]
    /\ dedup' = [dedup EXCEPT ![p] = id]
    /\ pc' = [pc EXCEPT ![h] = "hset"] /\ rid' = [rid EXCEPT ![h] = id]
    /\ UNCHANGED <<status, allIdx, pendingIdx, userIdx, accepted, listed, members,
                   verdict, groups, historyVars>>

(* The service is looked up, static services are refused, an ID is         *)
(* generated and SET NX takes the dedup key.  When the key exists the      *)
(* answer is 409 and nothing changes.                                      *)
RequestAccess(h, p, id) ==
    /\ pc[h] = "idle" /\ owner[id] = NoPair
    /\ p[2] \in listed \ StaticServices
    /\ dedup[p] = NoID
    /\ owner' = [owner EXCEPT ![id] = p]
    /\ dedup' = [dedup EXCEPT ![p] = id]
    /\ pc' = [pc EXCEPT ![h] = "hset"] /\ rid' = [rid EXCEPT ![h] = id]
    /\ UNCHANGED <<status, allIdx, pendingIdx, userIdx, accepted, listed, members,
                   verdict, groups, historyVars>>

(* The pipeline: HSET, then ZADD to the all, pending and user indexes.  A  *)
(* repeated HSET meets a request that is there, and perhaps decided: it is *)
(* pending again, and the decision took, or will take, its key.            *)
CreateHash(h) ==
    /\ pc[h] = "hset" /\ GoTo(h, "zall")
    /\ status' = [status EXCEPT ![rid[h]] = "pending"]
    /\ IF status[rid[h]] \in {"approved", "denied"}
       THEN revived' = revived \cup {rid[h]} /\ tainted' = tainted \cup {owner[rid[h]]}
       ELSE UNCHANGED historyVars
    /\ UNCHANGED <<dedup, owner, allIdx, pendingIdx, userIdx, accepted, listed, members, groups>>

CreateIndexAll(h) ==
    /\ pc[h] = "zall" /\ GoTo(h, "zpending")
    /\ allIdx' = allIdx \cup {rid[h]}
    /\ UNCHANGED <<dedup, owner, status, pendingIdx, userIdx, accepted, listed, members,
                   groups, historyVars>>

CreateIndexPending(h) ==
    /\ pc[h] = "zpending" /\ GoTo(h, "zuser")
    /\ pendingIdx' = pendingIdx \cup {rid[h]}
    /\ UNCHANGED <<dedup, owner, status, allIdx, userIdx, accepted, listed, members,
                   groups, historyVars>>

(* The last command of the pipeline; the caller is answered 202 unless the *)
(* reply is lost, and the pipeline sent again or, after the last try, taken *)
(* for one that failed.                                                    *)
CreateIndexUser(h) ==
    /\ pc[h] = "zuser"
    /\ userIdx' = userIdx \cup {rid[h]}
    /\ \/ Done(h) /\ accepted' = accepted \cup {rid[h]}
       \/ Failures /\ GoTo(h, "hset") /\ UNCHANGED accepted
       \/ Failures /\ GoTo(h, "cleanup") /\ UNCHANGED accepted
    /\ UNCHANGED <<dedup, owner, status, allIdx, pendingIdx, listed, members, groups, historyVars>>

(* The connection breaks after some of the commands, and the pipeline is   *)
(* sent again.                                                             *)
CreateResend(h) ==
    /\ Failures
    /\ pc[h] \in {"zall", "zpending", "zuser"}
    /\ GoTo(h, "hset")
    /\ UNCHANGED <<storeVars, accepted, listed, members, groups, historyVars>>

(* The last try fails after some of its commands, or before the first.     *)
CreateFails(h) ==
    /\ Failures
    /\ pc[h] \in {"hset", "zall", "zpending", "zuser"}
    /\ GoTo(h, "cleanup")
    /\ UNCHANGED <<storeVars, accepted, listed, members, groups, historyVars>>

(* DEL of the dedup key of request id, whoever holds it.  own says that    *)
(* the request is finished, so that the key, if it is its own, is free.    *)
Release(id, own) ==
    /\ dedup' = [dedup EXCEPT ![owner[id]] = NoID]
    /\ tainted' = IF dedup[owner[id]] \in {id, NoID} /\ own
                  THEN tainted ELSE tainted \cup {owner[id]}

(* The best-effort cleanup after a failed pipeline, answered 500; a DEL    *)
(* whose reply is lost is sent again.                                      *)
CreateCleanup(h) ==
    /\ pc[h] = "cleanup"
    /\ Done(h) \/ (Failures /\ GoTo(h, "cleanup"))
    /\ Release(rid[h], status[rid[h]] # "pending")
    /\ UNCHANGED <<owner, status, allIdx, pendingIdx, userIdx, accepted, listed, members, groups,
                   revived>>

-----------------------------------------------------------------------------
(* handleAdminAccessRequestSub and Store.UpdateStatus.                     *)

(* Mutation of Resolve: ZREM goes out before the status is written.        *)
ResolveUnindexFirst(h, id, v) ==
    /\ pc[h] = "idle" /\ status[id] # "none"
    /\ pc' = [pc EXCEPT ![h] = "setStatus"]
    /\ rid' = [rid EXCEPT ![h] = id] /\ verdict' = [verdict EXCEPT ![h] = v]
    /\ pendingIdx' = pendingIdx \ {id}
    /\ UNCHANGED <<dedup, owner, status, allIdx, userIdx, accepted, listed,
                   members, groups, historyVars>>

(* HGETALL finds the request; an unknown ID is answered 404 and nothing    *)
(* changes.  The status the request already has is not looked at.          *)
Resolve(h, id, v) ==
    /\ pc[h] = "idle" /\ status[id] # "none"
    /\ pc' = [pc EXCEPT ![h] = "setStatus"]
    /\ rid' = [rid EXCEPT ![h] = id] /\ verdict' = [verdict EXCEPT ![h] = v]
    /\ UNCHANGED <<dedup, owner, status, allIdx, pendingIdx, userIdx, accepted, listed,
                   members, groups, historyVars>>

(* The pipeline: HSET status, ZREM from the pending index, DEL dedup key.  *)
ResolveStatus(h) ==
    /\ pc[h] = "setStatus" /\ GoTo(h, "zrem")
    /\ status' = [status EXCEPT ![rid[h]] = verdict[h]]
    /\ UNCHANGED <<dedup, owner, allIdx, pendingIdx, userIdx, accepted, listed, members,
                   groups, historyVars>>

ResolveUnindex(h) ==
    /\ pc[h] = "zrem" /\ GoTo(h, "unlock")
    /\ pendingIdx' = pendingIdx \ {rid[h]}
    /\ UNCHANGED <<dedup, owner, status, allIdx, userIdx, accepted, listed, members,
                   groups, historyVars>>

(* Mutation of ResolveUnlock: a denied request keeps its dedup key.        *)
ResolveUnlockApprovedOnly(h) ==
    /\ pc[h] = "unlock"
    /\ IF verdict[h] = "approved"
       THEN Release(rid[h], TRUE) /\ GoTo(h, "grant")
       ELSE UNCHANGED <<dedup, tainted>> /\ Done(h)
    /\ UNCHANGED <<owner, status, allIdx, pendingIdx, userIdx, accepted, listed, members, groups,
                   revived>>

(* Mutation of ResolveUnlock: only the handler of an approval gets that far. *)
ResolveUnlockStuck(h) ==
    /\ pc[h] = "unlock" /\ verdict[h] = "approved"
    /\ GoTo(h, "grant")
    /\ Release(rid[h], TRUE)
    /\ UNCHANGED <<owner, status, allIdx, pendingIdx, userIdx, accepted, listed, members, groups,
                   revived>>

(* Mutation of ResolveUnlock: the groups are granted whatever was decided. *)
ResolveUnlockGrantsAlways(h) ==
    /\ pc[h] = "unlock" /\ GoTo(h, "grant")
    /\ Release(rid[h], TRUE)
    /\ UNCHANGED <<owner, status, allIdx, pendingIdx, userIdx, accepted, listed, members, groups,
                   revived>>

(* Without a reply the pipeline is sent again, or the handler gives up.    *)
ResolveUnlock(h) ==
    /\ pc[h] = "unlock"
    /\ \/ IF verdict[h] = "approved" THEN GoTo(h, "grant") ELSE Done(h)
       \/ Failures /\ (GoTo(h, "setStatus") \/ Done(h))
    /\ Release(rid[h], TRUE)
    /\ UNCHANGED <<owner, status, allIdx, pendingIdx, userIdx, accepted, listed, members, groups,
                   revived>>

(* The connection breaks after some of the commands, and the pipeline is   *)
(* sent again.                                                             *)
ResolveResend(h) ==
    /\ Failures
    /\ pc[h] \in {"zrem", "unlock"} /\ GoTo(h, "setStatus")
    /\ UNCHANGED <<storeVars, accepted, listed, members, groups, historyVars>>

(* applyKeycloakGroupMembership: nothing is granted without a client, or   *)
(* when the service is gone, static or requires no group.                  *)
GrantsFor(svc) ==
    IF KeycloakEnabled /\ svc \in listed \ StaticServices THEN RequiredGroups[svc] ELSE {}

Grant(h) ==
    /\ pc[h] = "grant"
    /\ groups' = [groups EXCEPT ![h] = GrantsFor(owner[rid[h]][2])]
    /\ GoTo(h, "adding")
    /\ UNCHANGED <<storeVars, accepted, listed, members, historyVars>>

(* Mutation of AddUserToGroup: the loop ends after its first group.        *)
AddUserToFirstGroup(h, g) ==
    /\ pc[h] = "adding" /\ g \in groups[h]
    /\ members' = members \cup {<<owner[rid[h]][1], g>>}
    /\ groups' = [groups EXCEPT ![h] = {}]
    /\ UNCHANGED <<storeVars, accepted, listed, pc, rid, verdict, historyVars>>

(* One iteration of the loop over the required groups; an error is logged  *)
(* and the next group tried.                                               *)
AddUserToGroup(h, g) ==
    /\ pc[h] = "adding" /\ g \in groups[h]
    /\ \/ members' = members \cup {<<owner[rid[h]][1], g>>}
       \/ Failures /\ UNCHANGED members
    /\ groups' = [groups EXCEPT ![h] = @ \ {g}]
    /\ UNCHANGED <<storeVars, accepted, listed, pc, rid, verdict, historyVars>>

GrantDone(h) ==
    /\ pc[h] = "adding" /\ groups[h] = {}
    /\ Done(h)
    /\ UNCHANGED <<storeVars, accepted, listed, members, groups, historyVars>>

-----------------------------------------------------------------------------
(* Environment.                                                            *)

(* The process dies, or the handler gives up on a failed command: nothing  *)
(* undoes the commands that already took effect.  At "hset" it is also the *)
(* creation whose SET NX was sent twice and refused for its own key.       *)
Abort(h) ==
    /\ Failures
    /\ pc[h] # "idle" /\ Done(h)
    /\ groups' = [groups EXCEPT ![h] = {}]
    /\ UNCHANGED <<storeVars, accepted, listed, members, historyVars>>

(* The watcher adds or removes a service.                                  *)
Relist(svc) ==
    /\ listed' = IF svc \in listed THEN listed \ {svc} ELSE listed \cup {svc}
    /\ UNCHANGED <<storeVars, accepted, members, handlerVars, historyVars>>

Step(h) ==
    \/ CreateHash(h) \/ CreateIndexAll(h) \/ CreateIndexPending(h) \/ CreateIndexUser(h)
    \/ CreateCleanup(h)
    \/ ResolveStatus(h) \/ ResolveUnindex(h) \/ ResolveUnlock(h)
    \/ Grant(h) \/ (\E g \in Groups : AddUserToGroup(h, g)) \/ GrantDone(h)

Next ==
    \/ \E h \in Handlers :
          \/ \E p \in Pairs, id \in IDs : RequestAccess(h, p, id)
          \/ \E id \in IDs, v \in {"approved", "denied"} : Resolve(h, id, v)
          \/ Step(h) \/ CreateResend(h) \/ CreateFails(h) \/ ResolveResend(h) \/ Abort(h)
    \/ \E svc \in Services : Relist(svc)

Spec == Init /\ [][Next]_vars

(* A handler that is running gets to its end.                              *)
FairSpec == Spec /\ \A h \in Handlers : WF_vars(Step(h))

-----------------------------------------------------------------------------
(* Properties.                                                             *)

(* Whatever interleaves, fails or is sent twice: unless the key was deleted *)
(* for a request it did not belong to, or a repeated HSET took a decision  *)
(* back, a pending request holds the dedup key of its user and service, so *)
(* Create refuses a second one.                                            *)
PendingHoldsKey ==
    \A id \in IDs : status[id] = "pending" /\ owner[id] \notin tainted
                    => dedup[owner[id]] = id

(* Every ID in an index has its hash, so no listing drops an entry: HSET   *)
(* comes first, and a broken pipeline loses only what follows.             *)
IndexedHasHash ==
    \A id \in allIdx \cup pendingIdx \cup userIdx : status[id] # "none"

(* A request that was answered 202 stays in the caller's and the admins'   *)
(* lists, and in the pending queue until its status is final, whatever     *)
(* resolving handler died halfway; but a request put back to pending by a  *)
(* repeated HSET may be taken from the queue by the handler that decided it. *)
AcceptedStaysVisible ==
    \A id \in accepted : /\ id \in allIdx \cap userIdx
                         /\ status[id] = "pending" /\ id \notin revived => id \in pendingIdx

(* A handler that is at work works on a generated ID, each creation on one *)
(* of its own.                                                             *)
HandlersOwnTheirIDs ==
    /\ \A h \in Handlers : pc[h] # "idle" => rid[h] \in IDs /\ owner[rid[h]] # NoPair
    /\ \A h, k \in Handlers : pc[h] \in CreateSteps /\ pc[k] \in CreateSteps /\ rid[h] = rid[k]
                              => h = k

(* What the hash of a request holds at each command of the pipelines.      *)
HashFollowsPipeline ==
    /\ \A id \in IDs : owner[id] = NoPair => status[id] = "none"
    /\ \A id \in revived : status[id] # "none" /\ owner[id] \in tainted
    /\ \A h \in Handlers :
          /\ pc[h] \in {"zall", "zpending", "zuser", "setStatus"} => status[rid[h]] # "none"
          /\ pc[h] \in {"zrem", "unlock", "grant", "adding"} =>
                status[rid[h]] \in {"approved", "denied"}
                    \/ (status[rid[h]] = "pending" /\ rid[h] \in revived)

(* The key is held from SET NX on, before there is a hash.                 *)
CreatorHoldsKey ==
    \A h \in Handlers : /\ pc[h] = "hset" /\ status[rid[h]] = "none"
                        /\ owner[rid[h]] \notin tainted
                        => dedup[owner[rid[h]]] = rid[h]

(* What the pipeline of Create has indexed at each of its commands.        *)
IndexesFollowPipeline ==
    \A h \in Handlers :
        /\ pc[h] \in {"zpending", "zuser"} => rid[h] \in allIdx
        /\ pc[h] = "zuser" /\ status[rid[h]] = "pending" /\ rid[h] \notin revived
              => rid[h] \in pendingIdx

(* A handler that grants groups does so for an approval it stored, and     *)
(* only the groups the service requires.                                   *)
GrantIsApproved ==
    \A h \in Handlers :
        /\ pc[h] \in {"grant", "adding"} => verdict[h] = "approved"
        /\ groups[h] \subseteq IF pc[h] = "adding" THEN RequiredGroups[owner[rid[h]][2]] ELSE {}

(* The inductive invariant behind the safety properties.                   *)
IInv ==
    /\ TypeOK
    /\ HandlersOwnTheirIDs /\ HashFollowsPipeline
    /\ CreatorHoldsKey /\ PendingHoldsKey
    /\ IndexedHasHash /\ IndexesFollowPipeline /\ AcceptedStaysVisible
    /\ GrantIsApproved

(* Without failures a resolved request gives its dedup key back, so the    *)
(* user can ask again.                                                     *)
ResolvedFreesKey ==
    \A id \in IDs, p \in Pairs :
        (status[id] \in {"approved", "denied"} /\ dedup[p] = id) ~> dedup[p] # id

(* Without failures an approval that was stored puts the user in every     *)
(* group the service requires, unless the service left the cache meanwhile. *)
ApprovalGrants ==
    \A h \in Handlers, id \in IDs, p \in Pairs :
        (pc[h] = "zrem" /\ rid[h] = id /\ owner[id] = p /\ verdict[h] = "approved") ~>
            \/ p[2] \notin listed
            \/ \A g \in RequiredGroups[p[2]] : <<p[1], g>> \in members

(* Requests that were approved by a handler which has yet to finish.       *)
Granting ==
    {id \in IDs : \E h \in Handlers :
        rid[h] = id /\ verdict[h] = "approved" /\ pc[h] \in {"zrem", "unlock", "grant", "adding"}}

(* Requests whose creation has not been answered yet.                      *)
Filing == {id \in IDs : \E h \in Handlers : rid[h] = id /\ pc[h] \in CreateSteps}

(* However pipelines interleave, break and are sent again, the hashes and  *)
(* the groups are those of a book of requests: nothing is pending twice    *)
(* outside a dispute, a decision is never taken back to pending once the   *)
(* creation of the request was answered, and nobody gets into a group      *)
(* without an approval that was stored for a service requiring it.         *)
Book == INSTANCE RequestBook WITH
            filing <- Filing, disputed <- tainted, granting <- Granting
RequestsAreBooked == Book!Spec

(* As store.go:76 and store.go:100 say: there is at most one pending       *)
(* request of a user for a service.                                        *)
OnePendingPerPair ==
    \A i, j \in IDs : status[i] = "pending" /\ status[j] = "pending" /\ owner[i] = owner[j]
                      => i = j

(* Handler h is still creating or resolving request id.                    *)
Busy(id) == \E h \in Handlers : rid[h] = id /\ pc[h] \in CreateSteps \cup ResolveSteps

(* Create refuses for the sake of a request that is there: without failures *)
(* a held key belongs to a request of that user and service that is        *)
(* pending, or that a handler is still working on, whoever resolves what   *)
(* how often.  (A process that dies after SET NX leaves a key for good.)   *)
RefusalMeansPending ==
    ~Failures => \A p \in Pairs : dedup[p] # NoID =>
        /\ owner[dedup[p]] = p
        /\ status[dedup[p]] = "pending" \/ Busy(dedup[p])

(* Why it holds: a held key is that of a pending request, of a creation    *)
(* that has yet to write its hash, or of a decision that has yet to delete *)
(* the key.                                                                *)
KeyHolderIsAtWork ==
    ~Failures => \A p \in Pairs : dedup[p] # NoID =>
        /\ owner[dedup[p]] = p
        /\ \/ status[dedup[p]] = "pending"
           \/ \E h \in Handlers : rid[h] = dedup[p] /\ pc[h] \in {"hset", "zrem", "unlock"}
=============================================================================
