---------------------------- MODULE Notifications ----------------------------
(***************************************************************************)
(* Notifications: the Redis store (internal/notifications/store.go), the   *)
(* producers (watcher, health checker, startup, admin handler), the list   *)
(* and mark handlers (internal/api/handlers.go) and the hub's push.        *)
(*                                                                         *)
(* Every Redis command is a step.  The commands of a pipeline run in       *)
(* order, others may come in between, and the connection may break after   *)
(* any of them; go-redis then sends the whole pipeline again, up to        *)
(* MaxRetries times.  Time is counted in ticks of the retention; a post    *)
(* takes less than its retention, which Tick's guard says.                 *)
(***************************************************************************)
EXTENDS AccessPolicy, Naturals

CONSTANTS
    Notices,     \* notification IDs (UUIDs): each is drawn once, for one draft
    Tagged,      \* drafts of watcher and health checker: they name a service
    Visibility,  \* visibility of the service of a tagged draft when it was posted
    Required,    \* its required groups
    Retention,   \* s.retention, in ticks
    MaxRetries,  \* of a pipeline
    Failures     \* whether Redis and processes may fail

ASSUME NoticeAssumption ==
    /\ Tagged \subseteq Notices
    /\ Retention \in Nat \ {0} /\ MaxRetries \in Nat /\ Failures \in BOOLEAN

VARIABLES
    ready,    \* the validator has keys
    post,     \* how far each notification's producer is
    tries,    \* how often its pipeline was sent again
    stored,   \* notifications whose hash exists
    ttl,      \* remaining ticks of the hash; 0 when there is no hash or no TTL
    index,    \* the sorted set nebari:notifs
    reads,    \* the sets nebari:reads:{user}
    pushed,   \* what the hub wrote to each caller's socket
    rq,       \* each caller's request
    left,     \* its IDs still to be fetched
    got,      \* its hashes fetched
    target,   \* the notification it marks, a set of at most one
    shown,    \* its answer: the notifications
    flagged,  \* and those with "read" set
    acked,    \* history: marks answered with 204, per user
    due,      \* history: what was up when the listing began and still is
    prior     \* history: acked when it began

storeVars == <<stored, ttl, index, reads>>
postVars  == <<post, tries, pushed>>
listVars  == <<left, got, due, prior>>
reqVars   == <<rq, listVars, target, shown, flagged, acked>>
vars == <<ready, storeVars, postVars, reqVars>>

Stages   == {"new", "begun", "hashed", "timed", "indexed", "created", "over"}
InFlight == {"begun", "hashed", "timed", "indexed"}

TypeOK ==
    /\ ready \in BOOLEAN
    /\ post \in [Notices -> Stages] /\ tries \in [Notices -> 0 .. MaxRetries]
    /\ stored \subseteq Notices /\ index \subseteq Notices
    /\ ttl \in [Notices -> 0 .. Retention]
    /\ reads \in [Users -> SUBSET Notices] /\ acked \in [Users -> SUBSET Notices]
    /\ rq \in [Callers -> {"idle", "fetch", "mark", "marked", "answered", "degraded"}]
    /\ pushed \in [Callers -> SUBSET Notices] /\ target \in [Callers -> SUBSET Notices]
    /\ left \in [Callers -> SUBSET Notices] /\ got \in [Callers -> SUBSET Notices]
    /\ shown \in [Callers -> SUBSET Notices] /\ flagged \in [Callers -> SUBSET Notices]
    /\ due \in [Callers -> SUBSET Notices] /\ prior \in [Callers -> SUBSET Notices]

Nothing == [c \in Callers |-> {}]

Init ==
    /\ ready = FALSE
    /\ post = [n \in Notices |-> "new"] /\ tries = [n \in Notices |-> 0]
    /\ stored = {} /\ ttl = [n \in Notices |-> 0] /\ index = {}
    /\ reads = [u \in Users |-> {}] /\ acked = [u \in Users |-> {}]
    /\ rq = [c \in Callers |-> "idle"]
    /\ pushed = Nothing /\ left = Nothing /\ got = Nothing /\ target = Nothing
    /\ shown = Nothing /\ flagged = Nothing /\ due = Nothing /\ prior = Nothing

(* What a listing finds: indexed, with a hash.                             *)
Listed == index \cap stored

-----------------------------------------------------------------------------
(* Access to a notification.                                               *)

(* The requiredGroups field: "" (here <<>>) for none, else their JSON.     *)
EncodeGroups(g) == IF g = {} THEN <<>> ELSE <<g>>
DecodeGroups(s) == IF s = <<>> THEN {} ELSE s[1]

(* The filter of handleGetNotifications on a record read from its hash.    *)
ListFilter(c, n) ==
    \/ n \notin Tagged
    \/ CanAccessService(Visibility[n], DecodeGroups(EncodeGroups(Required[n])), c, ready)

(* Mutation of PushFilter: tagged notifications are not filtered.          *)
PushToAll(c, n) == TRUE

(* The filter of broadcastNotification on the principal of c's socket.     *)
PushFilter(c, n) ==
    \/ n \notin Tagged
    \/ CanAccessPolicy(Visibility[n], Authenticated(c, ready), Required[n], GroupsOf(c, ready))

(* handleWS: with authentication on, only a valid token opens a socket.    *)
MayConnect(c) == ~AuthEnabled \/ Authenticated(c, ready)

-----------------------------------------------------------------------------
(* Producers and CreateDraft.                                              *)
Begin(n) ==
    /\ post[n] = "new" /\ post' = [post EXCEPT ![n] = "begun"]
    /\ UNCHANGED <<ready, storeVars, tries, pushed, reqVars>>

(* postNotif of the watcher, postRecoveryNotif of the health checker.      *)
PostNotif(n) == n \in Tagged /\ Begin(n)

(* main posts the welcome before it creates the validator.                 *)
PostWelcome(n) == n \notin Tagged /\ ~ready /\ Begin(n)

(* handleAdminCreateNotification.                                          *)
AdminCreate(c, n) ==
    /\ n \notin Tagged
    /\ RequireAdmin(c, ready)
    /\ Begin(n)

HSet(n) ==
    /\ post[n] = "begun" /\ post' = [post EXCEPT ![n] = "hashed"]
    /\ stored' = stored \cup {n}
    /\ UNCHANGED <<ready, ttl, index, reads, tries, pushed, reqVars>>

Expire(n) ==
    /\ post[n] = "hashed" /\ post' = [post EXCEPT ![n] = "timed"]
    /\ ttl' = [ttl EXCEPT ![n] = Retention]
    /\ UNCHANGED <<ready, stored, index, reads, tries, pushed, reqVars>>

ZAdd(n) ==
    /\ post[n] = "timed" /\ post' = [post EXCEPT ![n] = "indexed"]
    /\ index' = index \cup {n}
    /\ UNCHANGED <<ready, stored, ttl, reads, tries, pushed, reqVars>>

(* The reply of the pipeline arrives: CreateDraft returns.                 *)
Created(n) ==
    /\ post[n] = "indexed" /\ post' = [post EXCEPT ![n] = "created"]
    /\ tries' = [tries EXCEPT ![n] = 0]
    /\ UNCHANGED <<ready, storeVars, pushed, reqVars>>

(* PublishNotification and the hub's broadcastNotification.  Pub/Sub keeps *)
(* nothing: it reaches the callers whose socket is open and whose replica  *)
(* hears the channel at that moment.                                       *)
Publish(n) ==
    /\ post[n] = "created" /\ post' = [post EXCEPT ![n] = "over"]
    /\ \E reached \in SUBSET {c \in Callers : MayConnect(c)} :
           pushed' = [c \in Callers |->
               IF c \in reached /\ PushFilter(c, n) THEN pushed[c] \cup {n} ELSE pushed[c]]
    /\ UNCHANGED <<ready, storeVars, tries, reqVars>>

(* The connection breaks somewhere in the pipeline, go-redis sends it      *)
(* again.                                                                  *)
Resend(n) ==
    /\ Failures /\ post[n] \in {"hashed", "timed", "indexed"} /\ tries[n] < MaxRetries
    /\ post' = [post EXCEPT ![n] = "begun"]
    /\ tries' = [tries EXCEPT ![n] = @ + 1]
    /\ UNCHANGED <<ready, storeVars, pushed, reqVars>>

(* CreateDraft returns an error, which is logged or answered with 500, or  *)
(* the process dies before it has published.                               *)
PostFails(n) ==
    /\ Failures /\ post[n] \in InFlight \cup {"created"}
    /\ post' = [post EXCEPT ![n] = "over"]
    /\ tries' = [tries EXCEPT ![n] = 0]
    /\ UNCHANGED <<ready, storeVars, pushed, reqVars>>

(* A tick of time; hashes whose TTL is over are gone.                      *)
Tick ==
    /\ \E n \in Notices : ttl[n] > 0
    /\ \A n \in Notices : post[n] \in InFlight => ttl[n] # 1
    /\ ttl' = [n \in Notices |-> IF ttl[n] > 0 THEN ttl[n] - 1 ELSE 0]
    /\ stored' = {n \in stored : ttl[n] # 1}
    /\ due' = [c \in Callers |-> due[c] \cap stored']
    /\ UNCHANGED <<ready, index, reads, postVars, rq, left, got, prior, target, shown, flagged, acked>>

(* The validator's first fetch succeeds.                                   *)
ValidatorReady ==
    /\ ~ready /\ ready' = TRUE
    /\ UNCHANGED <<storeVars, postVars, reqVars>>

-----------------------------------------------------------------------------
(* handleGetNotifications.                                                 *)

(* List, first command: the IDs.                                           *)
ZRange(c) ==
    /\ rq[c] = "idle" /\ rq' = [rq EXCEPT ![c] = "fetch"]
    /\ left' = [left EXCEPT ![c] = index]
    /\ due' = [due EXCEPT ![c] = Listed]
    /\ prior' = [prior EXCEPT ![c] = IF UserOf(c) = NoUser THEN {} ELSE acked[UserOf(c)]]
    /\ UNCHANGED <<ready, storeVars, postVars, got, target, shown, flagged, acked>>

(* Mutation of HGetAll: an ID without a hash ends the listing.             *)
HGetAllStops(c, n) ==
    /\ rq[c] = "fetch" /\ n \in left[c]
    /\ left' = [left EXCEPT ![c] = IF n \in stored THEN @ \ {n} ELSE {}]
    /\ got' = [got EXCEPT ![c] = IF n \in stored THEN @ \cup {n} ELSE @]
    /\ UNCHANGED <<ready, storeVars, postVars, rq, due, prior, target, shown, flagged, acked>>

(* One HGETALL of its pipeline: an ID whose hash is gone is skipped.       *)
HGetAll(c, n) ==
    /\ rq[c] = "fetch" /\ n \in left[c]
    /\ left' = [left EXCEPT ![c] = @ \ {n}]
    /\ got' = [got EXCEPT ![c] = IF n \in stored THEN @ \cup {n} ELSE @]
    /\ UNCHANGED <<ready, storeVars, postVars, rq, due, prior, target, shown, flagged, acked>>

(* Mutation of ReadSet: looked up under the token's subject.               *)
ReadSetBySubject(c) == IF Authenticated(c, ready) THEN reads[Subject[c]] ELSE {}

(* The read set, only looked up under preferred_username.                  *)
ReadSet(c) ==
    IF Authenticated(c, ready) /\ Username[c] # NoUser THEN reads[Username[c]] ELSE {}

(* The token is validated, the read set fetched and the list filtered; 503 *)
(* while the validator has no keys, everything unread when the read set    *)
(* cannot be fetched.                                                      *)
Answer(c) ==
    /\ rq[c] = "fetch" /\ left[c] = {}
    /\ got' = [got EXCEPT ![c] = {}]
    /\ LET list == {n \in got[c] : ListFilter(c, n)} IN
       \/ /\ ExtractAndValidateJWT(c, ready) = "not ready"
          /\ rq' = [rq EXCEPT ![c] = "idle"] /\ UNCHANGED <<shown, flagged>>
          /\ due' = [due EXCEPT ![c] = {}] /\ prior' = [prior EXCEPT ![c] = {}]
       \/ /\ ExtractAndValidateJWT(c, ready) # "not ready"
          /\ rq' = [rq EXCEPT ![c] = "answered"]
          /\ shown' = [shown EXCEPT ![c] = list]
          /\ flagged' = [flagged EXCEPT ![c] = list \cap ReadSet(c)]
          /\ UNCHANGED <<due, prior>>
       \/ /\ Failures /\ Authenticated(c, ready) /\ Username[c] # NoUser
          /\ rq' = [rq EXCEPT ![c] = "degraded"]
          /\ shown' = [shown EXCEPT ![c] = list] /\ UNCHANGED <<flagged, due, prior>>
    /\ UNCHANGED <<ready, storeVars, postVars, left, target, acked>>

-----------------------------------------------------------------------------
(* handleNotificationSub and MarkRead.                                     *)

(* Mutation of Exists: any ID can be marked.                               *)
ExistsUnchecked(c, n) ==
    /\ rq[c] = "idle" /\ RequireAuth(c, ready) # NoUser
    /\ rq' = [rq EXCEPT ![c] = "mark"]
    /\ target' = [target EXCEPT ![c] = {n}]
    /\ UNCHANGED <<ready, storeVars, postVars, listVars, shown, flagged, acked>>

(* EXISTS; a missing notification is answered with 404.  IDs are random,   *)
(* so a caller has one from a listing or a push.                           *)
Exists(c, n) ==
    /\ rq[c] = "idle" /\ RequireAuth(c, ready) # NoUser
    /\ n \in index /\ n \in stored
    /\ rq' = [rq EXCEPT ![c] = "mark"]
    /\ target' = [target EXCEPT ![c] = {n}]
    /\ UNCHANGED <<ready, storeVars, postVars, listVars, shown, flagged, acked>>

SAdd(c) ==
    /\ rq[c] = "mark" /\ rq' = [rq EXCEPT ![c] = "marked"]
    /\ reads' = [reads EXCEPT ![RequireAuth(c, ready)] = @ \cup target[c]]
    /\ UNCHANGED <<ready, stored, ttl, index, postVars, listVars, target, shown, flagged, acked>>

(* 204.                                                                    *)
Marked(c) ==
    /\ rq[c] = "marked" /\ rq' = [rq EXCEPT ![c] = "idle"]
    /\ acked' = [acked EXCEPT ![RequireAuth(c, ready)] = @ \cup target[c]]
    /\ target' = [target EXCEPT ![c] = {}]
    /\ UNCHANGED <<ready, storeVars, postVars, listVars, shown, flagged>>

(* The caller has the answer or the request ends in an error, or breaks.   *)
EndRequest(c) ==
    /\ \/ rq[c] \in {"answered", "degraded"}
       \/ Failures /\ rq[c] # "idle"
    /\ rq' = [rq EXCEPT ![c] = "idle"]
    /\ left' = [left EXCEPT ![c] = {}] /\ got' = [got EXCEPT ![c] = {}]
    /\ target' = [target EXCEPT ![c] = {}]
    /\ shown' = [shown EXCEPT ![c] = {}] /\ flagged' = [flagged EXCEPT ![c] = {}]
    /\ due' = [due EXCEPT ![c] = {}] /\ prior' = [prior EXCEPT ![c] = {}]
    /\ UNCHANGED <<ready, storeVars, postVars, acked>>

-----------------------------------------------------------------------------
PostStep(n) == HSet(n) \/ Expire(n) \/ ZAdd(n) \/ Created(n) \/ Publish(n)

Next ==
    \/ Tick \/ ValidatorReady
    \/ \E n \in Notices :
           \/ PostNotif(n) \/ PostWelcome(n) \/ (\E c \in Callers : AdminCreate(c, n))
           \/ PostStep(n) \/ Resend(n) \/ PostFails(n)
    \/ \E c \in Callers :
           \/ ZRange(c) \/ Answer(c) \/ SAdd(c) \/ Marked(c) \/ EndRequest(c)
           \/ \E n \in Notices : HGetAll(c, n) \/ Exists(c, n)

Spec == Init /\ [][Next]_vars

-----------------------------------------------------------------------------
(* Properties.                                                             *)

(* Whatever a listing can show has a TTL, wherever a pipeline broke off.   *)
ShownHasDeadline == \A n \in Listed : ttl[n] > 0

(* May caller c know of notification n?  By the names of the groups.       *)
Entitled(c, n) ==
    \/ n \notin Tagged \/ Visibility[n] = "public"
    \/ /\ AuthEnabled /\ Header[c] = "valid"
       /\ Required[n] # {} => \E g \in ClaimGroups[c] : g.name \in {r.name : r \in Required[n]}

(* REST listing and WebSocket push tell a caller only of notifications     *)
(* whose service he could see when they were posted.                       *)
DeliveryIsEntitled ==
    \A c \in Callers : \A n \in shown[c] \cup pushed[c] : Entitled(c, n)

(* A listing leaves out nothing that was up from its beginning to its end, *)
(* whatever is posted or expires meanwhile.                                *)
ListIsComplete ==
    \A c \in Callers : rq[c] \in {"answered", "degraded"} =>
        {n \in due[c] : Entitled(c, n)} \subseteq shown[c]

(* What is pushed to anybody can be listed: it was stored before.          *)
PushedWasStored == \A c \in Callers : pushed[c] \subseteq index

(* A mark that was answered with 204 before a listing began is shown by    *)
(* it, for tokens with preferred_username.  (Those without are marked      *)
(* under their sub, and never looked up there.)                            *)
ReadMarkIsShown ==
    \A c \in Callers : rq[c] = "answered" /\ Username[c] # NoUser /\ Authenticated(c, ready) =>
        prior[c] \cap shown[c] \subseteq flagged[c]

(* How far the store is at each stage of a post, also of one sent again:   *)
(* a resent pipeline finds its hash, and the TTL it set, still there.      *)
StoreFollowsPost ==
    \A n \in Notices :
        /\ post[n] = "new" => n \notin index
        /\ post[n] \in {"hashed", "timed", "indexed"} => n \in stored
        /\ post[n] \in {"timed", "indexed"} => ttl[n] > 0
        /\ post[n] \in {"indexed", "created"} => n \in index
        /\ post[n] \in InFlight /\ n \in index => n \in stored /\ ttl[n] > 0

(* A listing still has to fetch, or has fetched, what is due.              *)
ListFollowsIndex ==
    \A c \in Callers :
        /\ due[c] \subseteq stored
        /\ rq[c] = "fetch" => due[c] \subseteq left[c] \cup got[c]
        /\ rq[c] \in {"answered", "degraded"} => ExtractAndValidateJWT(c, ready) # "not ready"

(* A mark is of a notification that was put up, by a user who is known,    *)
(* and is in the read set before it is answered.                           *)
MarksFollowReads ==
    /\ \A u \in Users : acked[u] \subseteq reads[u]
    /\ \A c \in Callers :
          /\ rq[c] \in {"mark", "marked"} => RequireAuth(c, ready) \in Users
          /\ rq[c] = "mark" => \E n \in index : target[c] = {n}
          /\ rq[c] = "marked" => target[c] \subseteq reads[RequireAuth(c, ready)]
          /\ UserOf(c) \in Users => prior[c] \subseteq reads[UserOf(c)]

(* The inductive invariant behind the safety properties and the board.     *)
IInv ==
    /\ TypeOK
    /\ StoreFollowsPost /\ ShownHasDeadline /\ PushedWasStored
    /\ DeliveryIsEntitled
    /\ ListFollowsIndex /\ ListIsComplete
    /\ MarksFollowReads /\ ReadMarkIsShown

(* The store implements the board: put up in one step and once, never up   *)
(* again after it expired, marks only of what was up and for good.         *)
Board == INSTANCE NoticeBoard WITH posted <- index, board <- Listed, marks <- reads
BoardSpec == Board!Spec
=============================================================================
