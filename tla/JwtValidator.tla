----------------------------- MODULE JwtValidator ----------------------------
(***************************************************************************)
(* The JWT validator (internal/auth/jwt_validator.go): the background load *)
(* of Keycloak's key set, the look-up of a token's key with the refresh    *)
(* that concurrent validations join, its cooldown and the negative cache.  *)
(*                                                                         *)
(* Every use the code makes of a time is a comparison with the present, so *)
(* times are kept as ages that a tick increases up to where the            *)
(* comparisons no longer change. A time that was never set (IsZero) is as  *)
(* good as the greatest age in each of them.                               *)
(***************************************************************************)
EXTENDS Naturals, FiniteSets

CONSTANTS
    Kids,          \* key IDs that tokens name
    NoKid,         \* no validation, no key ID
    KeySets,       \* the usable RSA keys Keycloak may serve
    Requests,      \* validations that run at the same time
    MaxAttempts,   \* retryMaxAttempts
    FetchTimeout,  \* deadline of a JWKS request
    Cooldown,      \* jwksRefreshMinInterval
    StaleAfter,    \* jwksStaleRefreshInterval
    NegTTL,        \* unknownKIDCacheTTL
    MaxEntries     \* unknownKIDCacheMaxEntries

ASSUME KeyAssumption == NoKid \notin Kids /\ KeySets \subseteq SUBSET Kids \ {{}}
ASSUME TimeAssumption ==
    /\ MaxAttempts \in Nat \ {0} /\ MaxEntries \in Nat \ {0} /\ NegTTL \in Nat \ {0}
    /\ FetchTimeout \in Nat /\ Cooldown \in Nat /\ StaleAfter \in Nat
    /\ FetchTimeout < Cooldown /\ Cooldown <= StaleAfter /\ NegTTL <= StaleAfter

VARIABLES
    served,     \* the keys of Keycloak's answer; {} if it has none or is none
    loop,       \* initLoop: "running" or "done"
    attempt,    \* its failed attempts, up to MaxAttempts; then it polls slowly
    stopped,    \* stopCh is closed
    ready,
    fetch,      \* fetchPublicKeys: "none", "request", "install", "clear", "ok", "failed"
    reply,      \* the key set it has decoded
    keys,       \* publicKeys
    fetchAge,   \* since lastFetch
    attemptAge, \* since lastRefreshAttempt
    unknown,    \* unknownKIDs: the key IDs in the negative cache
    left,       \* what is left of their time; 0: expired, not yet removed
    pc,         \* each validation
    kid,        \* the key ID it looks up
    due,        \* validations that read a lastFetch older than the cooldown
    async       \* validations that have their key and refresh in passing

loopVars  == <<loop, attempt, stopped, ready>>
fetchVars == <<fetch, reply>>
keyVars   == <<keys, fetchAge>>
negVars   == <<unknown, left>>
reqVars   == <<pc, kid, due, async>>
vars == <<served, loop, attempt, stopped, ready, fetch, reply, keys, fetchAge, attemptAge,
          unknown, left, pc, kid, due, async>>

(* The greatest age of the last fetch: older than the stale interval.      *)
Old == StaleAfter + 1

Labels == {"idle", "unknown", "read", "start", "wait", "again", "remember", "found"}

(* Loop, fetch, cache and validations are well formed.                     *)
TypeOK ==
    /\ served \in KeySets \cup {{}}
    /\ loop \in {"running", "done"} /\ attempt \in 0 .. MaxAttempts
    /\ stopped \in BOOLEAN /\ ready \in BOOLEAN
    /\ fetch \in {"none", "request", "install", "clear", "ok", "failed"}
    /\ reply \subseteq Kids /\ keys \subseteq Kids
    /\ fetchAge \in 0 .. Old /\ attemptAge \in 0 .. Cooldown
    /\ unknown \subseteq Kids /\ left \in [Kids -> 0 .. NegTTL]
    /\ pc \in [Requests -> Labels] /\ kid \in [Requests -> Kids \cup {NoKid}]
    /\ due \subseteq Requests /\ async \subseteq Requests

(* NewJWTValidator.                                                        *)
Init ==
    /\ served \in KeySets \cup {{}}
    /\ loop = "running" /\ attempt = 0 /\ stopped = FALSE /\ ready = FALSE
    /\ fetch = "none" /\ reply = {} /\ keys = {}
    /\ fetchAge = Old /\ attemptAge = Cooldown
    /\ unknown = {} /\ left = [k \in Kids |-> 0]
    /\ pc = [r \in Requests |-> "idle"] /\ kid = [r \in Requests |-> NoKid]
    /\ due = {} /\ async = {}

-----------------------------------------------------------------------------
(* Keycloak and the clock (external).                                      *)
Rotate ==
    /\ served' \in KeySets \cup {{}}
    /\ UNCHANGED <<loopVars, fetchVars, keyVars, attemptAge, negVars, reqVars>>

(* A request-time fetch ends by its deadline, and no goroutine is held up  *)
(* for a tick between time.Now() and the lock of startPublicKeysRefresh.   *)
Tick ==
    /\ ready /\ fetch # "none" => fetch = "request" /\ attemptAge < FetchTimeout
    /\ \A r \in Requests : pc[r] # "start"
    /\ fetchAge' = IF fetchAge < Old THEN fetchAge + 1 ELSE Old
    /\ attemptAge' = IF attemptAge < Cooldown THEN attemptAge + 1 ELSE Cooldown
    /\ left' = [k \in Kids |-> IF left[k] > 0 THEN left[k] - 1 ELSE 0]
    /\ UNCHANGED <<served, loopVars, fetchVars, keys, unknown, reqVars>>

-----------------------------------------------------------------------------
(* initLoop and Stop.                                                      *)

(* Mutation of InitFetch: no slow poll after the active retries.           *)
InitFetchGivesUp ==
    /\ loop = "running" /\ fetch = "none"
    /\ attempt < MaxAttempts /\ ~stopped
    /\ fetch' = "request"
    /\ UNCHANGED <<served, loopVars, reply, keyVars, attemptAge, negVars, reqVars>>

(* The next attempt: the active retries look for a stop first, the select  *)
(* of the slow poll may take its timer although stopCh is closed.          *)
InitFetch ==
    /\ loop = "running" /\ fetch = "none"
    /\ attempt < MaxAttempts => ~stopped
    /\ fetch' = "request"
    /\ UNCHANGED <<served, loopVars, reply, keyVars, attemptAge, negVars, reqVars>>

(* The first success makes the validator ready and ends the loop.          *)
InitResult ==
    /\ loop = "running" /\ fetch \in {"ok", "failed"}
    /\ fetch' = "none"
    /\ IF fetch = "ok"
       THEN ready' = TRUE /\ loop' = "done" /\ attempt' = 0
       ELSE /\ attempt' = IF attempt < MaxAttempts THEN attempt + 1 ELSE attempt
            /\ UNCHANGED <<ready, loop>>
    /\ UNCHANGED <<served, stopped, reply, keyVars, attemptAge, negVars, reqVars>>

(* Mutation of InitStop: the slow poll only waits for its timer.           *)
InitStopWhenActive ==
    /\ loop = "running" /\ fetch = "none" /\ stopped /\ attempt < MaxAttempts
    /\ loop' = "done"
    /\ UNCHANGED <<served, attempt, stopped, ready, fetchVars, keyVars, attemptAge, negVars, reqVars>>

(* stopped() before an active attempt, the stopCh case of the slow poll.   *)
InitStop ==
    /\ loop = "running" /\ fetch = "none" /\ stopped
    /\ loop' = "done"
    /\ UNCHANGED <<served, attempt, stopped, ready, fetchVars, keyVars, attemptAge, negVars, reqVars>>

(* close(stopCh); the wait for doneCh is the wait for loop = "done". Once   *)
(* the loop has ended nobody reads the channel.                            *)
Stop ==
    /\ loop = "running" /\ ~stopped /\ stopped' = TRUE
    /\ UNCHANGED <<served, loop, attempt, ready, fetchVars, keyVars, attemptAge, negVars, reqVars>>

-----------------------------------------------------------------------------
(* fetchPublicKeysOnce.                                                    *)

(* No answer in time, a status other than 200, no JSON and an answer with  *)
(* no key that parses are errors.                                          *)
FetchReply ==
    /\ fetch = "request"
    /\ reply' = served
    /\ fetch' = IF served = {} THEN "failed" ELSE "install"
    /\ UNCHANGED <<served, loopVars, keyVars, attemptAge, negVars, reqVars>>

(* keysMu: the map is replaced and lastFetch set.                          *)
Install ==
    /\ fetch = "install" /\ fetch' = "clear"
    /\ keys' = reply /\ fetchAge' = 0 /\ reply' = {}
    /\ UNCHANGED <<served, loopVars, attemptAge, negVars, reqVars>>

(* Mutation of ClearUnknown: the negative cache is kept.                   *)
ClearNothing ==
    /\ fetch = "clear" /\ fetch' = "ok"
    /\ UNCHANGED <<served, loopVars, reply, keyVars, attemptAge, negVars, reqVars>>

(* unknownKIDMu: clear(v.unknownKIDs).                                     *)
ClearUnknown ==
    /\ fetch = "clear" /\ fetch' = "ok"
    /\ unknown' = {} /\ left' = [k \in Kids |-> 0]
    /\ UNCHANGED <<served, loopVars, reply, keyVars, attemptAge, reqVars>>

-----------------------------------------------------------------------------
(* ValidateToken, for a well-formed token; before ready it is ErrNotReady. *)

Goto(r, l) ==
    /\ pc' = [pc EXCEPT ![r] = l]
    /\ kid' = IF l = "idle" THEN [kid EXCEPT ![r] = NoKid] ELSE kid

Lookup(r, k) ==
    /\ pc[r] = "idle" /\ ready
    /\ kid' = [kid EXCEPT ![r] = k]
    /\ pc' = [pc EXCEPT ![r] = IF k \in keys THEN "found" ELSE "unknown"]
    /\ UNCHANGED <<served, loopVars, fetchVars, keyVars, attemptAge, negVars, due, async>>

(* Mutation of UnknownCached: the time of an entry is not looked at.       *)
UnknownCachedForGood(r) ==
    /\ pc[r] = "unknown"
    /\ Goto(r, IF kid[r] \in unknown THEN "idle" ELSE "read")
    /\ UNCHANGED <<served, loopVars, fetchVars, keyVars, attemptAge, negVars, due, async>>

(* unknownKIDCached: refused while the entry lasts; an expired one goes.   *)
UnknownCached(r) ==
    /\ pc[r] = "unknown"
    /\ IF kid[r] \in unknown /\ left[kid[r]] > 0
       THEN Goto(r, "idle") /\ UNCHANGED unknown
       ELSE Goto(r, "read") /\ unknown' = unknown \ {kid[r]}
    /\ UNCHANGED <<served, loopVars, fetchVars, keyVars, attemptAge, left, due, async>>

(* startPublicKeysRefresh up to the lock: time.Now() and lastFetch.        *)
ReadLastFetch(r) ==
    /\ pc[r] = "read" /\ Goto(r, "start")
    /\ due' = IF fetchAge >= Cooldown THEN due \cup {r} ELSE due \ {r}
    /\ UNCHANGED <<served, loopVars, fetchVars, keyVars, attemptAge, negVars, async>>

(* What a validation does with a refresh in flight: wait, unless it has    *)
(* its key.                                                                *)
Join(r) == Goto(r, IF r \in async THEN "idle" ELSE "wait")

(* Mutation of StartRefresh: only successful fetches count.                *)
StartRefreshIgnoresFailures(r) ==
    /\ pc[r] = "start"
    /\ \/ /\ fetch # "none"
          /\ Join(r) /\ UNCHANGED <<fetch, attemptAge>>
       \/ /\ fetch = "none" /\ r \notin due
          /\ Goto(r, "idle") /\ UNCHANGED <<fetch, attemptAge>>
       \/ /\ fetch = "none" /\ r \in due
          /\ fetch' = "request" /\ attemptAge' = 0 /\ Join(r)
    /\ due' = due \ {r} /\ async' = async \ {r}
    /\ UNCHANGED <<served, loopVars, reply, keyVars, negVars>>

(* startPublicKeysRefresh under refreshMu: the refresh in flight, or       *)
(* skipped by the cooldown, or a new one.                                  *)
StartRefresh(r) ==
    /\ pc[r] = "start"
    /\ \/ /\ fetch # "none"
          /\ Join(r) /\ UNCHANGED <<fetch, attemptAge>>
       \/ /\ fetch = "none" /\ (attemptAge < Cooldown \/ r \notin due)
          /\ Goto(r, "idle") /\ UNCHANGED <<fetch, attemptAge>>
       \/ /\ fetch = "none" /\ attemptAge >= Cooldown /\ r \in due
          /\ fetch' = "request" /\ attemptAge' = 0 /\ Join(r)
    /\ due' = due \ {r} /\ async' = async \ {r}
    /\ UNCHANGED <<served, loopVars, reply, keyVars, negVars>>

(* Mutation of RefreshDone: done is only closed on success.                *)
RefreshDoneOnSuccess ==
    /\ loop = "done" /\ fetch \in {"ok", "failed"} /\ fetch' = "none"
    /\ pc' = [r \in Requests |->
                IF pc[r] = "wait" /\ fetch = "ok" THEN "again" ELSE pc[r]]
    /\ UNCHANGED <<served, loopVars, reply, keyVars, attemptAge, negVars, kid, due, async>>

(* The refresh goroutine's end: everybody who waits gets the result.       *)
RefreshDone ==
    /\ loop = "done" /\ fetch \in {"ok", "failed"} /\ fetch' = "none"
    /\ pc' = [r \in Requests |->
                IF pc[r] # "wait" THEN pc[r] ELSE IF fetch = "ok" THEN "again" ELSE "idle"]
    /\ kid' = [r \in Requests |-> IF pc[r] = "wait" /\ fetch = "failed" THEN NoKid ELSE kid[r]]
    /\ UNCHANGED <<served, loopVars, reply, keyVars, attemptAge, negVars, due, async>>

LookupAgain(r) ==
    /\ pc[r] = "again"
    /\ Goto(r, IF kid[r] \in keys THEN "found" ELSE "remember")
    /\ UNCHANGED <<served, loopVars, fetchVars, keyVars, attemptAge, negVars, due, async>>

(* pruneUnknownKIDsLocked.                                                 *)
Pruned == {k \in unknown : left[k] > 0}

(* rememberUnknownKID: at the limit any one entry makes room.              *)
RememberUnknown(r) ==
    /\ pc[r] = "remember" /\ Goto(r, "idle")
    /\ \E evicted \in IF Cardinality(Pruned) >= MaxEntries THEN {{k} : k \in Pruned} ELSE {{}} :
         /\ unknown' = (Pruned \ evicted) \cup {kid[r]}
         /\ left' = [k \in Kids |-> IF k = kid[r] THEN NegTTL
                                    ELSE IF k \in evicted THEN 0 ELSE left[k]]
    /\ UNCHANGED <<served, loopVars, fetchVars, keyVars, attemptAge, due, async>>

(* Mutation of Found: no refresh of a stale key set.                       *)
FoundWithoutRefresh(r) ==
    /\ pc[r] = "found" /\ Goto(r, "idle")
    /\ UNCHANGED <<served, loopVars, fetchVars, keyVars, attemptAge, negVars, due, async>>

(* The key is there: a stale key set is refreshed in the background.       *)
Found(r) ==
    /\ pc[r] = "found"
    /\ IF fetchAge > StaleAfter
       THEN Goto(r, "read") /\ async' = async \cup {r}
       ELSE Goto(r, "idle") /\ UNCHANGED async
    /\ UNCHANGED <<served, loopVars, fetchVars, keyVars, attemptAge, negVars, due>>

-----------------------------------------------------------------------------
Fetch == FetchReply \/ Install \/ ClearUnknown

Continue(r) ==
    \/ UnknownCached(r) \/ ReadLastFetch(r) \/ StartRefresh(r)
    \/ LookupAgain(r) \/ RememberUnknown(r) \/ Found(r)

Next ==
    \/ Rotate \/ Tick
    \/ InitFetch \/ InitResult \/ InitStop \/ Stop
    \/ Fetch \/ RefreshDone
    \/ \E r \in Requests : Continue(r) \/ \E k \in Kids : Lookup(r, k)

(* Goroutines run on and time passes: the few instructions before the lock *)
(* are not always being executed by someone. The select of the slow poll   *)
(* does not pass over a closed stopCh for ever.                            *)
Fairness ==
    /\ WF_vars(Fetch) /\ WF_vars(InitFetch) /\ WF_vars(InitResult) /\ WF_vars(RefreshDone)
    /\ SF_vars(InitStop)
    /\ SF_vars(Tick) /\ []<>(\A r \in Requests : pc[r] # "start")
    /\ \A r \in Requests : WF_vars(Continue(r))

Spec == Init /\ [][Next]_vars /\ Fairness

-----------------------------------------------------------------------------
(* Safety.                                                                 *)

(* A validator that is ready has keys: a failed or empty fetch neither     *)
(* makes it ready nor takes the keys it has (fetchPublicKeysOnce).         *)
ReadyHasKeys == ready => keys # {}

(* The negative cache never holds more than unknownKIDCacheMaxEntries key  *)
(* IDs, expired ones included (rememberUnknownKID).                        *)
NegativeCacheBounded == Cardinality(unknown) <= MaxEntries

(* A live negative entry was made after the present key set was loaded: a  *)
(* fetch drops what described the previous one (fetchPublicKeysOnce).      *)
NegativesDescribeKeys ==
    fetch # "clear" =>
        \A k \in unknown : left[k] > 0 => NegTTL - left[k] <= fetchAge

(* Request traffic causes no fetch within the cooldown of the last one,    *)
(* successful or not, although lastFetch is read before the lock           *)
(* (startPublicKeysRefresh).                                               *)
RefreshesAreSpaced ==
    [][ready /\ fetch = "none" /\ fetch' = "request" =>
         attemptAge >= Cooldown /\ fetchAge >= Cooldown]_vars

-----------------------------------------------------------------------------
(* Liveness.                                                               *)

(* Every validation ends, whatever Keycloak does: a refresh wakes all who  *)
(* joined it (startPublicKeysRefresh, refreshPublicKeysIfDue).             *)
ValidationEnds == \A r \in Requests : pc[r] # "idle" ~> pc[r] = "idle"

(* When Keycloak comes to stay, the validator becomes ready, however many  *)
(* attempts failed before (initLoop).                                      *)
BecomesReady == <>[](served # {}) => <>(ready \/ stopped)

(* Stop returns (Stop, initLoop).                                          *)
StopReturns == stopped ~> loop = "done"

Asked(k) == \E r \in Requests : pc[r] # "idle" /\ kid[r] = k

(* A key that Keycloak rotated in, even while it was unreachable, is       *)
(* loaded when tokens keep naming it (ValidateToken, unknownKIDCached).    *)
RotatedKeyIsLearned ==
    \A k \in Kids :
        <>[](k \in served) /\ []<>(ready /\ Asked(k)) => <>[](k \in keys)

(* A key that Keycloak withdrew is forgotten as long as tokens are         *)
(* validated at all (ValidateToken, jwksStaleRefreshInterval).             *)
RevokedKeyIsForgotten ==
    \A k \in Kids :
        <>[](served # {} /\ k \notin served) /\ []<>(\E r \in Requests : pc[r] = "found")
            => <>[](k \notin keys)

-----------------------------------------------------------------------------
(* What the safety properties rest on.                                     *)

(* The loop ends when it makes the validator ready, only a ready validator *)
(* validates, and a validation under way has a key ID.                     *)
ValidatesWhenReady ==
    /\ loop = "running" => ~ready
    /\ loop = "done" /\ fetch # "none" => ready
    /\ \A r \in Requests : pc[r] # "idle" => ready /\ kid[r] \in Kids

(* A key set on its way into the map is not empty.                         *)
FetchedKeysAreUsable ==
    /\ fetch = "install" => reply # {}
    /\ fetch \in {"clear", "ok"} => keys # {}

(* A refresh in flight began no longer ago than the deadline.              *)
RefreshIsRecent == ready /\ fetch # "none" => attemptAge <= FetchTimeout

(* Whoever read lastFetch before a refresh replaced it is held back by the *)
(* time of that attempt.                                                   *)
OutdatedReadIsHarmless ==
    \A r \in Requests :
        pc[r] = "start" /\ r \in due /\ fetchAge < Cooldown => attemptAge < Cooldown

(* Whoever waits for a refresh waits for one in flight, whose end wakes it *)
(* and which initLoop does not end in its stead: no wake-up is lost        *)
(* between startPublicKeysRefresh and the wait (refreshPublicKeysIfDue).   *)
WaitersAreServed == \A r \in Requests : pc[r] = "wait" => loop = "done" /\ fetch # "none"

(* The negative cache is finite and within its limit.                      *)
NegativeCacheFits == IsFiniteSet(unknown) /\ NegativeCacheBounded

IInv ==
    /\ TypeOK /\ ValidatesWhenReady /\ FetchedKeysAreUsable /\ ReadyHasKeys
    /\ RefreshIsRecent /\ OutdatedReadIsHarmless
    /\ NegativesDescribeKeys /\ NegativeCacheFits
=============================================================================
