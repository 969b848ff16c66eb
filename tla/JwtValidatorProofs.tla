-------------------------- MODULE JwtValidatorProofs -------------------------
(***************************************************************************)
(* The safety of JwtValidator for any key sets, number of concurrent       *)
(* validations, limits and durations that satisfy the assumptions.         *)
(***************************************************************************)
EXTENDS JwtValidator, FiniteSetTheorems, TLAPS

(* Every step preserves the types; in particular only the IDs of keys that *)
(* tokens named get into the negative cache.                               *)
LEMMA TypeStep == IInv /\ [Next]_vars => TypeOK'
<1> SUFFICES ASSUME IInv, [Next]_vars PROVE TypeOK'
  OBVIOUS
<1> USE KeyAssumption, TimeAssumption
    DEF IInv, TypeOK, ValidatesWhenReady, Old, Labels, loopVars, fetchVars, keyVars, negVars, reqVars
<1>1. ASSUME Rotate PROVE TypeOK'
  BY <1>1 DEF Rotate
<1>2. ASSUME Tick PROVE TypeOK'
  BY <1>2 DEF Tick
<1>3. ASSUME InitFetch \/ InitStop \/ Stop PROVE TypeOK'
  <2>1. CASE InitFetch BY <2>1 DEF InitFetch
  <2>2. CASE InitStop  BY <2>2 DEF InitStop
  <2>3. CASE Stop      BY <2>3 DEF Stop
  <2> QED BY <1>3, <2>1, <2>2, <2>3
<1>11. ASSUME InitResult PROVE TypeOK'
  <2>1. ready' \in BOOLEAN /\ loop' \in {"running", "done"}
    BY <1>11 DEF InitResult
  <2>2. attempt' \in 0 .. MaxAttempts
    BY <1>11 DEF InitResult
  <2> QED
    BY <1>11, <2>1, <2>2 DEF InitResult
<1>4. ASSUME Fetch PROVE TypeOK'
  BY <1>4 DEF Fetch, FetchReply, Install, ClearUnknown
<1>5. ASSUME RefreshDone PROVE TypeOK'
  BY <1>5 DEF RefreshDone
<1>6. ASSUME NEW r \in Requests, NEW k \in Kids, Lookup(r, k) PROVE TypeOK'
  BY <1>6 DEF Lookup
<1>7. ASSUME NEW r \in Requests, UnknownCached(r) \/ ReadLastFetch(r) \/ LookupAgain(r) \/ Found(r)
      PROVE TypeOK'
  BY <1>7 DEF UnknownCached, ReadLastFetch, LookupAgain, Found, Goto
<1>8. ASSUME NEW r \in Requests, StartRefresh(r) PROVE TypeOK'
  BY <1>8 DEF StartRefresh, Join, Goto
<1>9. ASSUME NEW r \in Requests, RememberUnknown(r) PROVE TypeOK'
  <2>1. PICK evicted : /\ unknown' = (Pruned \ evicted) \cup {kid[r]}
                       /\ left' = [k \in Kids |-> IF k = kid[r] THEN NegTTL
                                                  ELSE IF k \in evicted THEN 0 ELSE left[k]]
    BY <1>9 DEF RememberUnknown
  <2>2. kid[r] \in Kids
    BY <1>9 DEF RememberUnknown
  <2>3. left' \in [Kids -> 0 .. NegTTL]
    BY <2>1
  <2>4. unknown' \subseteq Kids
    BY <2>1, <2>2 DEF Pruned
  <2> QED
    BY <1>9, <2>3, <2>4 DEF RememberUnknown, Goto
<1>10. ASSUME UNCHANGED vars PROVE TypeOK'
  BY <1>10 DEF vars
<1> QED
  BY <1>1, <1>2, <1>3, <1>4, <1>5, <1>6, <1>7, <1>8, <1>9, <1>10, <1>11 DEF Next, Continue

(* The end of the load makes the validator ready in the same step.         *)
LEMMA ReadyStep == IInv /\ [Next]_vars => ValidatesWhenReady'
<1> SUFFICES ASSUME IInv, [Next]_vars PROVE ValidatesWhenReady'
  OBVIOUS
<1> USE DEF IInv, TypeOK, ValidatesWhenReady, loopVars, fetchVars, keyVars, negVars, reqVars
<1>1. ASSUME Rotate \/ Tick PROVE ValidatesWhenReady'
  BY <1>1 DEF Rotate, Tick
<1>2. ASSUME InitFetch \/ InitResult \/ InitStop \/ Stop PROVE ValidatesWhenReady'
  BY <1>2 DEF InitFetch, InitResult, InitStop, Stop
<1>3. ASSUME Fetch PROVE ValidatesWhenReady'
  BY <1>3 DEF Fetch, FetchReply, Install, ClearUnknown
<1>4. ASSUME RefreshDone PROVE ValidatesWhenReady'
  BY <1>4 DEF RefreshDone
<1>5. ASSUME NEW r \in Requests, NEW k \in Kids, Lookup(r, k) PROVE ValidatesWhenReady'
  BY <1>5 DEF Lookup
<1>6. ASSUME NEW r \in Requests,
             UnknownCached(r) \/ ReadLastFetch(r) \/ LookupAgain(r) \/ Found(r) \/ RememberUnknown(r)
      PROVE ValidatesWhenReady'
  BY <1>6 DEF UnknownCached, ReadLastFetch, LookupAgain, Found, RememberUnknown, Goto
<1>7. ASSUME NEW r \in Requests, StartRefresh(r) PROVE ValidatesWhenReady'
  BY <1>7 DEF StartRefresh, Join, Goto
<1>8. ASSUME UNCHANGED vars PROVE ValidatesWhenReady'
  BY <1>8 DEF vars
<1> QED
  BY <1>1, <1>2, <1>3, <1>4, <1>5, <1>6, <1>7, <1>8 DEF Next, Continue

(* Keys are only replaced by a key set that is not empty.                  *)
LEMMA KeysStep == IInv /\ [Next]_vars => FetchedKeysAreUsable' /\ ReadyHasKeys'
<1> SUFFICES ASSUME IInv, [Next]_vars PROVE FetchedKeysAreUsable' /\ ReadyHasKeys'
  OBVIOUS
<1> USE DEF IInv, TypeOK, FetchedKeysAreUsable, ReadyHasKeys, loopVars, fetchVars, keyVars
<1>1. ASSUME Rotate \/ Tick PROVE FetchedKeysAreUsable' /\ ReadyHasKeys'
  BY <1>1 DEF Rotate, Tick
<1>2. ASSUME InitFetch \/ InitResult \/ InitStop \/ Stop
      PROVE FetchedKeysAreUsable' /\ ReadyHasKeys'
  BY <1>2 DEF InitFetch, InitResult, InitStop, Stop
<1>3. ASSUME Fetch PROVE FetchedKeysAreUsable' /\ ReadyHasKeys'
  BY <1>3 DEF Fetch, FetchReply, Install, ClearUnknown
<1>4. ASSUME RefreshDone PROVE FetchedKeysAreUsable' /\ ReadyHasKeys'
  BY <1>4 DEF RefreshDone
<1>5. ASSUME NEW r \in Requests, Continue(r) \/ \E k \in Kids : Lookup(r, k)
      PROVE FetchedKeysAreUsable' /\ ReadyHasKeys'
  BY <1>5 DEF Continue, Lookup, UnknownCached, ReadLastFetch, StartRefresh, LookupAgain,
              RememberUnknown, Found
<1>6. ASSUME UNCHANGED vars PROVE FetchedKeysAreUsable' /\ ReadyHasKeys'
  BY <1>6 DEF vars
<1> QED
  BY <1>1, <1>2, <1>3, <1>4, <1>5, <1>6 DEF Next

(* The deadline of a fetch lies within the cooldown of its attempt, so     *)
(* that attempt holds back everybody who read the older lastFetch.         *)
LEMMA CooldownStep == IInv /\ [Next]_vars => RefreshIsRecent' /\ OutdatedReadIsHarmless'
<1> SUFFICES ASSUME IInv, [Next]_vars PROVE RefreshIsRecent' /\ OutdatedReadIsHarmless'
  OBVIOUS
<1> USE TimeAssumption
    DEF IInv, TypeOK, ValidatesWhenReady, RefreshIsRecent, OutdatedReadIsHarmless,
        loopVars, fetchVars, keyVars, reqVars
<1>1. ASSUME Rotate PROVE RefreshIsRecent' /\ OutdatedReadIsHarmless'
  BY <1>1 DEF Rotate
<1>2. ASSUME Tick PROVE RefreshIsRecent' /\ OutdatedReadIsHarmless'
  BY <1>2 DEF Tick, Old
<1>3. ASSUME InitFetch \/ InitResult \/ InitStop \/ Stop
      PROVE RefreshIsRecent' /\ OutdatedReadIsHarmless'
  BY <1>3 DEF InitFetch, InitResult, InitStop, Stop
<1>4. ASSUME Fetch PROVE RefreshIsRecent' /\ OutdatedReadIsHarmless'
  BY <1>4 DEF Fetch, FetchReply, Install, ClearUnknown, Old
<1>5. ASSUME RefreshDone PROVE RefreshIsRecent' /\ OutdatedReadIsHarmless'
  BY <1>5 DEF RefreshDone
<1>6. ASSUME NEW r \in Requests, NEW k \in Kids, Lookup(r, k)
      PROVE RefreshIsRecent' /\ OutdatedReadIsHarmless'
  BY <1>6 DEF Lookup
<1>7. ASSUME NEW r \in Requests, ReadLastFetch(r)
      PROVE RefreshIsRecent' /\ OutdatedReadIsHarmless'
  BY <1>7 DEF ReadLastFetch, Goto, Old
<1>8. ASSUME NEW r \in Requests, StartRefresh(r)
      PROVE RefreshIsRecent' /\ OutdatedReadIsHarmless'
  BY <1>8 DEF StartRefresh, Join, Goto
<1>9. ASSUME NEW r \in Requests,
             UnknownCached(r) \/ LookupAgain(r) \/ Found(r) \/ RememberUnknown(r)
      PROVE RefreshIsRecent' /\ OutdatedReadIsHarmless'
  BY <1>9 DEF UnknownCached, LookupAgain, Found, RememberUnknown, Goto
<1>10. ASSUME UNCHANGED vars PROVE RefreshIsRecent' /\ OutdatedReadIsHarmless'
  BY <1>10 DEF vars
<1> QED
  BY <1>1, <1>2, <1>3, <1>4, <1>5, <1>6, <1>7, <1>8, <1>9, <1>10 DEF Next, Continue

(* A fetch clears the cache before it ends, and an entry ages with the key *)
(* set it describes.                                                       *)
LEMMA NegativeStep == IInv /\ [Next]_vars => NegativesDescribeKeys'
<1> SUFFICES ASSUME IInv, [Next]_vars PROVE NegativesDescribeKeys'
  OBVIOUS
<1> USE TimeAssumption
    DEF IInv, TypeOK, NegativesDescribeKeys, Old, loopVars, fetchVars, keyVars, negVars
<1>1. ASSUME Rotate PROVE NegativesDescribeKeys'
  BY <1>1 DEF Rotate
<1>2. ASSUME Tick PROVE NegativesDescribeKeys'
  BY <1>2 DEF Tick
<1>3. ASSUME InitFetch \/ InitResult \/ InitStop \/ Stop PROVE NegativesDescribeKeys'
  BY <1>3 DEF InitFetch, InitResult, InitStop, Stop
<1>4. ASSUME Fetch PROVE NegativesDescribeKeys'
  BY <1>4 DEF Fetch, FetchReply, Install, ClearUnknown
<1>5. ASSUME RefreshDone PROVE NegativesDescribeKeys'
  BY <1>5 DEF RefreshDone
<1>6. ASSUME NEW r \in Requests,
             \/ UnknownCached(r) \/ ReadLastFetch(r) \/ StartRefresh(r)
             \/ LookupAgain(r) \/ Found(r) \/ \E k \in Kids : Lookup(r, k)
      PROVE NegativesDescribeKeys'
  BY <1>6 DEF Lookup, UnknownCached, ReadLastFetch, StartRefresh, LookupAgain, Found
<1>7. ASSUME NEW r \in Requests, RememberUnknown(r) PROVE NegativesDescribeKeys'
  <2>1. PICK evicted : /\ unknown' = (Pruned \ evicted) \cup {kid[r]}
                       /\ left' = [k \in Kids |-> IF k = kid[r] THEN NegTTL
                                                  ELSE IF k \in evicted THEN 0 ELSE left[k]]
    BY <1>7 DEF RememberUnknown
  <2>2. kid[r] \in Kids
    BY <1>7 DEF RememberUnknown, ValidatesWhenReady
  <2> QED
    BY <1>7, <2>1, <2>2 DEF RememberUnknown, Pruned
<1>8. ASSUME UNCHANGED vars PROVE NegativesDescribeKeys'
  BY <1>8 DEF vars
<1> QED
  BY <1>1, <1>2, <1>3, <1>4, <1>5, <1>6, <1>7, <1>8 DEF Next, Continue

(* One entry goes before one comes when the cache is full.                 *)
LEMMA BoundStep == IInv /\ [Next]_vars => NegativeCacheFits'
<1> SUFFICES ASSUME IInv, [Next]_vars PROVE NegativeCacheFits'
  OBVIOUS
<1> USE TimeAssumption DEF IInv, NegativeCacheFits, NegativeCacheBounded
<1>1. ASSUME unknown' \subseteq unknown PROVE NegativeCacheFits'
  <2>1. Cardinality(unknown) \in Nat
    BY FS_CardinalityType
  <2>2. IsFiniteSet(unknown') /\ Cardinality(unknown') <= Cardinality(unknown)
    BY <1>1, FS_Subset
  <2>3. Cardinality(unknown') \in Nat
    BY <2>2, FS_CardinalityType
  <2> QED
    BY <2>1, <2>2, <2>3
<1>2. ASSUME NEW r \in Requests, RememberUnknown(r) PROVE NegativeCacheFits'
  <2>1. PICK evicted \in IF Cardinality(Pruned) >= MaxEntries THEN {{k} : k \in Pruned} ELSE {{}} :
           unknown' = (Pruned \ evicted) \cup {kid[r]}
    BY <1>2 DEF RememberUnknown
  <2>2. IsFiniteSet(Pruned) /\ Cardinality(Pruned) <= Cardinality(unknown)
    BY FS_Subset DEF Pruned
  <2>3. Cardinality(Pruned) \in Nat /\ Cardinality(unknown) \in Nat
    BY <2>2, FS_CardinalityType
  <2>4. IsFiniteSet(Pruned \ evicted) /\ Cardinality(Pruned \ evicted) < MaxEntries
    <3>1. CASE Cardinality(Pruned) >= MaxEntries
      <4>1. PICK k \in Pruned : evicted = {k}
        BY <2>1, <3>1
      <4>2. IsFiniteSet(Pruned \ {k}) /\ Cardinality(Pruned \ {k}) = Cardinality(Pruned) - 1
        BY <2>2, FS_RemoveElement
      <4> QED
        BY <2>2, <2>3, <4>1, <4>2
    <3>2. CASE ~(Cardinality(Pruned) >= MaxEntries)
      <4>1. Pruned \ evicted = Pruned
        BY <2>1, <3>2
      <4> QED
        BY <2>2, <2>3, <3>2, <4>1
    <3> QED
      BY <3>1, <3>2
  <2>5. Cardinality(Pruned \ evicted) \in Nat
    BY <2>4, FS_CardinalityType
  <2>6. /\ IsFiniteSet((Pruned \ evicted) \cup {kid[r]})
        /\ \/ Cardinality((Pruned \ evicted) \cup {kid[r]}) = Cardinality(Pruned \ evicted)
           \/ Cardinality((Pruned \ evicted) \cup {kid[r]}) = Cardinality(Pruned \ evicted) + 1
    BY <2>4, FS_AddElement
  <2> QED
    BY <2>1, <2>4, <2>5, <2>6
<1>3. ASSUME Rotate \/ Tick \/ InitFetch \/ InitResult \/ InitStop \/ Stop \/ Fetch \/ RefreshDone
      PROVE NegativeCacheFits'
  <2>1. unknown' \subseteq unknown
    BY <1>3 DEF Rotate, Tick, InitFetch, InitResult, InitStop, Stop, Fetch, FetchReply,
                Install, ClearUnknown, RefreshDone, negVars
  <2> QED
    BY <1>1, <2>1
<1>4. ASSUME NEW r \in Requests,
             \/ UnknownCached(r) \/ ReadLastFetch(r) \/ StartRefresh(r)
             \/ LookupAgain(r) \/ Found(r) \/ \E k \in Kids : Lookup(r, k)
      PROVE NegativeCacheFits'
  <2>1. unknown' \subseteq unknown
    BY <1>4 DEF Lookup, UnknownCached, ReadLastFetch, StartRefresh, LookupAgain, Found, negVars
  <2> QED
    BY <1>1, <2>1
<1>5. ASSUME UNCHANGED vars PROVE NegativeCacheFits'
  BY <1>1, <1>5 DEF vars
<1> QED
  BY <1>2, <1>3, <1>4, <1>5 DEF Next, Continue

(* NewJWTValidator establishes the inductive invariant.                    *)
LEMMA InitHolds == Init => IInv
<1> SUFFICES ASSUME Init PROVE IInv
  OBVIOUS
<1> USE TimeAssumption DEF Init
<1>1. TypeOK
  <2>1. /\ served \in KeySets \cup {{}} /\ loop \in {"running", "done"}
        /\ stopped \in BOOLEAN /\ ready \in BOOLEAN
        /\ fetch \in {"none", "request", "install", "clear", "ok", "failed"}
        /\ reply \subseteq Kids /\ keys \subseteq Kids /\ unknown \subseteq Kids
        /\ due \subseteq Requests /\ async \subseteq Requests
    OBVIOUS
  <2>2. attempt \in 0 .. MaxAttempts /\ fetchAge \in 0 .. Old /\ attemptAge \in 0 .. Cooldown
    BY DEF Old
  <2>3. left \in [Kids -> 0 .. NegTTL]
    OBVIOUS
  <2>4. pc \in [Requests -> Labels] /\ kid \in [Requests -> Kids \cup {NoKid}]
    BY DEF Labels
  <2> QED
    BY <2>1, <2>2, <2>3, <2>4 DEF TypeOK
<1>2. NegativeCacheFits
  BY FS_EmptySet DEF NegativeCacheFits, NegativeCacheBounded
<1> QED
  BY <1>1, <1>2 DEF IInv, ValidatesWhenReady, FetchedKeysAreUsable, ReadyHasKeys, RefreshIsRecent,
                    OutdatedReadIsHarmless, NegativesDescribeKeys

(* The inductive invariant holds in every reachable state.                 *)
THEOREM Invariance == Spec => []IInv
<1>1. IInv /\ [Next]_vars => IInv'
  BY TypeStep, ReadyStep, KeysStep, CooldownStep, NegativeStep, BoundStep DEF IInv
<1> QED
  BY <1>1, InitHolds, PTL DEF Spec

(* The types of the key map, the caches and the validations hold for any   *)
(* number of concurrent validations.                                       *)
THEOREM TypeCorrect == Spec => []TypeOK
<1>1. IInv => TypeOK
  BY DEF IInv
<1> QED
  BY <1>1, Invariance, PTL

(* A ready validator always has keys (fetchPublicKeysOnce, initLoop).      *)
THEOREM ReadyKeepsKeys == Spec => []ReadyHasKeys
<1>1. IInv => ReadyHasKeys
  BY DEF IInv
<1> QED
  BY <1>1, Invariance, PTL

(* The negative cache keeps its limit, whichever entry the map's iteration *)
(* evicts (rememberUnknownKID).                                            *)
THEOREM CacheKeepsItsLimit == Spec => []NegativeCacheBounded
<1>1. IInv => NegativeCacheBounded
  BY DEF IInv, NegativeCacheFits
<1> QED
  BY <1>1, Invariance, PTL

(* Live negative entries are younger than the key set they describe.       *)
THEOREM NegativesAreFresh == Spec => []NegativesDescribeKeys
<1>1. IInv => NegativesDescribeKeys
  BY DEF IInv
<1> QED
  BY <1>1, Invariance, PTL

(* No two fetches that requests cause lie within the cooldown, although    *)
(* startPublicKeysRefresh compares with a lastFetch it read before it got  *)
(* the lock.                                                               *)
THEOREM CooldownHolds == Spec => RefreshesAreSpaced
<1>1. IInv /\ [Next]_vars =>
        [ready /\ fetch = "none" /\ fetch' = "request" =>
            attemptAge >= Cooldown /\ fetchAge >= Cooldown]_vars
  <2> SUFFICES ASSUME IInv, Next, ready, fetch = "none", fetch' = "request"
               PROVE attemptAge >= Cooldown /\ fetchAge >= Cooldown
    OBVIOUS
  <2>1. PICK r \in Requests : StartRefresh(r)
    BY DEF IInv, ValidatesWhenReady, Next, Continue, Rotate, Tick, InitFetch, InitResult, InitStop,
           Stop, Fetch, FetchReply, Install, ClearUnknown, RefreshDone, Lookup, UnknownCached,
           ReadLastFetch, LookupAgain, RememberUnknown, Found, fetchVars
  <2>2. attemptAge >= Cooldown /\ pc[r] = "start" /\ r \in due
    BY <2>1 DEF StartRefresh
  <2> QED
    BY <2>2, TimeAssumption DEF IInv, TypeOK, OutdatedReadIsHarmless, Old
<1> QED
  BY <1>1, Invariance, PTL DEF Spec, RefreshesAreSpaced

(* A validation joins a refresh under the lock that its end takes, and     *)
(* only when the loop, which fetches without waking anybody, has ended.    *)
LEMMA WaitStep == IInv /\ WaitersAreServed /\ [Next]_vars => WaitersAreServed'
<1> SUFFICES ASSUME IInv, WaitersAreServed, [Next]_vars PROVE WaitersAreServed'
  OBVIOUS
<1> USE DEF IInv, TypeOK, ValidatesWhenReady, WaitersAreServed, loopVars, fetchVars, reqVars
<1>1. ASSUME Rotate \/ Tick PROVE WaitersAreServed'
  BY <1>1 DEF Rotate, Tick
<1>2. ASSUME InitFetch \/ InitResult \/ InitStop \/ Stop PROVE WaitersAreServed'
  BY <1>2 DEF InitFetch, InitResult, InitStop, Stop
<1>3. ASSUME Fetch PROVE WaitersAreServed'
  BY <1>3 DEF Fetch, FetchReply, Install, ClearUnknown
<1>4. ASSUME RefreshDone PROVE WaitersAreServed'
  BY <1>4 DEF RefreshDone
<1>5. ASSUME NEW r \in Requests, NEW k \in Kids, Lookup(r, k) PROVE WaitersAreServed'
  BY <1>5 DEF Lookup
<1>6. ASSUME NEW r \in Requests,
             UnknownCached(r) \/ ReadLastFetch(r) \/ LookupAgain(r) \/ Found(r) \/ RememberUnknown(r)
      PROVE WaitersAreServed'
  BY <1>6 DEF UnknownCached, ReadLastFetch, LookupAgain, Found, RememberUnknown, Goto
<1>7. ASSUME NEW r \in Requests, StartRefresh(r) PROVE WaitersAreServed'
  <2>1. loop = "done" /\ UNCHANGED loop
    BY <1>7 DEF StartRefresh
  <2> QED
    BY <1>7, <2>1 DEF StartRefresh, Join, Goto
<1>8. ASSUME UNCHANGED vars PROVE WaitersAreServed'
  BY <1>8 DEF vars
<1> QED
  BY <1>1, <1>2, <1>3, <1>4, <1>5, <1>6, <1>7, <1>8 DEF Next, Continue

(* No validation is left waiting for a refresh that is over: the part of   *)
(* ValidationEnds that does not depend on fairness.                        *)
THEOREM NoWakeUpIsLost == Spec => []WaitersAreServed
<1>1. Init => WaitersAreServed
  BY DEF Init, WaitersAreServed
<1> QED
  BY Invariance, WaitStep, <1>1, PTL DEF Spec

=============================================================================
