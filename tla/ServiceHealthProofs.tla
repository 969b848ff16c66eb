------------------------- MODULE ServiceHealthProofs -------------------------
(***************************************************************************)
(* The safety invariants of ServiceHealth for any number of services,      *)
(* configurations and probe loops.                                         *)
(***************************************************************************)
EXTENDS ServiceHealth, TLAPS

(* The arguments of an unused goroutine slot are well typed.               *)
LEMMA NoTaskType == NoTask \in Task
  BY UIDAssumption DEF NoTask, Task

(* Every step of the system preserves the types: in particular reconcile   *)
(* never registers or launches a loop for the nil configuration.           *)
LEMMA TypeStep == IInv /\ [Next]_vars => TypeOK'
<1> SUFFICES ASSUME IInv, [Next]_vars PROVE TypeOK'
  OBVIOUS
<1> USE NoTaskType, ConfigAssumption
    DEF IInv, TypeOK, WorkIsConfigured, cacheVars, loopVars, reconVars, envVars
<1>1. ASSUME NEW u \in UIDs, Remove(u) PROVE TypeOK'
  BY <1>1 DEF Remove
<1>2. ASSUME NEW u \in UIDs, NEW c \in Configs \cup {NoConfig},
             NEW r \in Reasons \cup {NoReason}, Add(u, c, r) PROVE TypeOK'
  BY <1>2 DEF Add, HealthAfterAdd, ServiceInfo, Status
<1>3. ASSUME ReconcileStart PROVE TypeOK'
  BY <1>3 DEF ReconcileStart, ConfigOf, ServiceInfo
<1>4. ASSUME NEW u \in UIDs, ReconcileKeep(u) PROVE TypeOK'
  BY <1>4 DEF ReconcileKeep
<1>5. ASSUME NEW u \in UIDs, NEW l \in Loops, ReconcileLaunch(u, l) PROVE TypeOK'
  BY <1>5 DEF ReconcileLaunch, LoopsOf, LoopPC, Task
<1>6. ASSUME ReconcileSweep PROVE TypeOK'
  BY <1>6 DEF ReconcileSweep, Drop, LoopsOf
<1>7. ASSUME StopAll PROVE TypeOK'
  BY <1>7 DEF StopAll, Drop, LoopsOf
<1>8. ASSUME Shutdown PROVE TypeOK'
  BY <1>8 DEF Shutdown
<1>9. ASSUME NEW l \in Loops, LoopCheck(l) PROVE TypeOK'
  BY <1>9 DEF LoopCheck, Current, LoopPC, Task, ServiceInfo
<1>10. ASSUME NEW l \in Loops, LoopStore(l) PROVE TypeOK'
  <2>1. StoreResult(l, result[l]) /\ result[l] \in Status
    BY <1>10 DEF LoopStore
  <2>2. prev' \in [Loops -> Status] /\ result' \in [Loops -> Status]
    BY <1>10 DEF LoopStore, Status
  <2>3. CASE Current(l)
    <3>1. services' \in [UIDs -> ServiceInfo \cup {NoService}]
      BY <2>1, <2>3 DEF StoreResult, Current, Task, ServiceInfo
    <3>2. pc' \in [Loops -> LoopPC]
      BY <2>1, <2>3 DEF StoreResult, LoopPC
    <3> QED
      BY <1>10, <2>2, <3>1, <3>2 DEF LoopStore
  <2>4. CASE ~Current(l)
    BY <1>10, <2>1, <2>2, <2>4 DEF LoopStore, StoreResult, LoopPC
  <2> QED
    BY <2>3, <2>4
<1>18. ASSUME NEW l \in Loops, LoopProbe(l) PROVE TypeOK'
  <2>1. PICK r \in ProbeResults(l) : result' = [result EXCEPT ![l] = r]
    BY <1>18 DEF LoopProbe
  <2>2. r \in Status
    BY <1>18 DEF LoopProbe, ProbeResults, Status, Task
  <2> QED
    BY <1>18, <2>1, <2>2 DEF LoopProbe, LoopPC
<1>11. ASSUME NEW l \in Loops, LoopNotify(l) PROVE TypeOK'
  BY <1>11 DEF LoopNotify, LoopPC
<1>12. ASSUME NEW l \in Loops, LoopPublish(l) PROVE TypeOK'
  BY <1>12 DEF LoopPublish, LoopPC
<1>13. ASSUME NEW l \in Loops, LoopTick(l) PROVE TypeOK'
  BY <1>13 DEF LoopTick, LoopPC
<1>14. ASSUME NEW l \in Loops, LoopStop(l) PROVE TypeOK'
  BY <1>14 DEF LoopStop, LoopPC
<1>15. ASSUME NEW l \in Loops, LoopForget(l) PROVE TypeOK'
  BY <1>15 DEF LoopForget, LoopsOf, LoopPC, Task
<1>16. ASSUME NEW c \in Configs, NEW s \in Answers[c], TargetChanges(c, s) PROVE TypeOK'
  BY <1>16, AnswerAssumption DEF TargetChanges
<1>17. ASSUME UNCHANGED vars PROVE TypeOK'
  BY <1>17 DEF vars
<1> QED
  BY <1>1, <1>2, <1>3, <1>4, <1>5, <1>6, <1>7, <1>8, <1>9, <1>10, <1>11, <1>12,
     <1>13, <1>14, <1>15, <1>16, <1>17, <1>18
     DEF Next, Watcher, ReconcileStep, LoopStep

(* What reconcile still has to visit, and what a goroutine probes, is      *)
(* never the nil configuration.                                            *)
LEMMA WorkStep == IInv /\ [Next]_vars => WorkIsConfigured'
<1> SUFFICES ASSUME IInv, [Next]_vars PROVE WorkIsConfigured'
  OBVIOUS
<1> USE DEF IInv, TypeOK, WorkIsConfigured, cacheVars, loopVars, reconVars, envVars
<1>1. ASSUME Watcher PROVE WorkIsConfigured'
  BY <1>1 DEF Watcher, Add, Remove
<1>2. ASSUME ReconcileStart PROVE WorkIsConfigured'
  BY <1>2 DEF ReconcileStart
<1>3. ASSUME NEW u \in UIDs, ReconcileKeep(u) PROVE WorkIsConfigured'
  BY <1>3 DEF ReconcileKeep
<1>4. ASSUME NEW u \in UIDs, NEW l \in Loops, ReconcileLaunch(u, l) PROVE WorkIsConfigured'
  BY <1>4 DEF ReconcileLaunch
<1>5. ASSUME ReconcileSweep \/ StopAll \/ Shutdown PROVE WorkIsConfigured'
  BY <1>5 DEF ReconcileSweep, StopAll, Shutdown
<1>6. ASSUME NEW l \in Loops, LoopStore(l) PROVE WorkIsConfigured'
  BY <1>6 DEF LoopStore, StoreResult
<1>7. ASSUME NEW l \in Loops, LoopCheck(l) \/ LoopProbe(l) \/ LoopNotify(l) \/ LoopPublish(l)
                              \/ LoopTick(l)
      PROVE WorkIsConfigured'
  BY <1>7 DEF LoopCheck, LoopProbe, LoopNotify, LoopPublish, LoopTick
<1>8. ASSUME NEW l \in Loops, LoopStop(l) \/ LoopForget(l) PROVE WorkIsConfigured'
  BY <1>8 DEF LoopStop, LoopForget
<1>9. ASSUME NEW c \in Configs, NEW s \in Answers[c], TargetChanges(c, s) PROVE WorkIsConfigured'
  BY <1>9 DEF TargetChanges
<1>10. ASSUME UNCHANGED vars PROVE WorkIsConfigured'
  BY <1>10 DEF vars
<1> QED
  BY <1>1, <1>2, <1>3, <1>4, <1>5, <1>6, <1>7, <1>8, <1>9, <1>10
     DEF Next, ReconcileStep, LoopStep

(* What the cache shows of a service agrees with its configuration.        *)
CacheInv == UnconfiguredIsUnknown /\ DropReasonExplainsMissingCheck

(* The steps that write the cache are the watcher's and LoopStore; a loop  *)
(* stores only while its own, non-nil, configuration is in the cache.      *)
LEMMA CacheStep == IInv /\ [Next]_vars => CacheInv'
<1> SUFFICES ASSUME IInv, [Next]_vars PROVE CacheInv'
  OBVIOUS
<1> USE DEF IInv, TypeOK, CacheInv, UnconfiguredIsUnknown, DropReasonExplainsMissingCheck,
            cacheVars, loopVars, reconVars, envVars
<1>1. ASSUME NEW u \in UIDs, Remove(u) PROVE CacheInv'
  BY <1>1 DEF Remove
<1>2. ASSUME NEW u \in UIDs, NEW c \in Configs \cup {NoConfig},
             NEW r \in Reasons \cup {NoReason}, Add(u, c, r) PROVE CacheInv'
  BY <1>2, NullAssumption DEF Add, HealthAfterAdd, ServiceInfo, Status
<1>3. ASSUME NEW l \in Loops, LoopStore(l) PROVE CacheInv'
  <2>1. StoreResult(l, result[l])
    BY <1>3 DEF LoopStore
  <2>2. task[l].uid \in UIDs /\ task[l].config # NoConfig
    BY <1>3 DEF LoopStore, WorkIsConfigured, Task
  <2>3. CASE Current(l)
    BY <1>3, <2>1, <2>2, <2>3 DEF LoopStore, StoreResult, Current, ServiceInfo
  <2>4. CASE ~Current(l)
    BY <1>3, <2>1, <2>4 DEF LoopStore, StoreResult
  <2> QED
    BY <2>3, <2>4
<1>4. ASSUME UNCHANGED cacheVars PROVE CacheInv'
  BY <1>4
<1>5. ASSUME ReconcileStep \/ StopAll \/ Shutdown PROVE UNCHANGED cacheVars
  BY <1>5 DEF ReconcileStep, ReconcileStart, ReconcileKeep, ReconcileLaunch, ReconcileSweep,
              StopAll, Shutdown
<1>6. ASSUME NEW l \in Loops, LoopCheck(l) \/ LoopProbe(l) \/ LoopNotify(l) \/ LoopPublish(l)
                              \/ LoopTick(l) \/ LoopStop(l) \/ LoopForget(l)
      PROVE UNCHANGED cacheVars
  BY <1>6 DEF LoopCheck, LoopProbe, LoopNotify, LoopPublish, LoopTick, LoopStop, LoopForget
<1>7. ASSUME NEW c \in Configs, NEW s \in Answers[c], TargetChanges(c, s)
      PROVE UNCHANGED cacheVars
  BY <1>7 DEF TargetChanges
<1>8. ASSUME UNCHANGED vars PROVE UNCHANGED cacheVars
  BY <1>8 DEF vars
<1> QED
  BY <1>1, <1>2, <1>3, <1>4, <1>5, <1>6, <1>7, <1>8 DEF Next, Watcher, LoopStep

(* h.running and the live goroutines agree.                                *)
TableInv == RegisteredLoopRuns /\ LiveLoopIsRegistered /\ FreeLoopIsClean

(* A registered entry names a loop and a configuration.                    *)
LEMMA EntryType ==
  ASSUME IInv, NEW u \in UIDs, running[u] # NoProbe
  PROVE  running[u].loop \in Loops /\ running[u].config \in Configs
<1>1. running \in [UIDs -> [loop : Loops, config : Configs] \cup {NoProbe}]
  BY DEF IInv, TypeOK
<1>2. running[u] \in [loop : Loops, config : Configs]
  BY <1>1
<1> QED
  BY <1>2

(* Before shutdown two services never share a loop.                        *)
LEMMA EntriesDistinct ==
  ASSUME IInv, ~ctxDone, NEW u \in UIDs, NEW v \in UIDs,
         running[u] # NoProbe, running[v] # NoProbe, running[u].loop = running[v].loop
  PROVE  u = v
  BY DEF IInv, RegisteredLoopRuns

(* Every place that drops an entry cancels its loop under the same lock,   *)
(* and a goroutine that ends uncancelled is the registered one, whose      *)
(* entry it removes itself.                                                *)
LEMMA TableStep == IInv /\ [Next]_vars => TableInv'
<1> SUFFICES ASSUME IInv, [Next]_vars PROVE TableInv'
  OBVIOUS
<1> USE NullAssumption
    DEF IInv, TypeOK, TableInv, RegisteredLoopRuns, LiveLoopIsRegistered,
        FreeLoopIsClean, Task,
        cacheVars, loopVars, reconVars, envVars
<1>1. ASSUME UNCHANGED <<running, pc, task, cancelled, ctxDone>> PROVE TableInv'
  BY <1>1
<1>2. ASSUME Watcher PROVE TableInv'
  BY <1>1, <1>2 DEF Watcher, Add, Remove
<1>3. ASSUME ReconcileStart \/ \E u \in UIDs : ReconcileKeep(u) PROVE TableInv'
  BY <1>1, <1>3 DEF ReconcileStart, ReconcileKeep
<1>4. ASSUME NEW u \in UIDs, NEW l \in Loops, ReconcileLaunch(u, l) PROVE TableInv'
  <2>1. CASE ctxDone
    BY <1>4, <2>1 DEF ReconcileLaunch
  <2>2. CASE ~ctxDone
    <3>1. ~ctxDone' /\ cancelled' = cancelled \cup LoopsOf({u})
      BY <1>4, <2>2 DEF ReconcileLaunch
    <3>0. l \notin cancelled /\ l \notin LoopsOf({u})
      BY <1>4, <2>2 DEF ReconcileLaunch, LoopsOf
    <3>2. RegisteredLoopRuns'
      <4> SUFFICES ASSUME NEW v \in UIDs, running'[v] # NoProbe
                   PROVE  /\ pc'[running'[v].loop] # "free"
                          /\ running'[v].loop \notin cancelled'
                          /\ task'[running'[v].loop].uid = v
                          /\ task'[running'[v].loop].config = running'[v].config
        OBVIOUS
      <4>1. CASE v = u
        BY <1>4, <3>0, <3>1, <4>1 DEF ReconcileLaunch
      <4>2. CASE v # u
        <5>1. running'[v] = running[v] /\ running[v].loop # l /\ running[v].loop \in Loops
          BY <1>4, <2>2, <4>2, EntryType DEF ReconcileLaunch
        <5>2. running[v].loop \notin LoopsOf({u})
          BY <2>2, <4>2, <5>1, EntriesDistinct DEF LoopsOf
        <5> QED
          BY <1>4, <2>2, <3>1, <5>1, <5>2 DEF ReconcileLaunch
      <4> QED
        BY <4>1, <4>2
    <3>3. LiveLoopIsRegistered'
      <4> SUFFICES ASSUME NEW k \in Loops, pc'[k] # "free", k \notin cancelled'
                   PROVE  running'[task'[k].uid] # NoProbe /\ running'[task'[k].uid].loop = k
        OBVIOUS
      <4>1. CASE k = l
        <5>1. [loop |-> l, config |-> snap[u]] # NoProbe
          BY <1>4 DEF ReconcileLaunch, WorkIsConfigured
        <5> QED
          BY <1>4, <4>1, <5>1 DEF ReconcileLaunch
      <4>2. CASE k # l
        <5>1. pc[k] # "free" /\ k \notin cancelled /\ task'[k] = task[k]
          BY <1>4, <3>1, <4>2 DEF ReconcileLaunch
        <5>2. running[task[k].uid] # NoProbe /\ running[task[k].uid].loop = k
          BY <2>2, <5>1
        <5>3. task[k].uid # u
          BY <3>1, <5>2 DEF LoopsOf
        <5> QED
          BY <1>4, <5>1, <5>2, <5>3 DEF ReconcileLaunch
      <4> QED
        BY <4>1, <4>2
    <3>4. FreeLoopIsClean'
      BY <1>4, <2>2, <3>1 DEF ReconcileLaunch, LoopsOf
    <3> QED
      BY <3>2, <3>3, <3>4
  <2> QED
    BY <2>1, <2>2
<1>5. ASSUME ReconcileSweep PROVE TableInv'
  BY <1>5 DEF ReconcileSweep, Drop, LoopsOf
<1>6. ASSUME StopAll \/ Shutdown PROVE TableInv'
  BY <1>6 DEF StopAll, Shutdown
<1>7. ASSUME NEW l \in Loops, pc[l] # "free", pc' = [pc EXCEPT ![l] = pc'[l]], pc'[l] # "free",
             UNCHANGED <<running, task, cancelled, ctxDone>>
      PROVE TableInv'
  BY <1>7
<1>8. ASSUME NEW l \in Loops, LoopCheck(l) \/ LoopProbe(l) \/ LoopNotify(l) \/ LoopPublish(l)
                              \/ LoopTick(l)
      PROVE TableInv'
  BY <1>7, <1>8 DEF LoopCheck, LoopProbe, LoopNotify, LoopPublish, LoopTick
<1>9. ASSUME NEW l \in Loops, LoopStore(l) PROVE TableInv'
  BY <1>7, <1>9 DEF LoopStore, StoreResult
<1>10. ASSUME NEW l \in Loops, LoopStop(l) PROVE TableInv'
  BY <1>10 DEF LoopStop
<1>11. ASSUME NEW l \in Loops, LoopForget(l) PROVE TableInv'
  <2>1. CASE Runs(task[l].uid, task[l].config)
    <3> DEFINE u == task[l].uid
    <3> SUFFICES ASSUME ~ctxDone PROVE TableInv'
      BY <1>11 DEF LoopForget
    <3>1. /\ running' = [running EXCEPT ![u] = NoProbe]
          /\ cancelled' = (cancelled \cup LoopsOf({u})) \ {l}
          /\ pc' = [pc EXCEPT ![l] = "free"] /\ task' = [task EXCEPT ![l] = NoTask]
          /\ u \in UIDs /\ running[u] # NoProbe
      BY <1>11, <2>1 DEF LoopForget, Runs
    <3>2. ASSUME NEW v \in UIDs, v # u, running[v] # NoProbe
          PROVE  /\ running[v].loop \in Loops /\ running[v].loop # l
                 /\ running[v].loop \notin LoopsOf({u})
      BY <3>1, <3>2, EntryType, EntriesDistinct DEF LoopsOf
    <3>3. RegisteredLoopRuns'
      <4> SUFFICES ASSUME NEW v \in UIDs, running'[v] # NoProbe
                   PROVE  /\ pc'[running'[v].loop] # "free"
                          /\ running'[v].loop \notin cancelled'
                          /\ task'[running'[v].loop].uid = v
                          /\ task'[running'[v].loop].config = running'[v].config
        OBVIOUS
      <4>1. v # u /\ running'[v] = running[v]
        BY <3>1
      <4>2. pc'[running[v].loop] = pc[running[v].loop] /\ task'[running[v].loop] = task[running[v].loop]
        BY <3>1, <3>2, <4>1
      <4>3. running[v].loop \notin cancelled'
        BY <3>1, <3>2, <4>1
      <4> QED
        BY <4>1, <4>2, <4>3
    <3>4. LiveLoopIsRegistered'
      BY <3>1 DEF LoopsOf
    <3>5. FreeLoopIsClean'
      BY <3>1 DEF LoopsOf
    <3> QED
      BY <3>3, <3>4, <3>5
  <2>2. CASE ~Runs(task[l].uid, task[l].config)
    BY <1>11, <2>2 DEF LoopForget, Runs
  <2> QED
    BY <2>1, <2>2
<1>12. ASSUME NEW c \in Configs, NEW s \in Answers[c], TargetChanges(c, s) PROVE TableInv'
  BY <1>1, <1>12 DEF TargetChanges
<1>13. ASSUME UNCHANGED vars PROVE TableInv'
  BY <1>1, <1>13 DEF vars
<1> QED
  BY <1>2, <1>3, <1>4, <1>5, <1>6, <1>8, <1>9, <1>10, <1>11, <1>12, <1>13
     DEF Next, ReconcileStep, LoopStep

(* The initial state satisfies the inductive invariant.                    *)
LEMMA InitIInv == Init => IInv
<1> SUFFICES ASSUME Init PROVE IInv
  OBVIOUS
<1>1. TypeOK
  BY NoTaskType DEF Init, TypeOK, Status, LoopPC
<1>2. WorkIsConfigured /\ FreeLoopIsClean /\ RegisteredLoopRuns /\ LiveLoopIsRegistered
  BY DEF Init, WorkIsConfigured, FreeLoopIsClean, RegisteredLoopRuns, LiveLoopIsRegistered
<1>3. UnconfiguredIsUnknown /\ DropReasonExplainsMissingCheck
  BY DEF Init, UnconfiguredIsUnknown, DropReasonExplainsMissingCheck
<1> QED
  BY <1>1, <1>2, <1>3 DEF IInv

(* The inductive invariant holds in every reachable state.                 *)
THEOREM Invariance == Spec => []IInv
<1>1. IInv /\ [Next]_vars => IInv'
  BY TypeStep, WorkStep, CacheStep, TableStep DEF IInv, CacheInv, TableInv
<1> QED
  BY InitIInv, <1>1, PTL DEF Spec

(* Types: in particular no loop is ever registered for a nil config.       *)
THEOREM TypeCorrect == Spec => []TypeOK
<1>1. IInv => TypeOK
  BY DEF IInv
<1> QED
  BY Invariance, <1>1, PTL

(* A service whose check is absent, dropped or revoked shows "unknown",    *)
(* however its updates interleave with probes in flight.                   *)
THEOREM UncheckedShowsUnknown == Spec => []UnconfiguredIsUnknown
<1>1. IInv => UnconfiguredIsUnknown
  BY DEF IInv
<1> QED
  BY Invariance, <1>1, PTL

(* The drop reason the admin page shows is there exactly when it explains  *)
(* why the service has no check.                                           *)
THEOREM ReasonsExplainMissingChecks == Spec => []DropReasonExplainsMissingCheck
<1>1. IInv => DropReasonExplainsMissingCheck
  BY DEF IInv
<1> QED
  BY Invariance, <1>1, PTL

(* Before shutdown h.running and the uncancelled goroutines are in         *)
(* one-to-one correspondence: no dead entry, no goroutine out of reach.    *)
THEOREM TableMatchesGoroutines == Spec => [](RegisteredLoopRuns /\ LiveLoopIsRegistered)
<1>1. IInv => RegisteredLoopRuns /\ LiveLoopIsRegistered
  BY DEF IInv
<1> QED
  BY Invariance, <1>1, PTL

(* No goroutine probes on without an entry in h.running to stop it by.     *)
THEOREM NoLoopIsLost == Spec => []LiveLoopIsRegistered
<1>1. IInv => LiveLoopIsRegistered
  BY DEF IInv
<1> QED
  BY Invariance, <1>1, PTL

-----------------------------------------------------------------------------
(* ServiceHealth implements HealthBoard.                                   *)

(* A service all of whose loops, entry and snapshot have its configuration *)
(* stays so while the configuration does: reconcile finds the entry it     *)
(* wants and launches at most the missing loop, and no other service's     *)
(* loops are cancelled in its stead.                                       *)
LEMMA AgreementStep ==
  ASSUME IInv, [Next]_vars, ~ctxDone', NEW v \in UIDs, Agreed(v),
         ConfigOf(v)' = ConfigOf(v)
  PROVE  Agreed(v)'
<1> USE DEF IInv, TypeOK, cacheVars, loopVars, reconVars, envVars
<1>1. ASSUME UNCHANGED <<running, task, cancelled, phase, snap>>,
             \A k \in Loops : pc'[k] = "free" <=> pc[k] = "free"
      PROVE  Agreed(v)'
  BY <1>1 DEF Agreed
<1>2. ASSUME Watcher PROVE Agreed(v)'
  BY <1>1, <1>2 DEF Watcher, Add, Remove
<1>3. ASSUME ReconcileStart PROVE Agreed(v)'
  BY <1>3 DEF ReconcileStart, Agreed, ConfigOf
<1>4. ASSUME NEW u \in UIDs, ReconcileKeep(u) PROVE Agreed(v)'
  BY <1>1, <1>4 DEF ReconcileKeep
<1>5. ASSUME NEW u \in UIDs, NEW l \in Loops, ReconcileLaunch(u, l) PROVE Agreed(v)'
  <2>1. /\ ~ctxDone /\ cancelled' = cancelled \cup LoopsOf({u})
        /\ pc' = [pc EXCEPT ![l] = "check"] /\ pc[l] = "free"
        /\ task' = [task EXCEPT ![l] = [uid |-> u, config |-> snap[u]]]
        /\ running' = [running EXCEPT ![u] = [loop |-> l, config |-> snap[u]]]
        /\ phase = "walk" /\ UNCHANGED <<phase, snap>> /\ ~Runs(u, snap[u])
    BY <1>5 DEF ReconcileLaunch
  <2>2. l \notin cancelled /\ l \notin LoopsOf({u})
    BY <2>1 DEF FreeLoopIsClean, RegisteredLoopRuns, LoopsOf
  <2>3. CASE v = u
    <3>1. snap[u] = ConfigOf(u) /\ running[u] = NoProbe
      BY <2>1, <2>3 DEF Agreed, Runs
    <3>2. cancelled' = cancelled
      BY <2>1, <3>1 DEF LoopsOf
    <3> QED
      BY <2>1, <2>2, <2>3, <3>1, <3>2 DEF Agreed
  <2>4. CASE v # u
    <3>1. ASSUME NEW k \in Loops, pc'[k] # "free", task'[k].uid = v
          PROVE  k \notin cancelled' /\ task'[k].config = ConfigOf(v)
      <4>1. k # l /\ pc[k] # "free" /\ task'[k] = task[k]
        BY <2>1, <2>4, <3>1
      <4>2. k \notin LoopsOf({u})
        BY <2>1, <2>4, <3>1, <4>1 DEF RegisteredLoopRuns, LoopsOf
      <4> QED
        BY <2>1, <3>1, <4>1, <4>2 DEF Agreed
    <3> QED
      BY <2>1, <2>4, <3>1 DEF Agreed
  <2> QED
    BY <2>3, <2>4
<1>6. ASSUME ReconcileSweep PROVE Agreed(v)'
  <2> DEFINE gone == {u \in UIDs : snap[u] = NoConfig}
  <2>1. /\ running' = [u \in UIDs |-> IF u \in gone THEN NoProbe ELSE running[u]]
        /\ cancelled' = cancelled \cup LoopsOf(gone) /\ phase = "walk" /\ phase' = "idle"
        /\ ~ctxDone /\ UNCHANGED <<pc, task>>
    BY <1>6 DEF ReconcileSweep, Drop
  <2>2. v \in gone => running[v] = NoProbe
    BY <2>1, EntryType, ConfigAssumption DEF Agreed
  <2>3. ASSUME NEW k \in Loops, task[k].uid = v PROVE k \notin LoopsOf(gone)
    BY <2>1, <2>2, <2>3 DEF LoopsOf, RegisteredLoopRuns
  <2> QED
    BY <2>1, <2>2, <2>3 DEF Agreed
<1>7. ASSUME StopAll \/ Shutdown PROVE Agreed(v)'
  BY <1>7 DEF StopAll, Shutdown
<1>8. ASSUME NEW l \in Loops, LoopCheck(l) \/ LoopProbe(l) \/ LoopNotify(l) \/ LoopPublish(l)
                              \/ LoopTick(l)
      PROVE Agreed(v)'
  BY <1>1, <1>8 DEF LoopCheck, LoopProbe, LoopNotify, LoopPublish, LoopTick
<1>9. ASSUME NEW l \in Loops, LoopStore(l) PROVE Agreed(v)'
  BY <1>1, <1>9 DEF LoopStore, StoreResult
<1>10. ASSUME NEW l \in Loops, LoopStop(l) PROVE Agreed(v)'
  BY <1>10 DEF LoopStop, Agreed
<1>11. ASSUME NEW l \in Loops, LoopForget(l) PROVE Agreed(v)'
  <2> DEFINE u == task[l].uid
  <2>1. /\ pc' = [pc EXCEPT ![l] = "free"] /\ task' = [task EXCEPT ![l] = NoTask]
        /\ pc[l] = "forget" /\ ~ctxDone /\ UNCHANGED <<phase, snap>>
    BY <1>11 DEF LoopForget
  <2>2. CASE ~Runs(u, task[l].config)
    BY <1>11, <2>1, <2>2 DEF LoopForget, Agreed
  <2>3. CASE Runs(u, task[l].config)
    <3>1. /\ running' = [running EXCEPT ![u] = NoProbe] /\ running[u] # NoProbe
          /\ cancelled' = (cancelled \cup LoopsOf({u})) \ {l} /\ u \in UIDs
      BY <1>11, <2>3 DEF LoopForget, Runs, Task
    <3>2. ASSUME NEW k \in Loops, pc'[k] # "free", task'[k].uid = v
          PROVE  k \notin cancelled' /\ task'[k].config = ConfigOf(v)
      <4>1. k # l /\ pc[k] # "free" /\ task'[k] = task[k]
        BY <2>1, <3>2
      <4>2. k \notin LoopsOf({u})
        <5>1. CASE u = v
          BY <2>1, <3>1, <4>1, <5>1 DEF Agreed, LiveLoopIsRegistered, LoopsOf
        <5>2. CASE u # v
          BY <2>1, <3>1, <3>2, <4>1, <5>2 DEF RegisteredLoopRuns, LoopsOf
        <5> QED
          BY <5>1, <5>2
      <4> QED
        BY <3>1, <3>2, <4>1, <4>2 DEF Agreed
    <3> QED
      BY <2>1, <3>1, <3>2 DEF Agreed
  <2> QED
    BY <2>2, <2>3
<1>12. ASSUME NEW c \in Configs, NEW s \in Answers[c], TargetChanges(c, s) PROVE Agreed(v)'
  BY <1>1, <1>12 DEF TargetChanges
<1>13. ASSUME UNCHANGED vars PROVE Agreed(v)'
  BY <1>1, <1>13 DEF vars
<1> QED
  BY <1>2, <1>3, <1>4, <1>5, <1>6, <1>7, <1>8, <1>9, <1>10, <1>11, <1>12, <1>13
     DEF Next, ReconcileStep, LoopStep

(* So a step brings into doubt only the services whose configuration it    *)
(* changes.                                                                *)
LEMMA DoubtStep ==
  ASSUME IInv, [Next]_vars, UNCHANGED ctxDone, NEW us,
         \A v \in UIDs \ us : ConfigOf(v)' = ConfigOf(v)
  PROVE  Doubted' \subseteq Doubted \cup us
<1>1. CASE ctxDone
  BY <1>1 DEF Doubted
<1>2. CASE ~ctxDone
  <2>1. \A v \in UIDs \ us : Agreed(v) => Agreed(v)'
    BY <1>2, AgreementStep
  <2> QED
    BY <1>2, <2>1 DEF Doubted
<1> QED
  BY <1>1, <1>2

(* At first nothing is listed, and nothing in doubt.                       *)
LEMMA BoardInit == Init => Board!Init
<1> SUFFICES ASSUME Init PROVE Board!Init
  OBVIOUS
<1>1. answer \in [Configs -> Status]
  BY DEF Init
<1>2. Doubted = {} /\ ctxDone = FALSE
  BY DEF Init, Doubted, Agreed
<1>3. Readings = {}
  BY DEF Init, Readings
<1> QED
  BY <1>1, <1>2, <1>3 DEF Init, Board!Init, Status

(* While a service is not in doubt its one goroutine is the registered one. *)
LEMMA OneLoopUnlessDoubted ==
  ASSUME IInv, NEW k \in Loops, NEW l \in Loops, pc[k] # "free", pc[l] # "free",
         task[k].uid = task[l].uid, task[l].uid \notin Doubted
  PROVE  k = l
<1>1. task[l].uid \in UIDs
  BY DEF IInv, TypeOK, Task
<1>2. ~ctxDone /\ Agreed(task[l].uid)
  BY <1>1 DEF Doubted
<1>3. k \notin cancelled /\ l \notin cancelled
  BY <1>2 DEF Agreed
<1> QED
  BY <1>2, <1>3 DEF IInv, LiveLoopIsRegistered

(* What a loop holds between its probe and its store.                      *)
ReadingOf(l) == [by |-> l, uid |-> task[l].uid, config |-> task[l].config, verdict |-> result[l]]

LEMMA ReadingsAre == Readings = {ReadingOf(l) : l \in {k \in Loops : pc[k] = "probed"}}
  BY DEF Readings, ReadingOf

(* Only a probe that returns and a store change the readings.              *)
LEMMA ReadingsKept ==
  ASSUME \A k \in Loops : /\ pc'[k] = "probed" <=> pc[k] = "probed"
                          /\ pc[k] = "probed" => task'[k] = task[k] /\ result'[k] = result[k]
  PROVE  UNCHANGED Readings
  BY DEF Readings

(* A reading of a loop not in doubt meets no reading of another one.       *)
LEMMA ReaderIsAlone ==
  ASSUME IInv, NEW l \in Loops, pc[l] # "free"
  PROVE  Board!Alone(l, task[l].uid)
<1> SUFFICES ASSUME task[l].uid \notin Doubted,
                    NEW k \in Loops, pc[k] = "probed", task[k].uid = task[l].uid
             PROVE  k = l
  BY DEF Board!Alone, Readings
<1> QED
  BY OneLoopUnlessDoubted

(* Where a loop stands between probe and store says nothing of doubt.      *)
LEMMA DoubtKept ==
  ASSUME UNCHANGED <<running, task, cancelled, phase, snap, ctxDone>>,
         \A k \in Loops : pc'[k] = "free" <=> pc[k] = "free",
         \A v \in UIDs : ConfigOf(v)' = ConfigOf(v)
  PROVE  UNCHANGED Doubted
<1>1. \A v \in UIDs : Agreed(v)' <=> Agreed(v)
  BY DEF Agreed
<1> QED
  BY <1>1 DEF Doubted

(* A probe finds the target's answer unless the loop was cancelled, and    *)
(* then its service is in doubt.                                           *)
LEMMA ProbeTakesReading ==
  ASSUME IInv, NEW l \in Loops, LoopProbe(l)
  PROVE  [Board!Next]_(Board!vars)
<1>1. PICK r \in ProbeResults(l) : result' = [result EXCEPT ![l] = r]
  BY DEF LoopProbe
<1>2. /\ pc[l] = "probing" /\ pc' = [pc EXCEPT ![l] = "probed"]
      /\ UNCHANGED <<services, running, task, cancelled, phase, snap, ctxDone, answer>>
  BY DEF LoopProbe, cacheVars, reconVars, envVars
<1>3. PICK u \in UIDs, c \in Configs : u = task[l].uid /\ c = task[l].config
  BY <1>2 DEF IInv, TypeOK, Task, WorkIsConfigured
<1>4. \/ r = answer[c]
      \/ l \in cancelled /\ r \in {"unhealthy", "unknown"}
  BY <1>3 DEF ProbeResults
<1>5. r \in {"healthy", "unhealthy", "unknown"}
  BY <1>4 DEF IInv, TypeOK, Status
<1>6. u \in Doubted \/ (c = Board!Checked(u) /\ l \notin cancelled)
  BY <1>2, <1>3 DEF Doubted, Agreed, Board!Checked, ConfigOf
<1>7. \A x \in Readings : x.by # l
  BY <1>2 DEF Readings
<1>8. UNCHANGED Doubted
  BY <1>2, DoubtKept DEF ConfigOf, IInv, TypeOK
<1>9. Readings' = Readings \cup {[by |-> l, uid |-> u, config |-> c, verdict |-> r]}
  <2>1. \A k \in Loops : pc'[k] = "probed" <=> (pc[k] = "probed" \/ k = l)
    BY <1>2 DEF IInv, TypeOK
  <2>2. \A k \in Loops : k # l => result'[k] = result[k]
    BY <1>1 DEF IInv, TypeOK
  <2>3. result'[l] = r
    BY <1>1 DEF IInv, TypeOK
  <2> QED
    BY <1>2, <1>3, <2>1, <2>2, <2>3 DEF Readings
<1>10. Board!Take(l, u, c, r)
  BY <1>2, <1>3, <1>4, <1>6, <1>7, <1>8, <1>9, ReaderIsAlone DEF Board!Take
<1> QED
  BY <1>5, <1>10 DEF Board!Next

(* Storing a result puts the reading up, unless the configuration of its   *)
(* service is another one by now.                                          *)
LEMMA StoreReports ==
  ASSUME IInv, NEW l \in Loops, LoopStore(l)
  PROVE  [Board!Next]_(Board!vars)
<1> DEFINE u == task[l].uid
           new == [config |-> task[l].config, health |-> result[l]]
<1>1. /\ pc[l] = "probed" /\ StoreResult(l, result[l])
      /\ result' = [result EXCEPT ![l] = "unknown"]
      /\ UNCHANGED <<running, task, cancelled, phase, snap, ctxDone, answer>>
  BY DEF LoopStore, reconVars, envVars
<1>2. u \in UIDs /\ task[l].config \in Configs /\ result[l] \in Status
  BY <1>1 DEF IInv, TypeOK, Task, WorkIsConfigured
<1>3. \A k \in Loops : /\ pc'[k] = "free" <=> pc[k] = "free"
                       /\ pc'[k] = "probed" <=> (pc[k] = "probed" /\ k # l)
                       /\ k # l => result'[k] = result[k]
  BY <1>1 DEF StoreResult, IInv, TypeOK
<1>4. ReadingOf(l) \in Readings
  BY <1>1, ReadingsAre
<1>5. Readings' = Readings \ {ReadingOf(l)}
  <2>1. \A k \in Loops : ReadingOf(k) = ReadingOf(l) => k = l
    BY DEF ReadingOf
  <2>2. Readings' = {ReadingOf(k) : k \in {x \in Loops : pc[x] = "probed" /\ x # l}}
    BY <1>1, <1>3 DEF Readings, ReadingOf
  <2> QED
    BY <2>1, <2>2, ReadingsAre
<1>6. Board!Alone(l, u)
  BY <1>1, ReaderIsAlone
<1>7. CASE Current(l)
  <2>1. services' = [services EXCEPT ![u] = new] /\ services[u] # NoService
    BY <1>1, <1>7 DEF StoreResult, Current
  <2>2. new # NoService
    BY <1>2, NullAssumption DEF ServiceInfo
  <2>3. \A v \in UIDs : ConfigOf(v)' = ConfigOf(v)
    BY <1>2, <1>7, <2>1, <2>2 DEF ConfigOf, Current, IInv, TypeOK
  <2>4. UNCHANGED Doubted
    BY <1>1, <1>3, <2>3, DoubtKept
  <2>5. Board!Checked(u) = task[l].config /\ task[l].config # NoConfig
    BY <1>2, <1>7, ConfigAssumption DEF Board!Checked, Current
  <2>6. PICK x \in Readings : x = ReadingOf(l)
    BY <1>4
  <2>7. x.by = l /\ x.uid = u /\ x.config = task[l].config /\ x.verdict = result[l]
    BY <2>6 DEF ReadingOf
  <2> HIDE DEF u
  <2>8. Board!Report(x)
    BY <1>1, <1>5, <1>6, <2>1, <2>4, <2>5, <2>6, <2>7 DEF Board!Report
  <2> QED
    BY <2>8 DEF Board!Next
<1>8. CASE ~Current(l)
  <2>1. services' = services
    BY <1>1, <1>8 DEF StoreResult
  <2>2. UNCHANGED Doubted
    BY <1>1, <1>3, <2>1, DoubtKept DEF ConfigOf
  <2>3. Board!Checked(u) # task[l].config
    BY <1>2, <1>8, ConfigAssumption DEF Board!Checked, Current
  <2>4. PICK x \in Readings : x = ReadingOf(l)
    BY <1>4
  <2>5. x.uid = u /\ x.config = task[l].config
    BY <2>4 DEF ReadingOf
  <2> HIDE DEF u
  <2>6. Board!Discard(x)
    BY <1>1, <1>5, <2>1, <2>2, <2>3, <2>4, <2>5 DEF Board!Discard
  <2> QED
    BY <2>6 DEF Board!Next
<1> QED
  BY <1>7, <1>8

(* Every step of the cache and the checker is a step of the board or       *)
(* leaves it as it is.                                                     *)
LEMMA BoardStep == IInv /\ [Next]_vars => [Board!Next]_(Board!vars)
<1> SUFFICES ASSUME IInv, [Next]_vars PROVE [Board!Next]_(Board!vars)
  OBVIOUS
<1>1. ASSUME UNCHANGED <<services, answer, ctxDone, Readings>> PROVE [Board!Next]_(Board!vars)
  <2>1. Doubted' \subseteq Doubted
    BY <1>1, DoubtStep DEF ConfigOf
  <2> QED
    BY <1>1, <2>1 DEF Board!Next, Board!Settle
<1>2. ASSUME NEW u \in UIDs, Remove(u) PROVE [Board!Next]_(Board!vars)
  <2>1. services' = [services EXCEPT ![u] = NoService] /\ UNCHANGED <<answer, ctxDone, Readings>>
    BY <1>2, ReadingsKept DEF Remove, loopVars, envVars
  <2>2. \A v \in UIDs \ {u} : ConfigOf(v)' = ConfigOf(v)
    BY <2>1 DEF IInv, TypeOK, ConfigOf
  <2>3. Doubted' \subseteq Doubted \cup {u}
    BY <2>1, <2>2, DoubtStep
  <2>4. Board!Checked(u) = NoConfig => Doubted' \subseteq Doubted
    <3> SUFFICES ASSUME Board!Checked(u) = NoConfig PROVE Doubted' \subseteq Doubted
      OBVIOUS
    <3>1. \A v \in UIDs \ {} : ConfigOf(v)' = ConfigOf(v)
      BY <2>1, <2>2 DEF IInv, TypeOK, ConfigOf, Board!Checked
    <3> QED
      BY <2>1, <3>1, DoubtStep
  <2> QED
    BY <2>1, <2>3, <2>4 DEF Board!Next, Board!Strike, Board!Recheck
<1>3. ASSUME NEW u \in UIDs, NEW c \in Configs \cup {NoConfig},
             NEW why \in Reasons \cup {NoReason}, Add(u, c, why)
      PROVE  [Board!Next]_(Board!vars)
  <2> DEFINE h == HealthAfterAdd(u, c)
  <2>1. /\ services' = [services EXCEPT ![u] = [config |-> c, health |-> h]]
        /\ UNCHANGED <<answer, ctxDone, Readings>>
    BY <1>3, ReadingsKept DEF Add, loopVars, envVars
  <2>2. h \in {"unknown", Board!Shown(u)} /\ (c = NoConfig => h = "unknown")
    BY DEF HealthAfterAdd, Board!Shown, IInv, UnconfiguredIsUnknown
  <2>3. \A v \in UIDs \ {u} : ConfigOf(v)' = ConfigOf(v)
    BY <2>1 DEF IInv, TypeOK, ConfigOf
  <2>4. Doubted' \subseteq Doubted \cup {u}
    BY <2>1, <2>3, DoubtStep
  <2>5. Board!Checked(u) = c => Doubted' \subseteq Doubted
    <3> SUFFICES ASSUME Board!Checked(u) = c PROVE Doubted' \subseteq Doubted
      OBVIOUS
    <3>1. [config |-> c, health |-> h] # NoService
      <4>1. h \in Status
        BY DEF HealthAfterAdd, Status, IInv, TypeOK, ServiceInfo
      <4> QED
        BY <4>1, NullAssumption DEF ServiceInfo
    <3>2. \A v \in UIDs \ {} : ConfigOf(v)' = ConfigOf(v)
      BY <2>1, <2>3, <3>1 DEF IInv, TypeOK, ConfigOf, Board!Checked
    <3> QED
      BY <2>1, <3>2, DoubtStep
  <2> HIDE DEF h
  <2>6. Board!Enlist(u, c)
    BY <2>1, <2>2, <2>4, <2>5 DEF Board!Enlist, Board!Recheck
  <2> QED
    BY <2>6 DEF Board!Next
<1>4. ASSUME NEW l \in Loops, LoopProbe(l) \/ LoopStore(l) PROVE [Board!Next]_(Board!vars)
  BY <1>4, ProbeTakesReading, StoreReports
<1>5. ASSUME Shutdown PROVE [Board!Next]_(Board!vars)
  <2>1. UNCHANGED Readings
    BY <1>5, ReadingsKept DEF Shutdown
  <2> QED
    BY <1>5, <2>1 DEF Shutdown, cacheVars, Doubted, Board!Next, Board!Close
<1>6. ASSUME NEW c \in Configs, NEW s \in Answers[c], TargetChanges(c, s)
      PROVE  [Board!Next]_(Board!vars)
  <2>1. \A v \in UIDs : Agreed(v)' <=> Agreed(v)
    BY <1>6 DEF TargetChanges, cacheVars, loopVars, reconVars, Agreed, ConfigOf
  <2>2. UNCHANGED Doubted
    BY <1>6, <2>1 DEF TargetChanges, Doubted
  <2>3. s \in {"healthy", "unhealthy", "unknown"}
    BY AnswerAssumption DEF Status
  <2>4. UNCHANGED Readings
    BY <1>6, ReadingsKept DEF TargetChanges, loopVars
  <2> QED
    BY <1>6, <2>2, <2>3, <2>4 DEF TargetChanges, cacheVars, Board!Next, Board!TargetTurns
<1>7. ASSUME ReconcileStep \/ StopAll PROVE [Board!Next]_(Board!vars)
  <2>1. UNCHANGED <<services, answer, ctxDone>>
    BY <1>7 DEF ReconcileStep, ReconcileStart, ReconcileKeep, ReconcileLaunch,
                ReconcileSweep, StopAll, cacheVars, envVars
  <2>2. \A k \in Loops : /\ pc'[k] = "probed" <=> pc[k] = "probed"
                         /\ pc[k] = "probed" => task'[k] = task[k] /\ result'[k] = result[k]
    BY <1>7 DEF ReconcileStep, ReconcileStart, ReconcileKeep, ReconcileLaunch,
                ReconcileSweep, StopAll, loopVars, IInv, TypeOK
  <2> QED
    BY <1>1, <2>1, <2>2, ReadingsKept
<1>8. ASSUME NEW l \in Loops, LoopCheck(l) \/ LoopNotify(l) \/ LoopPublish(l) \/ LoopTick(l)
                              \/ LoopStop(l) \/ LoopForget(l)
      PROVE [Board!Next]_(Board!vars)
  <2>1. UNCHANGED <<services, answer, ctxDone>>
    BY <1>8 DEF LoopCheck, LoopNotify, LoopPublish, LoopTick, LoopStop, LoopForget,
                cacheVars, envVars
  <2>2. \A k \in Loops : /\ pc'[k] = "probed" <=> pc[k] = "probed"
                         /\ pc[k] = "probed" => task'[k] = task[k] /\ result'[k] = result[k]
    BY <1>8 DEF LoopCheck, LoopNotify, LoopPublish, LoopTick, LoopStop, LoopForget,
                IInv, TypeOK
  <2> QED
    BY <1>1, <2>1, <2>2, ReadingsKept
<1>9. ASSUME UNCHANGED vars PROVE [Board!Next]_(Board!vars)
  <2>1. UNCHANGED Readings
    BY <1>9, ReadingsKept DEF vars
  <2> QED
    BY <1>1, <1>9, <2>1 DEF vars
<1> QED
  BY <1>2, <1>3, <1>4, <1>5, <1>6, <1>7, <1>8, <1>9 DEF Next, Watcher, LoopStep

(* The cache and the checker implement the board: whatever loops overlap   *)
(* and however late a result is stored, a verdict is what a probe of the   *)
(* present configuration found when its response arrived; an older finding *)
(* goes up over a newer one, and the failed probe of a cancelled loop at   *)
(* all, only after the configuration was exchanged, or at shutdown.        *)
THEOREM CheckerImplementsBoard == Spec => VerdictsFollowTargets
<1> QED
  BY BoardInit, BoardStep, Invariance, PTL DEF Spec, VerdictsFollowTargets, Board!Spec

=============================================================================
