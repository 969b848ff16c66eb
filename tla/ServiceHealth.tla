---------------------------- MODULE ServiceHealth ----------------------------
(***************************************************************************)
(* The service cache (internal/cache/service_cache.go) and the health      *)
(* checker (internal/health/checker.go) that share it.                     *)
(*                                                                         *)
(* Three kinds of goroutine touch this state: the watcher calls Add and    *)
(* Remove, one reconcile goroutine keeps a table of probe loops in step    *)
(* with the cache, and each probe loop probes one configuration of one     *)
(* service.  Every critical section of c.mu or h.mu is one action; what    *)
(* happens between two critical sections is left free to interleave.       *)
(***************************************************************************)
EXTENDS Naturals, FiniteSets

CONSTANTS
    UIDs,       \* service UIDs
    Configs,    \* values of HealthCheckConfig; == on them is comparison by value
    NoConfig,   \* the nil *HealthCheckConfig
    Direct,     \* configurations probed from the webapi process itself: the
                \* trusted ones, and all of them when no probe runner is set
    Answers,    \* per configuration, the statuses a probe of its target can find
    Reasons,    \* why buildHealthCheckConfig dropped a requested check
    NoReason,   \* the empty reason
    NoService,  \* an absent key of c.services
    Loops,      \* identities for probeLoop goroutines; bounds how many live at once
    NoProbe     \* an absent key of h.running

ASSUME UIDAssumption     == UIDs # {}
ASSUME ConfigAssumption  == NoConfig \notin Configs /\ Direct \subseteq Configs
ASSUME ReasonAssumption  == NoReason \notin Reasons

(* A probe answers one of these; "unknown" is also the status of a service *)
(* that was never probed.                                                  *)
Status == {"healthy", "unhealthy", "unknown"}

ServiceInfo == [config : Configs \cup {NoConfig}, health : Status]

ASSUME AnswerAssumption == Answers \in [Configs -> (SUBSET Status) \ {{}}]
ASSUME NullAssumption == NoService \notin ServiceInfo /\ NoProbe \notin [loop : Loops, config : Configs]

VARIABLES
    services,     \* c.services: UID -> ServiceInfo or NoService
    dropReasons,  \* c.healthCheckDropReasons: UID -> reason or NoReason
    running,      \* h.running: UID -> the registered loop and its config, or NoProbe
    pc,           \* where each probeLoop goroutine stands
    task,         \* the uid and cfg arguments of each probeLoop
    prev,         \* prevStatus of each loop, read before its probe
    result,       \* what the probe of each loop returned, not yet stored
    cancelled,    \* loops whose context is done
    phase,        \* where the reconcile goroutine stands
    snap,         \* configurations in its GetAll snapshot
    todo,         \* services of the snapshot it has still to visit
    ctxDone,      \* the context given to Start has been cancelled
    answer        \* environment: what a probe of each configuration finds now

cacheVars == <<services, dropReasons>>
loopVars  == <<pc, task, prev, result, cancelled>>
reconVars == <<phase, snap, todo>>
envVars   == <<ctxDone, answer>>
vars      == <<services, dropReasons, running, pc, task, prev, result,
               cancelled, phase, snap, todo, ctxDone, answer>>

(* Where a probeLoop goroutine stands.                                     *)
(*   free     not launched, or returned                                    *)
(*   check    about to call HealthStatusIfCurrent                          *)
(*   probing  request in flight, no lock held                              *)
(*   probed   Probe has returned; UpdateHealthIfCurrent comes next         *)
(*   forget   found its config not current, about to call forgetRunningProbe *)
(*   notify   about to post the "back online" notification                 *)
(*   publish  about to publish the "modified" event                        *)
(*   wait     in the select on ticker and context                          *)
LoopPC == {"free", "check", "probing", "probed", "forget", "notify", "publish", "wait"}

Task == [uid : UIDs, config : Configs \cup {NoConfig}]

TypeOK ==
    /\ services \in [UIDs -> ServiceInfo \cup {NoService}]
    /\ dropReasons \in [UIDs -> Reasons \cup {NoReason}]
    /\ running \in [UIDs -> [loop : Loops, config : Configs] \cup {NoProbe}]
    /\ pc \in [Loops -> LoopPC]
    /\ task \in [Loops -> Task]
    /\ prev \in [Loops -> Status]
    /\ result \in [Loops -> Status]
    /\ cancelled \subseteq Loops
    /\ phase \in {"idle", "walk", "stopped"}
    /\ snap \in [UIDs -> Configs \cup {NoConfig}]
    /\ todo \subseteq UIDs
    /\ ctxDone \in BOOLEAN
    /\ answer \in [Configs -> Status]

(* The arguments of a goroutine that is not there, never read.             *)
NoTask == [uid |-> CHOOSE u \in UIDs : TRUE, config |-> NoConfig]

(* The configuration GetAll shows for a service, NoConfig when absent.     *)
ConfigOf(u) == IF services[u] = NoService THEN NoConfig ELSE services[u].config

Init ==
    /\ services = [u \in UIDs |-> NoService]
    /\ dropReasons = [u \in UIDs |-> NoReason]
    /\ running = [u \in UIDs |-> NoProbe]
    /\ pc = [l \in Loops |-> "free"]
    /\ task = [l \in Loops |-> NoTask]
    /\ prev = [l \in Loops |-> "unknown"]
    /\ result = [l \in Loops |-> "unknown"]
    /\ cancelled = {}
    /\ phase = "idle" /\ snap = [u \in UIDs |-> NoConfig] /\ todo = {}
    /\ ctxDone = FALSE
    /\ answer \in {f \in [Configs -> Status] : \A c \in Configs : f[c] \in Answers[c]}

-----------------------------------------------------------------------------
(* ServiceCache, called by the watcher.                                    *)

(* preserveHealthStatus and shouldResetHealthStatus.                       *)
HealthAfterAdd(u, config) ==
    IF services[u] = NoService \/ (services[u].config # NoConfig /\ config = NoConfig)
    THEN "unknown"
    ELSE services[u].health

(* Add of an app with an enabled landing page.  config and reason are what *)
(* buildHealthCheckConfig returned: a reason only without a config.        *)
Add(u, config, reason) ==
    /\ reason # NoReason => config = NoConfig
    /\ services' = [services EXCEPT ![u] =
                       [config |-> config, health |-> HealthAfterAdd(u, config)]]
    /\ dropReasons' = [dropReasons EXCEPT ![u] = reason]
    /\ UNCHANGED <<running, loopVars, reconVars, envVars>>

(* Remove, also reached from Add of an app without an enabled landing page. *)
Remove(u) ==
    /\ services' = [services EXCEPT ![u] = NoService]
    /\ dropReasons' = [dropReasons EXCEPT ![u] = NoReason]
    /\ UNCHANGED <<running, loopVars, reconVars, envVars>>

-----------------------------------------------------------------------------
(* The reconcile goroutine.                                                *)

(* h.running has a loop for u whose config equals c.                       *)
Runs(u, c) == running[u] # NoProbe /\ running[u].config = c

(* The loops whose cancel function h.running holds for the UIDs in us.     *)
LoopsOf(us) == {l \in Loops : \E u \in us : running[u] # NoProbe /\ running[u].loop = l}

(* GetAll, under the cache's read lock.                                    *)
ReconcileStart ==
    /\ phase = "idle" /\ phase' = "walk"
    /\ snap' = [u \in UIDs |-> ConfigOf(u)]
    /\ todo' = {u \in UIDs : ConfigOf(u) # NoConfig}
    /\ UNCHANGED <<cacheVars, running, loopVars, envVars>>

(* One iteration over the snapshot, under h.mu: a loop that runs another   *)
(* configuration is cancelled, and a service without a loop gets one whose *)
(* context is derived from Start's.  The order of the snapshot (priority,  *)
(* name) is left open.                                                     *)
ReconcileKeep(u) ==
    /\ phase = "walk" /\ u \in todo /\ Runs(u, snap[u])
    /\ todo' = todo \ {u}
    /\ UNCHANGED <<cacheVars, running, loopVars, phase, snap, envVars>>

ReconcileLaunch(u, l) ==
    /\ phase = "walk" /\ u \in todo /\ ~Runs(u, snap[u])
    /\ pc[l] = "free"
    /\ todo' = todo \ {u}
    /\ running' = [running EXCEPT ![u] = [loop |-> l, config |-> snap[u]]]
    /\ pc' = [pc EXCEPT ![l] = "check"]
    /\ task' = [task EXCEPT ![l] = [uid |-> u, config |-> snap[u]]]
    /\ cancelled' = cancelled \cup LoopsOf({u}) \cup (IF ctxDone THEN {l} ELSE {})
    /\ UNCHANGED <<cacheVars, prev, result, phase, snap, envVars>>

(* Mutation of Drop: the entries go, their contexts are not cancelled.     *)
DropWithoutCancel(gone) ==
    /\ running' = [u \in UIDs |-> IF u \in gone THEN NoProbe ELSE running[u]]
    /\ UNCHANGED cancelled

(* Cancel and forget the loops registered for the UIDs in gone.            *)
Drop(gone) ==
    /\ running' = [u \in UIDs |-> IF u \in gone THEN NoProbe ELSE running[u]]
    /\ cancelled' = cancelled \cup LoopsOf(gone)

ReconcileSweep ==
    /\ phase = "walk" /\ todo = {}
    /\ Drop({u \in UIDs : snap[u] = NoConfig})
    /\ phase' = "idle" /\ snap' = [u \in UIDs |-> NoConfig]
    /\ UNCHANGED <<cacheVars, pc, task, prev, result, todo, envVars>>

(* Mutation of StopAll: contexts are cancelled, entries stay.              *)
StopAllKeepsEntries ==
    /\ ctxDone /\ phase = "idle" /\ phase' = "stopped"
    /\ cancelled' = cancelled \cup LoopsOf(UIDs)
    /\ UNCHANGED <<cacheVars, running, pc, task, prev, result, snap, todo, envVars>>

(* The select in Start may still pick the ticker once ctx is done, so      *)
(* ReconcileStart stays enabled until stopAll runs.                        *)
StopAll ==
    /\ ctxDone /\ phase = "idle" /\ phase' = "stopped"
    /\ Drop(UIDs)
    /\ UNCHANGED <<cacheVars, pc, task, prev, result, snap, todo, envVars>>

-----------------------------------------------------------------------------
(* A probe loop: probeLoop and probeIfCurrent.                             *)

(* healthCheckConfigMatches                                                *)
Current(l) == /\ services[task[l].uid] # NoService
              /\ services[task[l].uid].config = task[l].config

(* HealthStatusIfCurrent                                                   *)
LoopCheck(l) ==
    /\ pc[l] = "check"
    /\ IF Current(l)
       THEN /\ pc' = [pc EXCEPT ![l] = "probing"]
            /\ prev' = [prev EXCEPT ![l] = services[task[l].uid].health]
       ELSE /\ pc' = [pc EXCEPT ![l] = "forget"]
            /\ UNCHANGED prev
    /\ UNCHANGED <<cacheVars, running, task, result, cancelled, reconVars, envVars>>

(* What Probe can return: what the target answers, or, once the loop's     *)
(* context is done, the failed request: "unhealthy" from a direct probe,   *)
(* "unknown" through the runner.                                           *)
ProbeResults(l) ==
    {answer[task[l].config]} \cup
        IF l \notin cancelled THEN {}
        ELSE IF task[l].config \in Direct THEN {"unhealthy"} ELSE {"unknown"}

(* Mutation of StoreResult: UpdateHealth for UpdateHealthIfCurrent.        *)
StoreUnchecked(l, r) ==
    IF services[task[l].uid] # NoService
    THEN /\ services' = [services EXCEPT ![task[l].uid].health = r]
         /\ pc' = [pc EXCEPT ![l] = IF r = "healthy" /\ prev[l] = "unhealthy"
                                    THEN "notify" ELSE "publish"]
    ELSE /\ pc' = [pc EXCEPT ![l] = "forget"]
         /\ UNCHANGED services

(* UpdateHealthIfCurrent of result r and the branch of afterHealthUpdate.  *)
StoreResult(l, r) ==
    IF Current(l)
    THEN /\ services' = [services EXCEPT ![task[l].uid] =
                            [config |-> services[task[l].uid].config, health |-> r]]
         /\ pc' = [pc EXCEPT ![l] = IF r = "healthy" /\ prev[l] = "unhealthy"
                                    THEN "notify" ELSE "publish"]
    ELSE /\ pc' = [pc EXCEPT ![l] = "forget"]
         /\ UNCHANGED services

(* The response arrives and Probe returns; no lock is held, and the result *)
(* is fixed from here on, whatever becomes of the target or the context.   *)
LoopProbe(l) ==
    /\ pc[l] = "probing" /\ pc' = [pc EXCEPT ![l] = "probed"]
    /\ \E r \in ProbeResults(l) : result' = [result EXCEPT ![l] = r]
    /\ UNCHANGED <<cacheVars, running, task, prev, cancelled, reconVars, envVars>>

(* The result is stored, under the cache's lock, some time later.          *)
LoopStore(l) ==
    /\ pc[l] = "probed"
    /\ StoreResult(l, result[l])
    /\ prev' = [prev EXCEPT ![l] = "unknown"]
    /\ result' = [result EXCEPT ![l] = "unknown"]
    /\ UNCHANGED <<dropReasons, running, task, cancelled, reconVars, envVars>>

(* postRecoveryNotif; the notification itself leaves this component.       *)
LoopNotify(l) ==
    /\ pc[l] = "notify" /\ pc' = [pc EXCEPT ![l] = "publish"]
    /\ UNCHANGED <<cacheVars, running, task, prev, result, cancelled, reconVars, envVars>>

(* publishIfChanged; the event leaves this component.                      *)
LoopPublish(l) ==
    /\ pc[l] = "publish" /\ pc' = [pc EXCEPT ![l] = "wait"]
    /\ UNCHANGED <<cacheVars, running, task, prev, result, cancelled, reconVars, envVars>>

(* The ticker case of the select, which may win over a done context.       *)
LoopTick(l) ==
    /\ pc[l] = "wait" /\ pc' = [pc EXCEPT ![l] = "check"]
    /\ UNCHANGED <<cacheVars, running, task, prev, result, cancelled, reconVars, envVars>>

(* The ctx.Done case of the select.                                        *)
LoopStop(l) ==
    /\ pc[l] = "wait" /\ l \in cancelled
    /\ pc' = [pc EXCEPT ![l] = "free"]
    /\ task' = [task EXCEPT ![l] = NoTask]
    /\ cancelled' = cancelled \ {l}
    /\ UNCHANGED <<cacheVars, running, prev, result, reconVars, envVars>>

(* Mutation of LoopForget: the goroutine ends and its entry stays.         *)
LoopForgetLeavesEntry(l) ==
    /\ pc[l] = "forget"
    /\ pc' = [pc EXCEPT ![l] = "free"]
    /\ task' = [task EXCEPT ![l] = NoTask]
    /\ cancelled' = cancelled \ {l}
    /\ UNCHANGED <<cacheVars, running, prev, result, reconVars, envVars>>

(* Mutation of LoopForget: the entry goes uncancelled and probeLoop does   *)
(* not return on a false probeIfCurrent.                                   *)
LoopForgetKeepsGoing(l) ==
    /\ pc[l] = "forget"
    /\ running' = IF Runs(task[l].uid, task[l].config)
                  THEN [running EXCEPT ![task[l].uid] = NoProbe] ELSE running
    /\ pc' = [pc EXCEPT ![l] = "wait"]
    /\ UNCHANGED <<cacheVars, task, prev, result, cancelled, reconVars, envVars>>

(* forgetRunningProbe and the end of the goroutine: whatever loop is       *)
(* registered for the UID under an equal config is cancelled and dropped.  *)
LoopForget(l) ==
    /\ pc[l] = "forget"
    /\ IF Runs(task[l].uid, task[l].config)
       THEN /\ running' = [running EXCEPT ![task[l].uid] = NoProbe]
            /\ cancelled' = (cancelled \cup LoopsOf({task[l].uid})) \ {l}
       ELSE /\ cancelled' = cancelled \ {l}
            /\ UNCHANGED running
    /\ pc' = [pc EXCEPT ![l] = "free"]
    /\ task' = [task EXCEPT ![l] = NoTask]
    /\ UNCHANGED <<cacheVars, prev, result, reconVars, envVars>>

-----------------------------------------------------------------------------
(* Environment.                                                            *)

Shutdown ==
    /\ ~ctxDone /\ ctxDone' = TRUE
    /\ cancelled' = {l \in Loops : pc[l] # "free"}
    /\ UNCHANGED <<cacheVars, running, pc, task, prev, result, reconVars, answer>>

TargetChanges(c, s) ==
    /\ answer' = [answer EXCEPT ![c] = s]
    /\ UNCHANGED <<cacheVars, running, loopVars, reconVars, ctxDone>>

LoopStep(l) == \/ LoopCheck(l) \/ LoopProbe(l) \/ LoopStore(l) \/ LoopNotify(l)
               \/ LoopPublish(l) \/ LoopTick(l) \/ LoopForget(l)

ReconcileStep == \/ ReconcileStart \/ ReconcileSweep
                 \/ \E u \in UIDs : ReconcileKeep(u) \/ \E l \in Loops : ReconcileLaunch(u, l)

Watcher == \E u \in UIDs :
              \/ Remove(u)
              \/ \E c \in Configs \cup {NoConfig}, r \in Reasons \cup {NoReason} : Add(u, c, r)

Next == \/ Watcher \/ ReconcileStep \/ StopAll \/ Shutdown
        \/ \E l \in Loops : LoopStep(l) \/ LoopStop(l)
        \/ \E c \in Configs : \E s \in Answers[c] : TargetChanges(c, s)

Spec == Init /\ [][Next]_vars

(* Tickers fire and probes time out, so the reconcile goroutine and every  *)
(* loop keep moving.  A select whose two cases are ready picks either at   *)
(* random: it does not ignore a done context for ever.                     *)
Fairness ==
    /\ WF_vars(ReconcileStep)
    /\ SF_vars(StopAll)
    /\ \A l \in Loops : WF_vars(LoopStep(l)) /\ SF_vars(LoopStop(l))

FairSpec == Spec /\ Fairness

-----------------------------------------------------------------------------
(* Properties.                                                             *)

(* A service without a probe configuration shows "unknown": no probe that  *)
(* was in flight when the check was dropped or revoked, and no status kept *)
(* across an update, leaves a verdict nobody refreshes any more.           *)
UnconfiguredIsUnknown ==
    \A u \in UIDs : services[u] # NoService /\ services[u].config = NoConfig
                      => services[u].health = "unknown"

(* Before shutdown, every entry of h.running stands for a goroutine that   *)
(* still runs that configuration for that service with a live context: a   *)
(* dead entry would make every later reconcile skip the service.           *)
RegisteredLoopRuns ==
    ~ctxDone => \A u \in UIDs : running[u] # NoProbe =>
        /\ pc[running[u].loop] # "free"
        /\ running[u].loop \notin cancelled
        /\ task[running[u].loop].uid = u
        /\ task[running[u].loop].config = running[u].config

(* Before shutdown, a probe loop that nobody cancelled is the one in       *)
(* h.running, so it can still be cancelled, and a service has at most one. *)
LiveLoopIsRegistered ==
    ~ctxDone => \A l \in Loops : pc[l] # "free" /\ l \notin cancelled =>
        running[task[l].uid] # NoProbe /\ running[task[l].uid].loop = l

(* After any sequence of updates and removals, a remembered drop reason    *)
(* belongs to a listed service whose check is off.                         *)
DropReasonExplainsMissingCheck ==
    \A u \in UIDs : dropReasons[u] # NoReason =>
        services[u] # NoService /\ services[u].config = NoConfig

(* Once a service keeps one configuration and its target keeps giving one  *)
(* answer, the cache comes to show that answer and stays with it, whatever *)
(* superseded loops are still finishing, cancelled or forgetting entries.  *)
HealthConverges ==
    \A u \in UIDs, c \in Configs : \A s \in Answers[c] :
        <>[](~ctxDone /\ ConfigOf(u) = c /\ answer[c] = s)
            => <>[](ConfigOf(u) = c /\ services[u].health = s)

(* The goroutines of a service that is gone, or has no check any more, end. *)
ProbesCease ==
    \A u \in UIDs :
        <>[](ConfigOf(u) = NoConfig)
            => <>[](\A l \in Loops : pc[l] # "free" => task[l].uid # u)

(* Cancelling Start's context ends every goroutine and empties h.running.  *)
ShutdownDrains ==
    ctxDone ~> [](/\ phase = "stopped"
                  /\ \A u \in UIDs : running[u] = NoProbe
                  /\ \A l \in Loops : pc[l] = "free")

(* The inductive invariant behind the theorems: what the reconcile         *)
(* goroutine still has to visit and what a goroutine probes is never the   *)
(* nil configuration, a goroutine slot not in use has no cancelled context *)
(* left over, and the four invariants above.                               *)
WorkIsConfigured ==
    /\ \A u \in todo : snap[u] # NoConfig
    /\ \A l \in Loops : pc[l] # "free" => task[l].config # NoConfig

FreeLoopIsClean == ~ctxDone => \A l \in Loops : pc[l] = "free" => l \notin cancelled

IInv == /\ TypeOK /\ WorkIsConfigured /\ UnconfiguredIsUnknown
        /\ FreeLoopIsClean /\ RegisteredLoopRuns /\ LiveLoopIsRegistered
        /\ DropReasonExplainsMissingCheck

(* Nothing is under way that was meant for another check of service u: its *)
(* goroutines, its entry in h.running and the walk of reconcile all have   *)
(* the configuration the cache has.                                        *)
Agreed(u) ==
    /\ \A l \in Loops : pc[l] # "free" /\ task[l].uid = u
                        => l \notin cancelled /\ task[l].config = ConfigOf(u)
    /\ running[u] # NoProbe => running[u].config = ConfigOf(u)
    /\ phase = "walk" => snap[u] = ConfigOf(u)

Doubted == IF ctxDone THEN UIDs ELSE {u \in UIDs : ~Agreed(u)}

(* The results that have arrived and are not yet stored.                   *)
Readings == {[by |-> l, uid |-> task[l].uid, config |-> task[l].config, verdict |-> result[l]] :
                l \in {k \in Loops : pc[k] = "probed"}}

(* The cache shows verdicts about the target of the present configuration: *)
(* what a probe of that target found when its response arrived, and, unless *)
(* the configuration was just exchanged or Start's context is done, never  *)
(* an older finding over a newer one nor the failed probe of a cancelled   *)
(* loop.                                                                   *)
Board == INSTANCE HealthBoard WITH
             Inspectors <- Loops, board <- services, target <- answer,
             readings <- Readings, doubted <- Doubted, closing <- ctxDone
VerdictsFollowTargets == Board!Spec

(* As checker.go:105 says of SetNotificationStore: a notification is posted *)
(* whenever a service goes from "unhealthy" to "healthy".                  *)
RecoveryNotified ==
    [][\A u \in UIDs :
          /\ services[u] # NoService /\ services[u].health = "unhealthy"
          /\ services'[u] # NoService /\ services'[u].health = "healthy"
          => \E l \in Loops : pc'[l] = "notify" /\ task[l].uid = u]_vars
=============================================================================
