--------------------------- MODULE ProbePathProofs ---------------------------
(***************************************************************************)
(* Proofs about ProbePath, for any NebariApps, static entries, protected   *)
(* targets and delays.                                                     *)
(***************************************************************************)
EXTENDS ProbePath, TLAPS

-----------------------------------------------------------------------------
(* What a configured check looks like.                                     *)

Typed(a) ==
    /\ a.check.interval \in Int /\ a.check.timeout \in Int
    /\ a.check.port \in Int /\ a.servicePort \in Int
    /\ a.check.path.bytes \in Nat /\ a.check.path.extra \in Nat
    /\ a.check.path.kind = "empty" => a.check.path.bytes = 0
    /\ a.static \in BOOLEAN

LEMMA CandidateType ==
    ASSUME statics \in StaticLists, NEW a \in Candidates PROVE Typed(a)
  <1>1. ASSUME NEW u \in Objects, a = ToApp(u) PROVE Typed(a)
    <2>1. /\ u.interval \in Int /\ u.timeout \in Int /\ u.port \in Int /\ u.servicePort \in Int
          /\ u.path.bytes \in Nat /\ u.path.extra \in Nat
          /\ u.path.kind = "empty" => u.path.bytes = 0
      BY SettingsAssumption
    <2>2. a.servicePort = u.servicePort /\ a.check = HealthCheck(u)
      BY <1>1 DEF ToApp
    <2>3. /\ a.check.interval = u.interval /\ a.check.timeout = u.timeout
          /\ a.check.port = u.port /\ a.check.path = u.path
      <3>1. /\ HealthCheck(u).interval = u.interval /\ HealthCheck(u).timeout = u.timeout
            /\ HealthCheck(u).port = u.port /\ HealthCheck(u).path = u.path
        BY DEF HealthCheck
      <3> QED BY <2>2, <3>1
    <2>4. a.static \in BOOLEAN BY <1>1 DEF ToApp
    <2> QED BY <2>1, <2>2, <2>3, <2>4 DEF Typed
  <1>2. ASSUME NEW i \in DOMAIN statics, a = StaticApp(statics[i]) PROVE Typed(a)
    <2>1. statics[i].interval \in Int /\ statics[i].timeout \in Int
      BY SettingsAssumption
    <2>2. /\ a.servicePort = 0 /\ a.check.interval = statics[i].interval
          /\ a.check.timeout = statics[i].timeout /\ a.check.port = 0
          /\ a.check.path = [kind |-> "empty", bytes |-> 0, extra |-> 0]
      BY <1>2 DEF StaticApp
    <2>3. a.static \in BOOLEAN BY <1>2 DEF StaticApp
    <2> QED BY <2>1, <2>2, <2>3 DEF Typed
  <1> QED BY <1>1, <1>2 DEF Candidates

LEMMA Products ==
    ASSUME NEW p \in Nat \ {0}, NEW t \in 1 .. 30, NEW i \in Nat, t <= i
    PROVE  /\ t * p \in Nat /\ p <= t * p /\ t * p <= 30 * p /\ t * p <= i * p
           /\ p * (t + 1) = t * p + p /\ (i + 1) * p = i * p + p
  <1>1. p * (t + 1) = t * p + p /\ (i + 1) * p = i * p + p OBVIOUS
  <1>2. t * p \in Nat OBVIOUS
  <1>3. p <= t * p OBVIOUS
  <1>4. t * p <= 30 * p OBVIOUS
  <1>5. t * p <= i * p OBVIOUS
  <1> QED BY <1>1, <1>2, <1>3, <1>4, <1>5

(* The deadlines nest: the GET's is within the webapi's, which is at most  *)
(* a second after the next probe is due, and within the server's limit.    *)
LEMMA Deadlines ==
    ASSUME NEW a, Typed(a)
    PROVE  /\ TargetLimit(a) \in Nat /\ PerSecond <= TargetLimit(a)
           /\ TargetLimit(a) < ServerLimit
           /\ Deadline(a) = TargetLimit(a) + PerSecond
           /\ Deadline(a) <= (Interval(a) + Slack) * PerSecond
  <1> DEFINE t == Timeout(a)
             i == Interval(a)
  <1>1. t \in 1 .. 30 /\ i \in Nat /\ t <= i
    BY DEF Typed, Timeout, Interval, ClampHealthCheckSeconds, DefaultInterval, MinInterval,
           MaxInterval, DefaultTimeout, MinTimeout, MaxTimeout
  <1>2. Deadline(a) = PerSecond * (t + 1) /\ TargetLimit(a) = t * PerSecond
    BY <1>1 DEF Deadline, TargetLimit, Slack, ClientTimeout
  <1>3. (Interval(a) + Slack) * PerSecond = (i + 1) * PerSecond
    BY DEF Slack
  <1> HIDE DEF t, i
  <1>4. /\ t * PerSecond \in Nat /\ PerSecond <= t * PerSecond
        /\ t * PerSecond <= 30 * PerSecond /\ t * PerSecond <= i * PerSecond
        /\ PerSecond * (t + 1) = t * PerSecond + PerSecond
        /\ (i + 1) * PerSecond = i * PerSecond + PerSecond
    BY <1>1, ProbeAssumption, Products
  <1>5. PerSecond \in Nat \ {0} /\ i * PerSecond \in Int
    BY <1>1, ProbeAssumption
  <1>6. t * PerSecond + PerSecond <= i * PerSecond + PerSecond
    BY <1>4, <1>5
  <1>7. ServerLimit = 40 * PerSecond BY DEF ServerLimit, WriteTimeout
  <1>8. t * PerSecond < ServerLimit
    BY <1>4, <1>5, <1>7
  <1> QED BY <1>2, <1>3, <1>4, <1>6, <1>8

LEMMA Limits ==
    PerSecond \in Nat /\ PerSecond > 0 /\ ServerLimit \in Nat /\ \A h \in Hops : h \in Nat
  BY ProbeAssumption DEF ServerLimit, WriteTimeout

(* The runner applies no rule to a target that the cache did not.          *)
LEMMA RunnerAgrees ==
    ASSUME NEW a, Typed(a), Configured(a), a.static = FALSE
    PROVE  /\ ValidTarget(a)
           /\ BodySize(a) > MaxBody => a.check.path.extra > 0
           /\ a.serviceNamespace = a.namespace \/ a.consent
           /\ Port(a) \in 1 .. MaxPort
           /\ ~Protected(a.serviceNamespace, ServiceName(a), Port(a))
  <1>1. DropReason(a) = "none" BY DEF Configured
  <1>2. PathOK(a.check.path) BY <1>1 DEF DropReason
  <1>3. ServiceName(a) \in Labels BY <1>1 DEF DropReason
  <1>4. ~(Port(a) < 1 \/ Port(a) > MaxPort) BY <1>1 DEF DropReason
  <1>5. a.serviceNamespace \in NamespaceLabels BY <1>1 DEF DropReason
  <1>6. ~(a.serviceNamespace # a.namespace /\ ~a.consent) BY <1>1 DEF DropReason
  <1>7. ~Protected(a.serviceNamespace, ServiceName(a), Port(a)) BY <1>1 DEF DropReason
  <1>8. Port(a) \in 1 .. MaxPort
    <2>1. Port(a) \in Int BY DEF Port, Typed
    <2>2. MaxPort \in Int BY DEF MaxPort
    <2> QED BY <1>4, <2>1, <2>2
  <1>9. ASSUME BodySize(a) > MaxBody PROVE a.check.path.extra > 0
    <2>1. a.check.path.bytes \in Nat /\ a.check.path.extra \in Nat BY DEF Typed
    <2>2. a.check.path.bytes <= 2048
      <3>1. a.check.path.kind = "empty" => a.check.path.bytes = 0 BY DEF Typed
      <3>2. a.check.path.kind = "empty" \/ a.check.path.bytes <= 2048
        BY <1>2 DEF PathOK, MaxPathLength
      <3> QED BY <2>1, <3>1, <3>2
    <2>3. 175 + a.check.path.bytes + a.check.path.extra > 4096
      BY <1>9 DEF BodySize, Envelope, MaxBody
    <2> QED BY <2>1, <2>2, <2>3
  <1> QED BY <1>3, <1>5, <1>6, <1>7, <1>8, <1>9 DEF ValidTarget

(* What is derived from the app and the configuration stays with them.     *)
LEMMA Stays ==
    ASSUME app' = app, UNCHANGED config
    PROVE  /\ Candidates' = Candidates /\ Configured(app)' = Configured(app)
           /\ ThroughRunner(app)' = ThroughRunner(app) /\ Parses(statics)' = Parses(statics)
           /\ Deadline(app)' = Deadline(app) /\ TargetLimit(app)' = TargetLimit(app)
           /\ Refusal(app)' = Refusal(app)
  <1> USE DEF config
  <1>1. Candidates' = Candidates BY DEF Candidates
  <1>2. Configured(app)' = Configured(app) OBVIOUS
  <1>3. ThroughRunner(app)' = ThroughRunner(app) BY DEF ThroughRunner, Trusted
  <1>4. Parses(statics)' = Parses(statics) OBVIOUS
  <1>5. /\ Deadline(app)' = Deadline(app) /\ TargetLimit(app)' = TargetLimit(app)
        /\ Refusal(app)' = Refusal(app)
    OBVIOUS
  <1> QED BY <1>1, <1>2, <1>3, <1>4, <1>5

LEMMA Times ==
    ASSUME NEW a, Typed(a), NEW d \in TargetTimes(a) PROVE d \in Nat /\ d < TargetLimit(a)
  BY Deadlines, Limits DEF TargetTimes

LEMMA RefusalType == ASSUME NEW a PROVE Refusal(a) \in {"none", "body", "url", "target"}
  BY DEF Refusal

(* A probe that was started has these limits.                              *)
LEMMA ProbedLimits ==
    ASSUME IInv, phase \in {"direct", "sending", "atRunner", "done"}
    PROVE  /\ TargetLimit(app) \in Nat /\ PerSecond <= TargetLimit(app)
           /\ TargetLimit(app) < ServerLimit
           /\ Deadline(app) = TargetLimit(app) + PerSecond /\ Deadline(app) \in Nat
           /\ \A d \in TargetTimes(app) : d \in Nat /\ d < TargetLimit(app)
  <1>1. Typed(app) BY CandidateType DEF IInv, ProbeIsConfigured
  <1>2. \A d \in TargetTimes(app) : d \in Nat /\ d < TargetLimit(app)
    BY <1>1, Times
  <1>3. /\ TargetLimit(app) \in Nat /\ PerSecond <= TargetLimit(app)
        /\ TargetLimit(app) < ServerLimit /\ Deadline(app) = TargetLimit(app) + PerSecond
    BY <1>1, Deadlines
  <1>4. Deadline(app) \in Nat BY <1>3, Limits
  <1> QED BY <1>2, <1>3, <1>4

(* While it is under way it stays what it is.                              *)
LEMMA SameProbe ==
    ASSUME Probe \/ Cancel
    PROVE  /\ app' = app /\ UNCHANGED config
           /\ Deadline(app)' = Deadline(app) /\ TargetLimit(app)' = TargetLimit(app)
           /\ ThroughRunner(app)' = ThroughRunner(app) /\ Refusal(app)' = Refusal(app)
  <1>1. app' = app /\ UNCHANGED config
    BY DEF Probe, Direct, Send, Lost, Refuse, Measure, GiveUp, Reply, Cancel, Finish
  <1> QED BY <1>1, Stays

-----------------------------------------------------------------------------
(* The steps.                                                              *)

(* Every step keeps the types; times are natural numbers.                  *)
LEMMA TypeStep == ASSUME IInv, [Next]_vars PROVE TypeOK'
  <1> USE Limits DEF TypeOK, ProbeIsOnTime
  <1>a. phase \in {"direct", "sending", "atRunner", "done"} =>
          /\ TargetLimit(app) \in Nat /\ PerSecond <= TargetLimit(app)
          /\ TargetLimit(app) < ServerLimit
          /\ Deadline(app) = TargetLimit(app) + PerSecond /\ Deadline(app) \in Nat
          /\ \A d \in TargetTimes(app) : d \in Nat /\ d < TargetLimit(app)
    BY ProbedLimits
  <1>b. TypeOK /\ ProbeIsOnTime BY DEF IInv
  <1>1. CASE Boot
    BY <1>1, <1>b DEF Boot
  <1>2. ASSUME NEW a \in Candidates, StartProbe(a) PROVE TypeOK'
    BY <1>2, <1>b DEF StartProbe
  <1>3. CASE Direct
    BY <1>3, <1>a, <1>b, RefusalType DEF Direct, Finish, Verdicts
  <1>4. CASE Send
    BY <1>4, <1>a, <1>b, RefusalType DEF Send
  <1>5. CASE Lost
    BY <1>5, <1>a, <1>b, RefusalType DEF Lost, Finish, Unavailable
  <1>6. CASE Refuse
    BY <1>6, <1>a, <1>b, RefusalType DEF Refuse, Finish, Unavailable
  <1>7. CASE Measure
    <2>1. elapsed' \in Nat BY <1>7, <1>a, <1>b DEF Measure
    <2>2. measured' \in Verdicts BY <1>7 DEF Measure, Verdicts
    <2> QED BY <1>7, <1>b, <2>1, <2>2 DEF Measure, Verdicts
  <1>8. CASE GiveUp
    BY <1>8, <1>a, <1>b, RefusalType DEF GiveUp, Finish, Unavailable
  <1>9. CASE Reply
    <2>1. PICK h \in Hops :
             /\ hops' = hops + h
             /\ Finish(measured, elapsed + h) \/ Finish(Unavailable, Deadline(app))
      BY <1>9 DEF Reply
    <2>2. h \in Nat OBVIOUS
    <2>3. elapsed' \in Nat /\ hops' \in Nat /\ phase' = "done"
      BY <1>9, <1>a, <1>b, <2>1, <2>2 DEF Reply, Finish
    <2>4. result' \in {"healthy", "unhealthy", "unknown"}
      BY <1>9, <1>b, <2>1 DEF Reply, Finish, Unavailable
    <2> QED BY <1>9, <1>b, <2>3, <2>4 DEF Reply
  <1>10. CASE Cancel
    BY <1>10, <1>a, <1>b, RefusalType DEF Cancel, Finish, Unavailable
  <1>11. CASE Again
    BY <1>11, <1>b DEF Again
  <1>12. CASE UNCHANGED vars BY <1>12, Stays, <1>a, <1>b, RefusalType DEF vars, config
  <1> QED
    BY <1>1, <1>2, <1>3, <1>4, <1>5, <1>6, <1>7, <1>8, <1>9, <1>10, <1>11, <1>12
    DEF Next, Probe, Candidates

(* What is probed was accepted by buildHealthCheckConfig, and stays so.    *)
LEMMA ConfiguredStep == ASSUME IInv, [Next]_vars PROVE ProbeIsConfigured'
  <1> USE Limits DEF IInv, ProbeIsConfigured, config
  <1>1. CASE Boot
    BY <1>1 DEF Boot
  <1>2. ASSUME NEW a \in Candidates, StartProbe(a) PROVE ProbeIsConfigured'
    <2>1. statics' = statics /\ runner' = runner /\ Candidates' = Candidates
      BY <1>2 DEF StartProbe, Candidates
    <2>2. app' = a /\ Configured(app)' BY <1>2 DEF StartProbe
    <2>3. ThroughRunner(app)' <=> ThroughRunner(a) BY <2>1, <2>2 DEF ThroughRunner
    <2>4. IF ThroughRunner(a) THEN phase' = "sending" ELSE phase' = "direct"
      BY <1>2 DEF StartProbe
    <2> QED BY <1>2, <2>1, <2>2, <2>3, <2>4 DEF StartProbe
  <1>3. CASE Direct
    BY <1>3, Stays DEF Direct, Finish, Verdicts
  <1>4. CASE Send
    BY <1>4, Stays DEF Send
  <1>5. CASE Lost
    BY <1>5, Stays DEF Lost, Finish, Unavailable
  <1>6. CASE Refuse
    BY <1>6, Stays DEF Refuse, Finish, Unavailable
  <1>7. CASE Measure
    BY <1>7, Stays DEF Measure, Verdicts
  <1>8. CASE GiveUp
    BY <1>8, Stays DEF GiveUp, Finish, Unavailable
  <1>9. CASE Reply
    BY <1>9, Stays DEF Reply, Finish, Unavailable
  <1>10. CASE Cancel
    BY <1>10, Stays DEF Cancel, Finish, Unavailable
  <1>11. CASE Again
    BY <1>11 DEF Again
  <1>12. CASE UNCHANGED vars BY <1>12, Stays DEF vars, config
  <1> QED
    BY <1>1, <1>2, <1>3, <1>4, <1>5, <1>6, <1>7, <1>8, <1>9, <1>10, <1>11, <1>12
    DEF Next, Probe, Candidates

(* A request at the runner is within the webapi's deadline, a finished one *)
(* was over by then.                                                       *)
LEMMA OnTimeStep == ASSUME IInv, [Next]_vars PROVE ProbeIsOnTime'
  <1> USE Limits DEF TypeOK, ProbeIsOnTime
  <1>a. phase \in {"direct", "sending", "atRunner", "done"} =>
          /\ TargetLimit(app) \in Nat /\ PerSecond <= TargetLimit(app)
          /\ TargetLimit(app) < ServerLimit
          /\ Deadline(app) = TargetLimit(app) + PerSecond /\ Deadline(app) \in Nat
          /\ \A d \in TargetTimes(app) : d \in Nat /\ d < TargetLimit(app)
    BY ProbedLimits
  <1>b. TypeOK /\ ProbeIsOnTime BY DEF IInv
  <1>1. CASE Boot
    BY <1>1, <1>b DEF Boot
  <1>2. ASSUME NEW a \in Candidates, StartProbe(a) PROVE ProbeIsOnTime'
    BY <1>2, <1>b DEF StartProbe
  <1>3. CASE Direct
    <2>1. Deadline(app)' = Deadline(app) /\ TargetLimit(app)' = TargetLimit(app)
      BY <1>3, SameProbe DEF Probe
    <2> QED BY <1>3, <1>a, <1>b, <2>1 DEF Direct, Finish, Verdicts
  <1>4. CASE Send
    <2>1. Deadline(app)' = Deadline(app) /\ TargetLimit(app)' = TargetLimit(app)
      BY <1>4, SameProbe DEF Probe
    <2> QED BY <1>4, <1>a, <1>b, <2>1 DEF Send
  <1>5. CASE Lost
    <2>1. Deadline(app)' = Deadline(app) /\ TargetLimit(app)' = TargetLimit(app)
      BY <1>5, SameProbe DEF Probe
    <2> QED BY <1>5, <1>a, <1>b, <2>1 DEF Lost, Finish, Unavailable
  <1>6. CASE Refuse
    <2>1. Deadline(app)' = Deadline(app) /\ TargetLimit(app)' = TargetLimit(app)
      BY <1>6, SameProbe DEF Probe
    <2> QED BY <1>6, <1>a, <1>b, <2>1 DEF Refuse, Finish, Unavailable
  <1>7. CASE Measure
    <2>1. Deadline(app)' = Deadline(app) /\ TargetLimit(app)' = TargetLimit(app)
      BY <1>7, SameProbe DEF Probe
    <2> QED BY <1>7, <1>a, <1>b, <2>1 DEF Measure, Verdicts
  <1>8. CASE GiveUp
    <2>1. Deadline(app)' = Deadline(app) /\ TargetLimit(app)' = TargetLimit(app)
      BY <1>8, SameProbe DEF Probe
    <2> QED BY <1>8, <1>a, <1>b, <2>1 DEF GiveUp, Finish, Unavailable
  <1>9. CASE Reply
    <2>1. Deadline(app)' = Deadline(app) /\ TargetLimit(app)' = TargetLimit(app)
      BY <1>9, SameProbe DEF Probe
    <2> QED BY <1>9, <1>a, <1>b, <2>1 DEF Reply, Finish, Unavailable
  <1>10. CASE Cancel
    <2>1. Deadline(app)' = Deadline(app) /\ TargetLimit(app)' = TargetLimit(app)
      BY <1>10, SameProbe DEF Probe
    <2> QED BY <1>10, <1>a, <1>b, <2>1 DEF Cancel, Finish, Unavailable
  <1>11. CASE Again
    BY <1>11, <1>b DEF Again
  <1>12. CASE UNCHANGED vars BY <1>12, Stays, <1>a, <1>b DEF vars, config
  <1> QED
    BY <1>1, <1>2, <1>3, <1>4, <1>5, <1>6, <1>7, <1>8, <1>9, <1>10, <1>11, <1>12
    DEF Next, Probe, Candidates

(* A refusal is the runner's, a verdict was measured and, with quick hops, *)
(* a measurement is the verdict.                                           *)
LEMMA OutcomeStep == ASSUME IInv, [Next]_vars PROVE OutcomeIsExplained'
  <1> USE Limits DEF IInv, TypeOK, ProbeIsOnTime, OutcomeIsExplained,
            OnlyMeasuredIsUnhealthy, SlowTargetIsMeasured, Through, Slack
  <1>a. phase \in {"direct", "sending", "atRunner", "done"} =>
          /\ TargetLimit(app) \in Nat /\ PerSecond <= TargetLimit(app)
          /\ TargetLimit(app) < ServerLimit
          /\ Deadline(app) = TargetLimit(app) + PerSecond /\ Deadline(app) \in Nat
          /\ \A d \in TargetTimes(app) : d \in Nat /\ d < TargetLimit(app)
    BY ProbedLimits
  <1>b. TypeOK /\ ProbeIsOnTime BY DEF IInv
  <1>c. /\ phase \in {"sending", "atRunner"} => ThroughRunner(app)
        /\ phase = "direct" => ~ThroughRunner(app)
    BY DEF IInv, ProbeIsConfigured
  <1>1. CASE Boot
    BY <1>1, <1>b DEF Boot
  <1>2. ASSUME NEW a \in Candidates, StartProbe(a) PROVE OutcomeIsExplained'
    BY <1>2, <1>b DEF StartProbe
  <1>3. CASE Direct
    <2>1. ThroughRunner(app)' = ThroughRunner(app) /\ Refusal(app)' = Refusal(app)
      BY <1>3, SameProbe DEF Probe
    <2> QED BY <1>3, <1>a, <1>b, <1>c, <2>1 DEF Direct, Finish, Verdicts
  <1>4. CASE Send
    <2>1. ThroughRunner(app)' = ThroughRunner(app) /\ Refusal(app)' = Refusal(app)
      BY <1>4, SameProbe DEF Probe
    <2> QED BY <1>4, <1>a, <1>b, <1>c, <2>1 DEF Send
  <1>5. CASE Lost
    <2>1. ThroughRunner(app)' = ThroughRunner(app) /\ Refusal(app)' = Refusal(app)
      BY <1>5, SameProbe DEF Probe
    <2> QED BY <1>5, <1>a, <1>b, <1>c, <2>1 DEF Lost, Finish, Unavailable
  <1>6. CASE Refuse
    <2>1. ThroughRunner(app)' = ThroughRunner(app) /\ Refusal(app)' = Refusal(app)
      BY <1>6, SameProbe DEF Probe
    <2> QED BY <1>6, <1>a, <1>b, <1>c, <2>1 DEF Refuse, Finish, Unavailable
  <1>7. CASE Measure
    <2>1. ThroughRunner(app)' = ThroughRunner(app) /\ Refusal(app)' = Refusal(app)
      BY <1>7, SameProbe DEF Probe
    <2> QED BY <1>7, <1>a, <1>b, <1>c, <2>1 DEF Measure, Verdicts
  <1>8. CASE GiveUp
    <2>1. ThroughRunner(app)' = ThroughRunner(app) /\ Refusal(app)' = Refusal(app)
      BY <1>8, SameProbe DEF Probe
    <2> QED BY <1>8, <1>a, <1>b, <1>c, <2>1 DEF GiveUp, Finish, Unavailable
  <1>9. CASE Reply
    <2>1. ThroughRunner(app)' = ThroughRunner(app) /\ Refusal(app)' = Refusal(app)
      BY <1>9, SameProbe DEF Probe
    <2> QED BY <1>9, <1>a, <1>b, <1>c, <2>1 DEF Reply, Finish, Unavailable
  <1>10. CASE Cancel
    <2>1. ThroughRunner(app)' = ThroughRunner(app) /\ Refusal(app)' = Refusal(app)
      BY <1>10, SameProbe DEF Probe
    <2> QED BY <1>10, <1>a, <1>b, <1>c, <2>1 DEF Cancel, Finish, Unavailable
  <1>11. CASE Again
    BY <1>11, <1>b DEF Again
  <1>12. CASE UNCHANGED vars BY <1>12, Stays, <1>a, <1>b, <1>c DEF vars, config
  <1> QED
    BY <1>1, <1>2, <1>3, <1>4, <1>5, <1>6, <1>7, <1>8, <1>9, <1>10, <1>11, <1>12
    DEF Next, Probe, Candidates

-----------------------------------------------------------------------------
(* The invariant as a whole.                                               *)

LEMMA Initially == ASSUME Init PROVE IInv
  BY DEF Init, IInv, TypeOK, ProbeIsConfigured, ProbeIsOnTime, OutcomeIsExplained,
         OnlyMeasuredIsUnhealthy, SlowTargetIsMeasured, Through

(* From boot to verdict the probe path keeps its inductive invariant.      *)
THEOREM Inductive == Spec => []IInv
  <1>1. Init => IInv
    BY Initially
  <1>2. IInv /\ [Next]_vars => IInv'
    <2> SUFFICES ASSUME IInv, [Next]_vars PROVE IInv' OBVIOUS
    <2>1. TypeOK' /\ ProbeIsConfigured' /\ ProbeIsOnTime' /\ OutcomeIsExplained'
      BY TypeStep, ConfiguredStep, OnTimeStep, OutcomeStep
    <2> QED BY <2>1 DEF IInv
  <1> QED BY <1>1, <1>2, PTL DEF Spec

-----------------------------------------------------------------------------
(* The properties.                                                         *)

(* The state of a probe keeps its types.                                   *)
THEOREM TypeCorrect == Spec => []TypeOK
  <1>1. IInv => TypeOK BY DEF IInv
  <1> QED BY <1>1, Inductive, PTL

(* No NebariApp is probed at a target it may not name                      *)
(* (buildHealthCheckConfig, HealthCheckTargetProtection).                  *)
THEOREM TargetsAreAllowed == Spec => []ProbedIsAllowed
  <1>1. ASSUME IInv, phase \in {"direct", "sending", "atRunner"} PROVE ProbedIsAllowed
    <2>1. Typed(app) /\ Configured(app)
      BY <1>1, CandidateType DEF IInv, ProbeIsConfigured
    <2>2. CASE app.static = FALSE BY <2>1, <2>2, RunnerAgrees DEF ProbedIsAllowed
    <2>3. CASE app.static = TRUE BY <2>3 DEF ProbedIsAllowed
    <2> QED BY <2>1, <2>2, <2>3 DEF Typed
  <1>2. IInv => ProbedIsAllowed
    BY <1>1 DEF ProbedIsAllowed
  <1> QED BY <1>2, Inductive, PTL

(* The runner refuses a configured check for its path only                 *)
(* (validateProbeRunnerTarget against buildHealthCheckConfig).             *)
THEOREM ValidationsAgree == Spec => []RefusedForItsPath
  <1>1. IInv => RefusedForItsPath
    <2> SUFFICES ASSUME IInv, cause \in {"body", "url", "target"}
                 PROVE  /\ cause # "target"
                        /\ app.check.path.kind = "badFragment" \/ app.check.path.extra > 0
      BY DEF RefusedForItsPath
    <2>1. phase = "done" /\ cause = Refusal(app) /\ app \in Candidates /\ Configured(app)
      BY DEF IInv, ProbeIsConfigured, OutcomeIsExplained, Through
    <2>2. Typed(app) BY <2>1, CandidateType DEF IInv, ProbeIsConfigured
    <2>3. ValidTarget(app) /\ (BodySize(app) > MaxBody => app.check.path.extra > 0)
      <3>1. app.static = FALSE
        BY <2>2 DEF IInv, OutcomeIsExplained, Through, ThroughRunner, Trusted, Typed
      <3> QED BY <2>1, <2>2, <3>1, RunnerAgrees
    <2> QED BY <2>1, <2>3 DEF Refusal, UrlParses
  <1> QED BY <1>1, Inductive, PTL

(* Through the runner only a measurement is "unhealthy"                    *)
(* (remoteProbeRequester.perform).                                         *)
THEOREM VerdictsAreMeasured == Spec => []OnlyMeasuredIsUnhealthy
  <1>1. IInv => OnlyMeasuredIsUnhealthy BY DEF IInv, OutcomeIsExplained
  <1> QED BY <1>1, Inductive, PTL

(* A target as slow as its timeout allows is measured, not given up on     *)
(* (the extra second of remoteProbeRequester.perform).                     *)
THEOREM SlowTargetsAreMeasured == Spec => []SlowTargetIsMeasured
  <1>1. IInv => SlowTargetIsMeasured BY DEF IInv, OutcomeIsExplained
  <1> QED BY <1>1, Inductive, PTL

(* No probe outlasts its interval by more than a second                    *)
(* (clampHealthCheckSeconds, buildHealthCheckConfig).                      *)
THEOREM ProbesEndInTime == Spec => []TimelyVerdict
  <1>1. IInv => TimelyVerdict
    <2> SUFFICES ASSUME IInv, phase = "done"
                 PROVE  elapsed <= (Interval(app) + Slack) * PerSecond
      BY DEF TimelyVerdict
    <2>1. Typed(app) BY CandidateType DEF IInv, ProbeIsConfigured
    <2>2. elapsed \in Nat /\ elapsed <= Deadline(app)
      BY DEF IInv, TypeOK, ProbeIsOnTime
    <2>3. /\ Deadline(app) = TargetLimit(app) + PerSecond /\ TargetLimit(app) \in Nat
          /\ Deadline(app) <= (Interval(app) + Slack) * PerSecond
      BY <2>1, Deadlines
    <2>4. (Interval(app) + Slack) * PerSecond \in Int
      BY <2>1, Limits DEF Typed, Interval, ClampHealthCheckSeconds, DefaultInterval, MinInterval,
                          MaxInterval, Slack
    <2> QED BY <2>2, <2>3, <2>4, Limits
  <1> QED BY <1>1, Inductive, PTL

(* A server that runs probes every static entry with a health check        *)
(* (staticservices.Parse, Service.App).                                    *)
THEOREM StaticChecksAreKept == Spec => []StaticChecksKept
  <1>1. IInv => StaticChecksKept
    <2> SUFFICES ASSUME Parses(statics), NEW i \in DOMAIN statics, statics[i].check # "none"
                 PROVE  Configured(StaticApp(statics[i]))
      BY DEF StaticChecksKept, IInv, ProbeIsConfigured
    <2>1. statics[i].check = "http" BY DEF Parses, ValidStatic
    <2> QED BY <2>1 DEF StaticApp, Configured, DropReason
  <1> QED BY <1>1, Inductive, PTL
=============================================================================
