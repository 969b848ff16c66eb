------------------------------ MODULE ProbePath ------------------------------
(***************************************************************************)
(* From a health check's settings to a verdict: the projection of a        *)
(* NebariApp (internal/watcher) or of a static entry                       *)
(* (internal/staticservices) to an App, the probe configuration the cache  *)
(* builds from it (internal/cache buildHealthCheckConfig), and one probe,  *)
(* direct or through the probe runner (internal/health).                   *)
(*                                                                         *)
(* Names, namespaces and paths are abstract; ports, seconds and sizes are  *)
(* numbers.  A probe's time is counted in ticks, PerSecond to the second.  *)
(***************************************************************************)
EXTENDS Integers, Sequences

CONSTANTS
    Objects,             \* NebariApps with a landing page
    StaticLists,         \* possible values of STATIC_SERVICES
    Labels,              \* names that are valid DNS-1035 labels
    NamespaceLabels,     \* namespaces that are valid DNS-1123 labels
    ProtectedNamespaces,
    SystemNamespaces,    \* those that end in "-system"
    ProtectedServices,   \* pairs of namespace and name
    ProtectedPorts,
    PerSecond,
    Hops                 \* how long a hop to or from the runner may take, in ticks

ASSUME ProbeAssumption ==
    /\ PerSecond \in Nat \ {0} /\ Hops \subseteq Nat
    /\ ProtectedPorts \subseteq Nat

(* Times and ports are integers, sizes are natural numbers.                *)
ASSUME SettingsAssumption ==
    /\ \A u \in Objects :
          /\ {u.interval, u.timeout, u.port, u.servicePort} \subseteq Int
          /\ u.path.bytes \in Nat /\ u.path.extra \in Nat
          /\ u.path.kind = "empty" => u.path.bytes = 0
    /\ \A list \in StaticLists : \A i \in DOMAIN list :
          list[i].interval \in Int /\ list[i].timeout \in Int

DefaultInterval == 30
MinInterval     == 10
MaxInterval     == 300
DefaultTimeout  == 5
MinTimeout      == 1
MaxTimeout      == 30
MaxPort         == 65535
MaxPathLength   == 2048
MaxBody         == 4096   \* maxProbeRunnerBodyBytes
Envelope        == 175    \* host, port and field names of a request, at most
Slack           == 1      \* seconds the webapi waits longer than the runner
ClientTimeout   == 35
WriteTimeout    == 40     \* of the runner's server

VARIABLES
    statics,   \* STATIC_SERVICES
    runner,    \* HEALTH_PROBE_RUNNER_URL: "none", "http", or "bad" for any other
    phase,
    app,       \* the App being probed, or none
    elapsed,   \* ticks since the probe began
    arrived,   \* when the runner got the request
    hops,      \* ticks spent between webapi and runner
    measured,  \* what the runner found, "none" before
    cause,     \* why there is no measurement, "none" if there is one or none yet
    result     \* the status of the probe, "none" before

config == <<statics, runner>>
vars == <<config, phase, app, elapsed, arrived, hops, measured, cause, result>>

-----------------------------------------------------------------------------
(* Projection.  "none" is an absent name.                                  *)

(* toApp's HealthCheck: the probe URL is never set.                        *)
HealthCheck(u) ==
    [url |-> "none", enabled |-> u.enabled, path |-> u.path, port |-> u.port,
     interval |-> u.interval, timeout |-> u.timeout]

(* toApp: the Service's namespace defaults to the app's; consent is what   *)
(* the watcher found in the ReferenceGrants.                               *)
ToApp(u) ==
    [static |-> FALSE, name |-> u.name, namespace |-> u.namespace,
     serviceName |-> u.serviceName, servicePort |-> u.servicePort,
     serviceNamespace |-> IF u.serviceNamespace = "none" THEN u.namespace ELSE u.serviceNamespace,
     consent |-> u.consent, check |-> HealthCheck(u)]

(* Service.validate: id, url and visibility; a public entry has no groups, *)
(* and a health check has an absolute http(s) URL.                         *)
ValidStatic(s) ==
    /\ s.idOK /\ s.urlOK
    /\ s.visibility \in {"none", "private", "public"}
    /\ s.visibility = "public" => s.groups = {}
    /\ s.check \in {"none", "http"}

(* Parse refuses the whole list for one bad or repeated entry.             *)
Parses(list) ==
    /\ \A i \in DOMAIN list : ValidStatic(list[i])
    /\ \A i, j \in DOMAIN list : list[i].id = list[j].id => i = j

(* Service.App.                                                            *)
StaticApp(s) ==
    [static |-> TRUE, name |-> s.id, namespace |-> "none", serviceName |-> "none",
     servicePort |-> 0, serviceNamespace |-> "none", consent |-> FALSE,
     check |-> [url |-> IF s.check = "http" THEN "http" ELSE "none", enabled |-> s.check # "none",
                path |-> [kind |-> "empty", bytes |-> 0, extra |-> 0], port |-> 0,
                interval |-> s.interval, timeout |-> s.timeout]]

-----------------------------------------------------------------------------
(* buildHealthCheckConfig.                                                 *)

ClampHealthCheckSeconds(value, default, min, max) ==
    IF value <= 0 THEN default
    ELSE IF value < min THEN min ELSE IF value > max THEN max ELSE value

Interval(a) == ClampHealthCheckSeconds(a.check.interval, DefaultInterval, MinInterval, MaxInterval)

(* Mutation of Timeout: not limited by the interval.                       *)
TimeoutAlone(a) == ClampHealthCheckSeconds(a.check.timeout, DefaultTimeout, MinTimeout, MaxTimeout)

Timeout(a) ==
    LET t == ClampHealthCheckSeconds(a.check.timeout, DefaultTimeout, MinTimeout, MaxTimeout)
    IN IF t > Interval(a) THEN Interval(a) ELSE t

(* normalizeHealthCheckPath: absolute, no "//", no control character, a    *)
(* request path that parses, not too long.  ParseRequestURI knows no       *)
(* fragment: it takes a malformed one after a query as part of the query.  *)
PathOK(p) ==
    \/ p.kind = "empty"
    \/ p.kind \in {"absolute", "badFragment"} /\ p.bytes <= MaxPathLength

ServiceName(a) == IF a.serviceName = "none" THEN a.name ELSE a.serviceName

Port(a) ==
    IF a.check.port > 0 THEN a.check.port ELSE IF a.servicePort = 0 THEN 80 ELSE a.servicePort

(* HealthCheckTargetProtection.                                            *)
Protected(namespace, name, port) ==
    \/ namespace \in ProtectedNamespaces \cup SystemNamespaces
    \/ <<namespace, name>> \in ProtectedServices
    \/ port \in ProtectedPorts

(* Mutation of DropReason: labels are left to the runner to check.         *)
DropReasonAnyName(a) ==
    IF a.static THEN (IF a.check.url = "none" THEN "noURL" ELSE "none")
    ELSE IF ~PathOK(a.check.path) THEN "path"
    ELSE IF Port(a) < 1 \/ Port(a) > MaxPort THEN "port"
    ELSE IF a.serviceNamespace # a.namespace /\ ~a.consent THEN "consent"
    ELSE IF Protected(a.serviceNamespace, ServiceName(a), Port(a)) THEN "protected"
    ELSE "none"

(* Why a requested check is dropped, "none" when it is not.                *)
DropReason(a) ==
    IF a.static THEN (IF a.check.url = "none" THEN "noURL" ELSE "none")
    ELSE IF a.check.url # "none" THEN "url"
    ELSE IF ~PathOK(a.check.path) THEN "path"
    ELSE IF ServiceName(a) \notin Labels THEN "name"
    ELSE IF Port(a) < 1 \/ Port(a) > MaxPort THEN "port"
    ELSE IF a.serviceNamespace \notin NamespaceLabels THEN "namespace"
    ELSE IF a.serviceNamespace # a.namespace /\ ~a.consent THEN "consent"
    ELSE IF Protected(a.serviceNamespace, ServiceName(a), Port(a)) THEN "protected"
    ELSE "none"

Configured(a) == a.check.enabled /\ DropReason(a) = "none"

(* The config is Trusted.                                                  *)
Trusted(a) == a.static

-----------------------------------------------------------------------------
(* Requests.                                                               *)

(* requesterFor.                                                           *)
ThroughRunner(a) == runner # "none" /\ ~Trusted(a)

(* The GET's own limit, in ticks, and that of the runner's server.         *)
TargetLimit(a) == Timeout(a) * PerSecond
ServerLimit == WriteTimeout * PerSecond

(* Mutation of Deadline: as long as the runner's own.                      *)
DeadlineWithoutSlack(a) == TargetLimit(a)

(* remoteProbeRequester: its context, and the client's own limit.          *)
Deadline(a) ==
    PerSecond * (IF Timeout(a) + Slack < ClientTimeout THEN Timeout(a) + Slack ELSE ClientTimeout)

(* The JSON body; extra are the bytes that escaping adds to the path, five *)
(* for each of <, > and &, one for each quote.                             *)
BodySize(a) == Envelope + a.check.path.bytes + a.check.path.extra

(* url.Parse, which does look at the fragment.                             *)
UrlParses(a) == a.check.path.kind # "badFragment"

(* validateProbeRunnerTarget, on http://name.namespace:port/path.          *)
ValidTarget(a) ==
    /\ ServiceName(a) \in Labels /\ a.serviceNamespace \in NamespaceLabels
    /\ ~Protected(a.serviceNamespace, ServiceName(a), Port(a))

(* handleProbeRunnerRequest: 400 for a body it cannot read, 403 for a URL  *)
(* or a target it does not accept, "none" when it goes on.                 *)
Refusal(a) ==
    IF BodySize(a) > MaxBody THEN "body"
    ELSE IF ~UrlParses(a) THEN "url"
    ELSE IF ~ValidTarget(a) THEN "target" ELSE "none"

(* The status of a probe the runner did not carry out.                     *)
Unavailable == "unknown"

-----------------------------------------------------------------------------
NoApp == StaticApp([id |-> "none", check |-> "none", interval |-> 0, timeout |-> 0])

Init ==
    /\ statics \in StaticLists /\ runner \in {"none", "http", "bad"}
    /\ phase = "boot" /\ app = NoApp
    /\ elapsed = 0 /\ arrived = 0 /\ hops = 0
    /\ measured = "none" /\ cause = "none" /\ result = "none"

(* main: an invalid list of static entries or runner URL ends the process. *)
Boot ==
    /\ phase = "boot"
    /\ phase' = IF Parses(statics) /\ runner # "bad" THEN "idle" ELSE "exited"
    /\ UNCHANGED <<config, app, elapsed, arrived, hops, measured, cause, result>>

(* ServiceCache.Add and the checker's next reconcile: an App that has a    *)
(* config is probed, others never.                                         *)
StartProbe(a) ==
    /\ phase = "idle" /\ Configured(a)
    /\ app' = a
    /\ phase' = IF ThroughRunner(a) THEN "sending" ELSE "direct"
    /\ UNCHANGED <<config, elapsed, arrived, hops, measured, cause, result>>

Finish(status, at) ==
    /\ phase' = "done" /\ result' = status /\ elapsed' = at
    /\ UNCHANGED <<config, app>>

(* performProbeRequest, with a client that gives up after the timeout: the *)
(* target answers in time with a code of 2xx or another, or does not.      *)
TargetTimes(a) == {0, TargetLimit(a) - 1}
Verdicts == {"healthy", "unhealthy"}

Direct ==
    /\ phase = "direct"
    /\ IF UrlParses(app)
       THEN \/ \E d \in TargetTimes(app), v \in Verdicts : Finish(v, d)
            \/ Finish("unhealthy", TargetLimit(app))
       ELSE Finish("unknown", 0)
    /\ UNCHANGED <<arrived, hops, measured, cause>>

(* The POST reaches the runner before its deadline.                        *)
Send ==
    /\ phase = "sending"
    /\ \E h \in Hops :
          /\ h < Deadline(app)
          /\ phase' = "atRunner" /\ elapsed' = h /\ arrived' = h /\ hops' = h
    /\ UNCHANGED <<config, app, measured, cause, result>>

(* The request or the answer is lost: the runner is down or goes down.     *)
Lost ==
    /\ phase \in {"sending", "atRunner"}
    /\ Finish(Unavailable, elapsed) /\ cause' = "unreachable"
    /\ UNCHANGED <<arrived, hops, measured>>

Refuse ==
    /\ phase = "atRunner" /\ measured = "none" /\ Refusal(app) # "none"
    /\ Finish(Unavailable, elapsed) /\ cause' = Refusal(app)
    /\ UNCHANGED <<arrived, hops, measured>>

(* The runner's GET, if the webapi still waits when it is over.            *)
Measure ==
    /\ phase = "atRunner" /\ measured = "none" /\ Refusal(app) = "none"
    /\ \/ \E d \in TargetTimes(app), v \in Verdicts :
             elapsed' = elapsed + d /\ measured' = v
       \/ elapsed' = elapsed + TargetLimit(app) /\ measured' = "unhealthy"
    /\ elapsed' < Deadline(app)
    /\ UNCHANGED <<config, phase, app, arrived, hops, cause, result>>

(* The webapi's deadline, on the way to the runner or during its GET,      *)
(* which ends with the request's context.                                  *)
GiveUp ==
    /\ \/ phase = "sending" /\ \E h \in Hops : h >= Deadline(app) /\ hops' = h
       \/ /\ phase = "atRunner" /\ measured = "none" /\ Refusal(app) = "none"
          /\ elapsed + TargetLimit(app) >= Deadline(app) /\ UNCHANGED hops
    /\ Finish(Unavailable, Deadline(app))
    /\ UNCHANGED <<arrived, measured, cause>>

(* Its answer reaches the webapi, unless the deadline there or the         *)
(* server's WriteTimeout has passed.                                       *)
Reply ==
    /\ phase = "atRunner" /\ measured # "none"
    /\ \E h \in Hops :
          /\ hops' = hops + h
          /\ IF elapsed + h < Deadline(app) /\ elapsed - arrived < ServerLimit
             THEN Finish(measured, elapsed + h)
             ELSE Finish(Unavailable, Deadline(app))
    /\ UNCHANGED <<arrived, measured, cause>>

(* The loop is stopped while its request is in flight.                     *)
Cancel ==
    /\ phase \in {"direct", "sending", "atRunner"}
    /\ Finish(IF phase = "direct" THEN "unhealthy" ELSE Unavailable, elapsed)
    /\ cause' = "cancelled"
    /\ UNCHANGED <<arrived, hops, measured>>

(* The result is stored; the next probe.                                   *)
Again ==
    /\ phase = "done" /\ phase' = "idle" /\ app' = NoApp
    /\ elapsed' = 0 /\ arrived' = 0 /\ hops' = 0
    /\ measured' = "none" /\ cause' = "none" /\ result' = "none"
    /\ UNCHANGED config

(* The Apps the cache may hold.                                            *)
Candidates ==
    {ToApp(u) : u \in Objects} \cup {StaticApp(statics[i]) : i \in DOMAIN statics}

Probe == Direct \/ Send \/ Lost \/ Refuse \/ Measure \/ GiveUp \/ Reply

Next ==
    \/ Boot
    \/ phase = "idle" /\ \E a \in Candidates : StartProbe(a)
    \/ Probe \/ Cancel \/ Again

Spec == Init /\ [][Next]_vars

-----------------------------------------------------------------------------
(* Properties.                                                             *)
Through == phase = "done" /\ ThroughRunner(app)

TypeOK ==
    /\ phase \in {"boot", "exited", "idle", "direct", "sending", "atRunner", "done"}
    /\ elapsed \in Nat /\ arrived \in Nat /\ hops \in Nat
    /\ measured \in {"none", "healthy", "unhealthy"}
    /\ cause \in {"none", "unreachable", "cancelled", "body", "url", "target"}
    /\ result \in {"none", "healthy", "unhealthy", "unknown"}

(* The runner never turns down the service, namespace or port of a check   *)
(* that buildHealthCheckConfig accepted: if it refuses, the path is why.   *)
RefusedForItsPath ==
    cause \in {"body", "url", "target"} =>
        cause # "target" /\ (app.check.path.kind = "badFragment" \/ app.check.path.extra > 0)

(* Whatever a NebariApp is probed at is its own namespace's or one that    *)
(* consents, is not protected and has a TCP port, direct or not.           *)
ProbedIsAllowed ==
    phase \in {"direct", "sending", "atRunner"} /\ ~app.static =>
        /\ app.serviceNamespace = app.namespace \/ app.consent
        /\ Port(app) \in 1 .. MaxPort
        /\ ~Protected(app.serviceNamespace, ServiceName(app), Port(app))

(* As checker.go:448 says: through the runner, only what it measured can   *)
(* be "unhealthy".                                                         *)
OnlyMeasuredIsUnhealthy ==
    Through /\ result = "unhealthy" => measured = "unhealthy" /\ cause = "none"

(* However slow the target, its verdict counts, if the hops to the runner  *)
(* and back take less than the extra second: the deadlines nest.           *)
SlowTargetIsMeasured ==
    Through /\ cause = "none" /\ hops < Slack * PerSecond => result = measured

(* A probe is over at most a second after the next one is due.             *)
TimelyVerdict == phase = "done" => elapsed <= (Interval(app) + Slack) * PerSecond

(* An operator's static check is never silently dropped: if the server     *)
(* runs, every entry with a health check is probed.                        *)
StaticChecksKept ==
    phase \notin {"boot", "exited"} =>
        \A i \in DOMAIN statics : statics[i].check # "none" => Configured(StaticApp(statics[i]))

-----------------------------------------------------------------------------
(* The inductive invariant behind them.                                    *)

(* What is probed has a config, and is sent to the runner only if there is *)
(* one and the target is not trusted.                                      *)
ProbeIsConfigured ==
    /\ statics \in StaticLists
    /\ phase \notin {"boot", "exited"} => Parses(statics)
    /\ phase \in {"direct", "sending", "atRunner", "done"} => app \in Candidates /\ Configured(app)
    /\ phase \in {"sending", "atRunner"} => ThroughRunner(app)
    /\ phase = "direct" => ~ThroughRunner(app)

(* How long a request is under way, and how it stands.                     *)
ProbeIsOnTime ==
    /\ phase \notin {"atRunner", "done"} =>
          elapsed = 0 /\ arrived = 0 /\ hops = 0 /\ measured = "none"
    /\ phase # "done" => cause = "none" /\ result = "none"
    /\ phase = "atRunner" =>
          /\ hops = arrived /\ arrived <= elapsed /\ elapsed < Deadline(app)
          /\ elapsed <= arrived + TargetLimit(app)
          /\ measured = "none" => elapsed = arrived
    /\ phase = "done" => elapsed <= Deadline(app)

(* What a finished request came to.                                        *)
OutcomeIsExplained ==
    /\ cause \in {"body", "url", "target"} => Through /\ cause = Refusal(app)
    /\ OnlyMeasuredIsUnhealthy /\ SlowTargetIsMeasured

IInv == TypeOK /\ ProbeIsConfigured /\ ProbeIsOnTime /\ OutcomeIsExplained
=============================================================================
