----------------------------- MODULE MCProbePath -----------------------------
(* TLC instance of ProbePath: families of health checks around each        *)
(* boundary, each varying the settings that are compared with each other.  *)
EXTENDS ProbePath

Path(kind, bytes, extra) == [kind |-> kind, bytes |-> bytes, extra |-> extra]

Plain ==
    [name |-> "app", namespace |-> "ns", serviceName |-> "svc", servicePort |-> 8080,
     serviceNamespace |-> "none", consent |-> FALSE, enabled |-> TRUE,
     path |-> Path("absolute", 7, 0), port |-> 0, interval |-> 0, timeout |-> 0]

Targets ==
    {[Plain EXCEPT !.serviceName = sn, !.serviceNamespace = ns, !.consent = ok,
                   !.servicePort = sp, !.port = p] :
        sn \in {"none", "svc", "9bad", "master"},
        ns \in {"none", "other", "Bad", "keycloak", "x-system"},
        ok \in BOOLEAN, sp \in {0, 80, 6379, 65536}, p \in {-1, 0, 1, 6379, 65535, 65536}}

Times ==
    {[Plain EXCEPT !.interval = i, !.timeout = t] :
        i \in {-1, 0, 9, 10, 29, 301}, t \in {0, 1, 10, 11, 29, 30, 31}}

Paths ==
    {[Plain EXCEPT !.path = p] :
        p \in {Path("empty", 0, 0), Path("relative", 3, 0), Path("badFragment", 9, 0),
               Path("absolute", 2048, 0), Path("absolute", 2049, 0),
               Path("absolute", 2048, 1873), Path("absolute", 2048, 1874)}}

MCObjects == Targets \cup Times \cup Paths \cup {[Plain EXCEPT !.enabled = FALSE]}

Entry(id, check, visibility, groups) ==
    [id |-> id, idOK |-> TRUE, urlOK |-> TRUE, visibility |-> visibility, groups |-> groups,
     check |-> check, interval |-> 10, timeout |-> 30]

MCStaticLists ==
    {<<>>,
     <<Entry("a", "http", "none", {"team"}), Entry("b", "none", "public", {})>>,
     <<Entry("a", "http", "none", {}), Entry("a", "none", "none", {})>>,
     <<Entry("a", "empty", "private", {})>>,
     <<Entry("a", "none", "public", {"team"})>>,
     <<Entry("a", "none", "Private", {})>>,
     <<[Entry("a", "none", "none", {}) EXCEPT !.idOK = FALSE]>>}

MCServices == {<<"ns", "master">>}
=============================================================================
