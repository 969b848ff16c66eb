\* Health checks around every boundary, with and without the runner.
SPECIFICATION Spec
CONSTANTS
    Objects <- MCObjects
    StaticLists <- MCStaticLists
    Labels = {"app", "svc", "master"}
    NamespaceLabels = {"ns", "other", "keycloak", "x-system"}
    ProtectedNamespaces = {"keycloak"}
    SystemNamespaces = {"x-system"}
    ProtectedServices <- MCServices
    ProtectedPorts = {6379}
    PerSecond = 2
    Hops = {0, 1, 2, 4}
CHECK_DEADLOCK FALSE
INVARIANTS
    RefusedForItsPath
    SlowTargetIsMeasured
    TimelyVerdict
