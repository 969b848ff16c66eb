\* An app of its own namespace and a cross-namespace one, in any state at the start;
\* two changes of the cluster after it.
SPECIFICATION FairSpec
CONSTANTS
    Apps = {a, x}
    CrossNs = {x}
    Specs = {v1, v2}
    Off = Off
    Unborn = Unborn
    Gone = Gone
    None = None
    NoApp = NoApp
    MaxChanges = 2
    Failures = TRUE
INVARIANTS
    CatalogFollowsCluster
    NoticesFollowCatalog
    ConsentIsGranted
PROPERTY DeletedLeaves
CHECK_DEADLOCK FALSE
