\* A request resolved a second time after its user asked again.
SPECIFICATION Spec
CONSTANTS
    Users = {alice}
    Services = {s1}
    StaticServices = {}
    Groups = {}
    RequiredGroups <- AllGroups
    IDs = {i1, i2, i3}
    NoID = NoID
    NoPair = NoPair
    Handlers = {h1}
    KeycloakEnabled = TRUE
    Failures = FALSE
INVARIANT OnePendingPerPair
