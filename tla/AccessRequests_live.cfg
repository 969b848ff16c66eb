\* One user, a listed and a static service, two requests and two handlers, no failures.
SPECIFICATION FairSpec
CONSTANTS
    Users = {alice}
    Services = {s1, s2}
    StaticServices = {s2}
    Groups = {g1, g2}
    RequiredGroups <- AllGroups
    IDs = {i1, i2}
    NoID = NoID
    NoPair = NoPair
    Handlers = {h1, h2}
    KeycloakEnabled = TRUE
    Failures = FALSE
INVARIANT RefusalMeansPending
PROPERTIES
    ResolvedFreesKey
    ApprovalGrants
