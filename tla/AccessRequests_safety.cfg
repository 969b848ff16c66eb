\* One user, one service, two requests, two handlers, any of which may fail.
SPECIFICATION Spec
CONSTANTS
    Users = {alice}
    Services = {s1}
    StaticServices = {}
    Groups = {g1}
    RequiredGroups <- AllGroups
    IDs = {i1, i2}
    NoID = NoID
    NoPair = NoPair
    Handlers = {h1, h2}
    KeycloakEnabled = TRUE
    Failures = TRUE
INVARIANTS
    PendingHoldsKey
    AcceptedStaysVisible
PROPERTIES
    RequestsAreBooked
SYMMETRY Symmetry
