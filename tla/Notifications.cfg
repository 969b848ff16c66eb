\* A private service's notification and an announcement; a member who is an
\* admin and a user who may not see the service.
SPECIFICATION Spec
CONSTANTS
    ann = ann
    private = private
    alice = alice
    sid = sid
    bob = bob
    Callers = {ann, eve}
    Header <- MCHeader
    Username <- MCUser
    Subject <- MCSub
    ClaimGroups <- MCGroups
    Users = {alice, bob, sid, nobody}
    AnonymousUser = nobody
    NoUser = NoUser
    AuthEnabled = TRUE
    AdminGroup <- Admins
    Notices = {private, hello}
    Tagged = {private}
    Visibility <- MCVisibility
    Required <- MCRequired
    Retention = 1
    MaxRetries = 1
    Failures = TRUE
INVARIANTS
    DeliveryIsEntitled
    ListIsComplete
    ReadMarkIsShown
PROPERTIES
    BoardSpec
