\* One service, one click on its pin, two changes and one failure.
SPECIFICATION FairSpec
CONSTANTS
    alice = alice
    team = team
    sick = sick
    other = other
    Callers = {me}
    Me = me
    Header <- MCHeader
    Username <- MCUser
    Subject <- MCUser
    ClaimGroups <- MCGroups
    Users = {alice, nobody}
    AnonymousUser = nobody
    NoUser = NoUser
    AuthEnabled = TRUE
    AdminGroup <- Admins
    Services = {web}
    Contents = {team, sick, other}
    Gone = Gone
    Visibility <- MCVisibility
    Required <- MCRequired
    MaxClicks = 1
    MaxChanges = 2
    MaxFaults = 1
    Handler = handler
    Resync = resync
    Loops = {loop}
    Silent = Silent
CHECK_DEADLOCK FALSE
INVARIANTS
    CardsAreEntitled
    CardsAreCurrent
    PinFlagIsStored
    PinsRevealNothing
PROPERTIES
    PageCatchesUp
