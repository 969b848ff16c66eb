\* Two tokens of which one opens the service, one ticket raced for by two
\* connections.
SPECIFICATION FairSpec
CONSTANTS
    t1 = t1
    Tokens = {t1, t2}
    Tickets = {k1}
    Conns = {c1, c2}
    Services = {s1}
    Visible <- OneEntitled
    NoToken = NoToken
    Life = 2
    Leeway = 1
    TicketTTL = 1
    MaxTime = 4
INVARIANTS
    ClientsAreConnections
PROPERTIES
    SessionsAreAdmitted
    SessionEnds
    ClosedIsDropped
