\* One service, two configurations, two probe loops: a superseded loop and
\* its successor.  The environment may keep changing for ever.
SPECIFICATION FairSpec
CONSTANTS
    UIDs = {u1}
    Configs = {c1, c2}
    NoConfig = NoConfig
    Direct = {c1}
    Answers <- OneFlapping
    Reasons = {}
    NoReason = NoReason
    NoService = NoService
    c1 = c1
    Loops = {l1, l2}
    NoProbe = NoProbe
INVARIANTS
    RegisteredLoopRuns
    LiveLoopIsRegistered
PROPERTIES
    VerdictsFollowTargets
    HealthConverges
    ProbesCease
    ShutdownDrains
