SPECIFICATION Spec
CONSTANTS
    k1 = k1
    k2 = k2
    NoKid = NoKid
    Kids = {k1, k2}
    KeySets <- Rotating
    Requests = {r1, r2}
    MaxAttempts = 2
    FetchTimeout = 0
    Cooldown = 1
    StaleAfter = 2
    NegTTL = 2
    MaxEntries = 1
INVARIANTS NegativesDescribeKeys
PROPERTIES RefreshesAreSpaced ValidationEnds BecomesReady StopReturns RotatedKeyIsLearned RevokedKeyIsForgotten
