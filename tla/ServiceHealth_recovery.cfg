\* Two loops of one service whose probes overlap.
SPECIFICATION FairSpec
CONSTANTS
    UIDs = {u1}
    Configs = {c1, c2}
    NoConfig = NoConfig
    Direct = {}
    Answers <- TwoAnswers
    Reasons = {}
    NoReason = NoReason
    NoService = NoService
    c1 = c1
    Loops = {l1, l2}
    NoProbe = NoProbe
PROPERTY RecoveryNotified
