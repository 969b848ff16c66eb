\* An app deleted between the two lists of the start.
SPECIFICATION Spec
CONSTANTS
    Apps = {a}
    CrossNs = {}
    Specs = {v1}
    Off = Off
    Unborn = Unborn
    Gone = Gone
    None = None
    NoApp = NoApp
    MaxChanges = 1
    Failures = FALSE
INVARIANT RemovedLeavesCache
CHECK_DEADLOCK FALSE
