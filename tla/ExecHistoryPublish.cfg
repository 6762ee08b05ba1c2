SPECIFICATION Spec
CONSTANTS
    Spans = {"publish", "projects", "pass", "toot"}
    Parent <- MCPublishParent
    Kind <- MCPublishKind
    DefaultLimit = 1
    MaxLimit = 2
    Limits = {1, 2}
    MaxFaults = 0
INVARIANT EveryExecutionWhole
