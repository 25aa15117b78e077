\* A pinned validator and one that is not, three calls.
CONSTANTS
    p1 = p1
    p2 = p2
    q = q
    c1 = c1
    c2 = c2
    c3 = c3
    c4 = c4
    Validators = {p1, q}
    NoValidator = NoValidator
    Pinned = {p1}
    Calls = {c1, c2, c3}
    MaxChannels = 4
SPECIFICATION FairSpec
INVARIANTS NoChannelLeaks CallsUseInstalled ClosedLeavesNoWait
PROPERTIES InstallsOnlyNewer ClosedOnlyForCause CallsEnd
