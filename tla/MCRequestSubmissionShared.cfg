\* Two calls at once that write the same voucher, sharing the chain epoch.
CONSTANTS
    s1 = s1
    s2 = s2
    s3 = s3
    Sessions = {s1, s2, s3}
    NoSession = NoSession
    Targets = {t1}
    NoTarget = NoTarget
    MaxEpoch = 2
    c1 = c1
    c2 = c2
    Calls = {c1, c2}
    NoCall = NoCall
    AppKinds = {"sign", "futureSignStepOne", "futureSignCompletion", "makeSharePublic"}
    Rebuilds = 1
    OwnAttempts = 2
    HasRecords = TRUE
SPECIFICATION Spec
SYMMETRY Symmetry
INVARIANTS OutcomesAreReal
CHECK_DEADLOCK FALSE
