\* A sign with a presign: what PresignExpiredWithTheEpoch says was sent.
CONSTANTS
    s1 = s1
    s2 = s2
    s3 = s3
    Sessions = {s1, s2, s3}
    NoSession = NoSession
    Targets = {t1}
    NoTarget = NoTarget
    MaxEpoch = 2
    c1 = c1
    c2 = c2
    Calls = {c1}
    NoCall = NoCall
    AppKinds = {"sign"}
    Rebuilds = 2
    OwnAttempts = 3
    HasRecords = TRUE
SPECIFICATION Spec
INVARIANT ExpiredMeansUnsent
CHECK_DEADLOCK FALSE
