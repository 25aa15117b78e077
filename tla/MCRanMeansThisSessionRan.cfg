\* Two step-1 calls under one future voucher: whose session ran.
CONSTANTS
    s1 = s1
    s2 = s2
    s3 = s3
    Sessions = {s1, s2, s3}
    NoSession = NoSession
    Targets = {t1}
    NoTarget = NoTarget
    MaxEpoch = 2
    c1 = c1
    c2 = c2
    Calls = {c1, c2}
    NoCall = NoCall
    AppKinds = {"futureSignStepOne"}
    Rebuilds = 1
    OwnAttempts = 2
    HasRecords = TRUE
SPECIFICATION Spec
INVARIANT RanMeansThisSessionRan
CHECK_DEADLOCK FALSE
