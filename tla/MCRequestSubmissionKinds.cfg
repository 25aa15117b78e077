\* One call of every kind, rebuilt twice: up to three sessions, four epochs.
CONSTANTS
    s1 = s1
    s2 = s2
    s3 = s3
    Sessions = {s1, s2, s3}
    NoSession = NoSession
    Targets = {t1}
    NoTarget = NoTarget
    MaxEpoch = 4
    c1 = c1
    c2 = c2
    Calls = {c1}
    NoCall = NoCall
    AppKinds = {"presign", "sign", "futureSignStepOne", "futureSignCompletion", "makeSharePublic", "reEncryptShare", "dkg", "importedKey"}
    Rebuilds = 2
    OwnAttempts = 3
    HasRecords = TRUE
SPECIFICATION FairSpec
INVARIANTS AtMostOneRun NeverRanIsFinal
PROPERTIES KeepsThePromise RebuildNamesLaterEpoch CallsEnd
CHECK_DEADLOCK FALSE
