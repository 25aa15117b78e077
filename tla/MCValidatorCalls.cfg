\* A submission across an epoch close and a read of the keys, over two validators.
CONSTANTS
    c1 = c1
    c2 = c2
    Calls = {c1, c2}
    CallKinds <- SignerAndReader
    ValidatorCount = 2
    RefusalMaxAge = 1
    EpochWait = 2
    PollInterval = 1
    Budget = 2
    Pause = 1
    MaxEpoch = 2
SPECIFICATION FairSpec
INVARIANTS EveryRefusedIsRecent RunsAgainOnlyAfterLoss
PROPERTIES SignedEpochsClimb RefusedAreNotAsked CallsEnd
