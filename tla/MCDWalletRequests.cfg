\* Two calls at once, each of any plan.
CONSTANTS
    s1 = s1
    s2 = s2
    TrustedNetworkKeys = {"net"}
    Signed <- AllSigned
    Slots = {s1, s2}
    Plans <- AllPlans
    SessionsOf <- Sessions3
    Requester = "request"
    Holder = "me"
    Sender = "owner"
    Owned <- OwnedAtStart
    Latest = "net"
    ApprovalOf <- Approvals
    AlgorithmOf <- Algorithms
    Ecdsa = {"sha"}
SPECIFICATION FairSpec
INVARIANTS NoAnswerServesTwoCalls SignaturesAreAsked CreatedAreOnChain
PROPERTIES CallsEnd
CHECK_DEADLOCK FALSE
