\* Two dWallets, three users: every member set, threshold and order of votes.
CONSTANTS
    d1 = d1
    d2 = d2
    u1 = u1
    u2 = u2
    u3 = u3
    DWallets = {d1, d2}
    Users = {u1, u2, u3}
    Authority = Authority
    NoDWallet = NoDWallet
    MaxMembers = 3
    MaxTx = 1
SPECIFICATION Spec
SYMMETRY Symmetry
INVARIANTS RejectedExactlyWhenHopeless VoucherNeedsQuorum ApprovedExactlyWithVoucher
PROPERTIES ImplementsQuorumDecision
CHECK_DEADLOCK FALSE
