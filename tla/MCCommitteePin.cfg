\* Two setups at once, two keys, any change of committee over three epochs.
CONSTANTS
    k1 = k1
    k2 = k2
    s1 = s1
    s2 = s2
    Keys = {k1, k2}
    NoKey = NoKey
    Committees = {{k1}, {k2}}
    Setups = {s1, s2}
    MaxLag = 1
    MaxEpoch = 3
SPECIFICATION PinSpec
SYMMETRY Symmetry
INVARIANTS HeldCommitteesAreFresh MembersAreNotRefused
PROPERTIES FormerMembersStayOut
