\* Two users; two imports of one key, a re-encrypted share, a public share, and
\* attestations of an untrusted key; one endpoint of two lies.
CONSTANTS
    A = A
    B = B
    old = old
    new = new
    stranger = stranger
    TrustedNetworkKeys = {old, new}
    Signed <- AllSigned
    Users = {A, B}
    Sent <- AllSent
    NetworkKeyOf <- AllOld
    ClassicShares <- MigratedShares
    CrossCheck = TRUE
    MaxAge = 0
SPECIFICATION Spec
INVARIANTS EncryptedMeansAccepted PublicIsNotHidden SignsOnlyForUsable CustodyStartsWithCreator
CHECK_DEADLOCK FALSE
