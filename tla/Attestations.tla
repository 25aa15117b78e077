---------------------------- MODULE Attestations ----------------------------
(***************************************************************************)
(* The checks of the network's signed attestations (attestation-record.ts, *)
(* deployed-networks.ts, the Solana record-checks.ts).                     *)
(*                                                                         *)
(* A digest or hash stands for the bytes it is taken of, and a key for a   *)
(* curve and a public key on it. A signature cannot be forged: one that    *)
(* verifies was made, so those that verify are the members of Signed, each *)
(* with the kind it was signed as and the network key that made it. What   *)
(* the network signed may be wrong: Signed holds any attestations.         *)
(***************************************************************************)
EXTENDS Naturals

CONSTANTS
    TrustedNetworkKeys,  \* the keys the caller trusts
    Signed               \* the attestations signed with some key, trusted or not

\* KNOWN_ATTESTATION_VERSIONS
KnownVersion == 0

\* No holder, session, signature or key.
None == "none"
NoSignature == [kind |-> None]

\* A stored or answered attestation with the network's own signature.
RecordOf(attestation) ==
    [data |-> attestation.data, version |-> KnownVersion,
     signer |-> attestation.signer, signature |-> attestation]

\* attestationSigningMessage under a key: the kind's tag is part of what is signed,
\* so one kind's signature is not another's.
SignatureOver(kind, data, signer) == [kind |-> kind, data |-> data, signer |-> signer]

\* decodeExactly: bytes decode as the kind they were made as, and only as it.
DecodesAs(data, kind) == data.kind = kind

\* requirePublicShareLength: a public share has the length of its curve's.
PublicShareFits(data) == data.fits

\* verifyAndDecode
VerifyAndDecode(record, kind) ==
    /\ record.version = KnownVersion
    /\ record.signer \in TrustedNetworkKeys
    /\ record.signature = SignatureOver(kind, record.data, record.signer)
    /\ record.signature \in Signed
    /\ DecodesAs(record.data, kind)
    /\ kind = "public_share" => PublicShareFits(record.data)

\* askedOf: the dWallet an attestation names, which is also what its record's
\* address is derived from.
AskedOf(dwallet) ==
    [key |-> dwallet.key,
     session |-> IF dwallet.imported THEN dwallet.session ELSE None]

\* verifyDWalletAttestationRecord
VerifyDWallet(record, asked) ==
    /\ VerifyAndDecode(record, "dwallet")
    /\ record.data.key = asked.key
    /\ record.data.imported = (asked.session # None)
    /\ asked.session # None => record.data.session = asked.session

\* isShareOfTheCreatingRequest
IsShareOfTheCreatingRequest(share, dwallet) == share.session = dwallet.session

\* Mutant: a share is matched by its sender and public key alone.
SameSenderAndKey(share, dwallet) ==
    /\ share.sender = dwallet.sender
    /\ share.key = dwallet.key

\* requireSameDWallet: two imports of one key differ only in the digest.
RequireSameDWallet(share, dwallet) ==
    /\ share.sender = dwallet.sender
    /\ share.key = dwallet.key
    /\ share.digest = dwallet

\* verifyEncryptedShareAttestationRecord
VerifyEncryptedShare(record, dwallet, holder) ==
    /\ VerifyAndDecode(record, "encrypted_share")
    /\ RequireSameDWallet(record.data, dwallet)
    /\ record.data.holder = holder
    /\ IsShareOfTheCreatingRequest(record.data, dwallet) =>
          /\ record.data.share = dwallet.share
          /\ record.data.encryptionKey = dwallet.encryptionKey
          /\ record.data.holder = dwallet.holder

\* verifyPublicShareAttestationRecord
VerifyPublicShare(record, dwallet) ==
    /\ VerifyAndDecode(record, "public_share")
    /\ RequireSameDWallet(record.data, dwallet)
    /\ IsShareOfTheCreatingRequest(record.data, dwallet) => dwallet.holder = None

\* verifyStoredDWallet: what the dWallet account stores beside its attestation.
VerifyStoredDWallet(account, dwallet) ==
    /\ account.key = dwallet.key
    /\ account.imported = dwallet.imported
    /\ account.session = AskedOf(dwallet).session

\* verifyRegisteredEncryptionKey, verifyStoredEncryptedShare
VerifyRegisteredEncryptionKey(share, registered) == share.encryptionKey = registered
VerifyStoredEncryptedShare(share, stored) == share.share = stored

\* The digest a holder signs to accept a share: the dWallet attestation's for a
\* first share (dwalletAttestationDigest), the share attestation's for another
\* (shareAttestationDigest).
AcceptedDigest(share, dwallet) ==
    IF IsShareOfTheCreatingRequest(share, dwallet) THEN dwallet ELSE share

\* Whether the given signature stands in for the one the account lacks.
AcceptanceGiven(account, given) == ~account.accepted /\ given # NoSignature

\* verifySolanaEncryptedShareRecord. A signature names its key and its digest,
\* and verifies when `made` holds it.
VerifySolanaShare(account, record, registered, dwallet, address, holder, given, made) ==
    /\ account.dwallet = address
    /\ VerifyEncryptedShare(record, dwallet, holder)
    /\ account.owner = record.data.holder
    /\ account.reEncrypted = ~IsShareOfTheCreatingRequest(record.data, dwallet)
    /\ VerifyStoredEncryptedShare(record.data, account.share)
    /\ VerifyRegisteredEncryptionKey(record.data, registered)
    /\ account.accepted \/ AcceptanceGiven(account, given)
    /\ account.digest = AcceptedDigest(record.data, dwallet)
    /\ LET signature == IF AcceptanceGiven(account, given) THEN given ELSE account.signature
       IN /\ signature \in made
          /\ signature = [by |-> holder, digest |-> AcceptedDigest(record.data, dwallet)]

\* verifyAttestationNetworkKey, with the trusted keys; the keys the SDK lists
\* for a deployed network are the trusted ones.
VerifyNetworkKey(networkKey, expected) ==
    /\ networkKey \in TrustedNetworkKeys
    /\ networkKey = expected

=============================================================================
