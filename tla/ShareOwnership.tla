--------------------------- MODULE ShareOwnership ---------------------------
(***************************************************************************)
(* Who holds a dWallet's share (share-ownership.ts,                        *)
(* dwallet-share-acceptance.ts, usable-state.ts, requests.ts, and Solana's *)
(* usability.ts): a holder accepts a share only after checking it, the     *)
(* ownership check reads the chain through endpoints that may lag and of   *)
(* which one may lie, and the request builders reuse its result for a      *)
(* while.                                                                  *)
(*                                                                         *)
(* The records of a session are committed together and never change; only  *)
(* a share's acceptance is written later. An endpoint that lies serves any *)
(* records, but no signature that was not made; the other one may serve    *)
(* what the chain showed earlier.                                          *)
(***************************************************************************)
EXTENDS Attestations

CONSTANTS
    Users,          \* holders, each named by its signer key
    Sent,           \* the creating requests each user sent
    NetworkKeyOf,   \* the network key each session's dWallet is made under
    ClassicShares,  \* <<dWallet, user>>: shares the classic contracts show
    CrossCheck,     \* FALSE: 'not-cross-checked'
    MaxAge          \* DWALLET_USABLE_MAX_AGE_MS, in ticks

ASSUME OwnershipAssumption == MaxAge \in Nat /\ CrossCheck \in BOOLEAN

VARIABLES
    chain,       \* the sessions whose records are committed
    accepted,    \* the shares whose holder's acceptance is stored
    signatures,  \* the acceptance signatures made
    liar,        \* the endpoint that may lie
    task,        \* the call that runs
    result,      \* what the last check issued, with its age
    request      \* the last request built, and whether it is signed

vars == <<chain, accepted, signatures, liar, task, result, request>>

Endpoints == {"first", "second"}
OfKind(kind) == {attestation \in Signed : attestation.kind = kind}
DWallets == {attestation.data : attestation \in OfKind("dwallet")}
Sessions == {attestation.data.session : attestation \in Signed}
Attested == {attestation \in Signed : attestation.signer \in TrustedNetworkKeys}
Committed(kind) ==
    {attestation \in Attested : attestation.kind = kind /\ attestation.data.session \in chain}

Idle == [op |-> "none"]
NoResult == [share |-> None]
NoRequest == [kind |-> None]
Absent == [version |-> None]
Unread == [version |-> "unread"]
NoAnswers == [endpoint \in Endpoints |-> Unread]

\* The endpoints that a cross-checked read asks.
Asked == IF CrossCheck THEN Endpoints ELSE {"first"}

\* A user has one class-groups key, and registers it; a ciphertext names the
\* output it is a share of and the key it is encrypted to.
EncryptionKeyOf(user) == user
Decrypts(share, dwallet, user) ==
    share = [output |-> dwallet.output, to |-> EncryptionKeyOf(user)]

\* A trusted key signs an attestation as the kind it is, and the classic contracts
\* show shares of the dWallets that were migrated from them.
ASSUME NetworkAssumption ==
    /\ \A attestation \in Attested : attestation.data.kind = attestation.kind
    /\ ClassicShares \subseteq {dwallet \in DWallets : dwallet.migration} \X Users

\* What a call, its result and a request hold.
Signatures == [by : Users, digest : {attestation.data : attestation \in Signed}]
Checks ==
    [op : {"assert", "read", "sign"}, pc : {"lookup", "dwallet", "public", "share", "classic"},
     user : Users, dwallet : DWallets, asked : {AskedOf(dwallet) : dwallet \in DWallets},
     given : {NoSignature} \cup Signatures, networkKey : {None} \cup TrustedNetworkKeys,
     answers : [Endpoints -> {Unread, Absent} \cup {RecordOf(a) : a \in OfKind("public_share")}],
     wasPublic : BOOLEAN, lagged : BOOLEAN]
Acceptances ==
    [op : {"accept"}, pc : {"dwallet", "sender", "decrypt"},
     user : Users, dwallet : DWallets, asked : {AskedOf(dwallet) : dwallet \in DWallets},
     given : {NoSignature} \cup Signatures, networkKey : {None} \cup TrustedNetworkKeys,
     wasPublic : BOOLEAN, sender : Users]
Results ==
    [dwallet : DWallets, holder : Users, share : {"public", "encrypted"}, migrated : BOOLEAN,
     waiting : BOOLEAN, networkKey : {None} \cup TrustedNetworkKeys, age : 0 .. MaxAge + 1,
     wasPublic : BOOLEAN, lagged : BOOLEAN]
Requests ==
    [kind : {"sign", "make_public", "re_encrypt", "future_sign"}, dwallet : DWallets,
     user : Users, waiting : BOOLEAN, signed : BOOLEAN]

\* Every acceptance is of a signed attestation, and every share accepted on the
\* chain is committed.
TypeOK ==
    /\ chain \subseteq Sessions
    /\ accepted \subseteq {attestation.data : attestation \in Committed("encrypted_share")}
    /\ signatures \subseteq Signatures
    /\ liar \in Endpoints
    /\ task \in {Idle} \cup Checks \cup Acceptances
    /\ result \in {NoResult} \cup Results
    /\ request \in {NoRequest} \cup Requests

Init ==
    /\ chain = {}
    /\ accepted = {}
    /\ signatures = {}
    /\ liar \in Endpoints
    /\ task = Idle
    /\ result = NoResult
    /\ request = NoRequest

-----------------------------------------------------------------------------
(* The chain.                                                              *)

\* What the network signed in a session.
OutputsOf ==
    [session \in Sessions |-> {attestation \in Attested : attestation.data.session = session}]

\* The network's outputs of a session are committed. A later session's share is
\* of a committed dWallet, and an address is written once.
Commit(session) ==
    LET outputs == OutputsOf[session]
        shares == {a.data : a \in {a \in outputs : a.kind # "dwallet"}}
        created == {a.data : a \in {a \in outputs : a.kind = "dwallet"}}
        before == {a.data : a \in Committed("dwallet")}
    IN /\ session \notin chain
       /\ outputs # {}
       /\ \A share \in shares : share.digest \in created \cup before
       /\ \A dwallet \in created, other \in before : AskedOf(dwallet) # AskedOf(other)
       /\ \A a \in Committed("public_share"), share \in shares :
             share.kind = "public_share" => share.digest # a.data.digest
       /\ \A a \in Committed("encrypted_share"), share \in shares :
             share.kind = "encrypted_share" =>
                 <<share.digest, share.holder>> # <<a.data.digest, a.data.holder>>
       /\ chain' = chain \cup {session}
       /\ UNCHANGED <<accepted, signatures, liar, task, result, request>>

\* The holder's signature is stored: the chain checks it over the digest the
\* share record names. Anyone may send it.
Accept(share) ==
    /\ share \notin accepted
    /\ [by |-> share.holder, digest |-> AcceptedDigest(share, share.digest)] \in signatures
    /\ accepted' = accepted \cup {share}
    /\ UNCHANGED <<chain, signatures, liar, task, result, request>>

\* The owner of a migrated dWallet accepts the share it attached, with a client
\* that has the classic contracts.
AcceptAttached(share) ==
    /\ <<share.digest, share.holder>> \in ClassicShares
    /\ signatures' = signatures \cup {[by |-> share.holder, digest |-> share]}
    /\ UNCHANGED <<chain, accepted, liar, task, result, request>>

-----------------------------------------------------------------------------
(* What an endpoint answers (dwalletShareReader).                          *)

DWalletAccount(dwallet, networkKey) ==
    [key |-> dwallet.key, imported |-> dwallet.imported,
     session |-> AskedOf(dwallet).session, networkKey |-> networkKey]

\* readDWalletAttestation and readDWalletAccount.
DWalletAnswers(asked) ==
    IF liar = "first"
    THEN {[record |-> RecordOf(a), account |-> DWalletAccount(dwallet, networkKey)] :
              a \in Signed, dwallet \in DWallets,
              networkKey \in {b.signer : b \in Signed}}
    ELSE {[record |-> RecordOf(a),
           account |-> DWalletAccount(a.data, NetworkKeyOf[a.data.session])] :
              a \in {a \in Committed("dwallet") : AskedOf(a.data) = asked}}

\* history: whether the dWallet's share is public on the chain.
IsPublic(asked) ==
    \E a \in Committed("public_share") : AskedOf(a.data.digest) = asked

\* readPublicShareAttestation, through one endpoint, at one time. An endpoint that
\* is behind answers from before the record was committed. A record of another kind,
\* from one that lies, never verifies: the call ends refused, as any read may end it.
PublicAnswers(endpoint, asked, behind) ==
    IF liar = endpoint THEN {Absent} \cup {RecordOf(a) : a \in OfKind("public_share")}
    ELSE IF behind \/ ~IsPublic(asked) THEN {Absent}
    ELSE {RecordOf(a) : a \in {a \in Committed("public_share") :
                                  AskedOf(a.data.digest) = asked}}

\* readEncryptedShare: the share account, its attestation, and the encryption
\* key its holder registered. An endpoint that lags shows no acceptance yet.
ShareAnswers(asked, dwallet, holder) ==
    LET Account(address, share, reEncrypted, isAccepted, digest, signature) ==
            [dwallet |-> address, owner |-> share.holder, reEncrypted |-> reEncrypted,
             accepted |-> isAccepted, digest |-> digest, signature |-> signature,
             share |-> share.share]
        Stored(share, isAccepted) ==
            LET digest == AcceptedDigest(share, share.digest)
            IN Account(asked, share, digest = share, isAccepted, digest,
                       IF isAccepted
                       THEN [by |-> share.holder, digest |-> digest] ELSE NoSignature)
    IN IF liar = "first"
       THEN {[record |-> RecordOf(a), registered |-> a.data.encryptionKey,
              account |-> Account(asked, a.data, reEncrypted, isAccepted,
                                  IF isFirst THEN dwallet ELSE a.data, signature)] :
                 a \in OfKind("encrypted_share"), reEncrypted \in BOOLEAN,
                 isAccepted \in BOOLEAN, isFirst \in BOOLEAN,
                 signature \in signatures \cup {NoSignature}}
       ELSE UNION {
              {[record |-> RecordOf(a), registered |-> EncryptionKeyOf(holder),
                account |-> Stored(a.data, isAccepted)] :
                   isAccepted \in {FALSE, a.data \in accepted}} :
              a \in {a \in Committed("encrypted_share") :
                        AskedOf(a.data.digest) = asked /\ a.data.holder = holder}}

-----------------------------------------------------------------------------
(* The ownership check.                                                    *)

\* One call at a time, and one result: each call has its own.
Starts(t) ==
    /\ task = Idle
    /\ result = NoResult
    /\ request = NoRequest
    /\ task' = t
    /\ UNCHANGED <<chain, accepted, signatures, liar, result, request>>

\* The caller is done with what the last call issued and built.
Forget ==
    /\ task = Idle
    /\ result # NoResult \/ request # NoRequest
    /\ result' = NoResult
    /\ request' = NoRequest
    /\ UNCHANGED <<chain, accepted, signatures, liar, task>>

\* history: whether the share was public when the call began, and whether the last
\* answer of an endpoint that does not lie was behind the chain.
Call(op, pc, user, dwallet, given) ==
    [op |-> op, pc |-> pc, user |-> user, dwallet |-> dwallet,
     asked |-> AskedOf(dwallet), given |-> given, networkKey |-> None,
     answers |-> NoAnswers, wasPublic |-> IsPublic(AskedOf(dwallet)), lagged |-> FALSE]

Given(user) == {NoSignature} \cup {s \in signatures : s.by = user}

\* assertDWalletUsable, for the attestation the caller holds.
AssertDWalletUsable(user, dwallet) ==
    \E given \in Given(user) : Starts(Call("assert", "dwallet", user, dwallet, given))

\* readDWalletVerified, for a dWallet the caller names by its key or address.
ReadDWalletVerified(user, dwallet) ==
    \E given \in Given(user) : Starts(Call("read", "lookup", user, dwallet, given))

Continue(t) ==
    /\ task' = t
    /\ UNCHANGED <<chain, accepted, signatures, liar, result, request>>

Refuse == Continue(Idle)

\* checkedReadDWallet, and the core's checks of what it returned.
ReaderTakes(answer, asked) ==
    /\ VerifyDWallet(answer.record, asked)
    /\ answer.account.networkKey \in TrustedNetworkKeys
    /\ VerifyStoredDWallet(answer.account, answer.record.data)

\* The first read of readDWalletVerified. Every read may fail, and a check that
\* fails refuses the call. A lookup by address reads the account
\* there and then this dWallet, whose address must be the one asked for.
Lookup ==
    /\ task.op # "none" /\ task.pc = "lookup"
    /\ \/ Refuse
       \/ \E answer \in DWalletAnswers(task.asked) :
             /\ ReaderTakes(answer, task.asked)
             /\ Continue([task EXCEPT !.pc = "dwallet", !.dwallet = answer.record.data])

\* readDWalletHolding and requireAttestedKeyOfOutput.
ReadDWallet ==
    /\ task.op # "none" /\ task.pc = "dwallet"
    /\ \/ Refuse
       \/ \E answer \in DWalletAnswers(AskedOf(task.dwallet)) :
             /\ ReaderTakes(answer, AskedOf(task.dwallet))
             /\ answer.record.data = task.dwallet
             /\ task.dwallet.output.key = task.dwallet.key
             /\ Continue([task EXCEPT
                    !.pc = IF task.op = "accept" THEN "sender" ELSE "public",
                    !.networkKey = answer.account.networkKey])

\* Mutant: the request object, which the caller may have changed by now, is
\* serialized after the check.
IssueForNamed(share, migrated, waiting) ==
    LET issued == [dwallet |-> task.dwallet, holder |-> task.user, share |-> share,
                   migrated |-> migrated, waiting |-> waiting,
                   networkKey |-> task.networkKey, age |-> 0,
                   wasPublic |-> task.wasPublic, lagged |-> task.lagged]
    IN /\ task' = Idle
       /\ UNCHANGED <<chain, accepted, signatures, liar>>
       /\ IF task.op = "sign"
          THEN /\ \E named \in DWallets :
                    request' = [kind |-> "sign", dwallet |-> named, user |-> task.user,
                                waiting |-> FALSE, signed |-> TRUE]
               /\ UNCHANGED result
          ELSE /\ result' = IF task.op = "read" /\ AskedOf(task.dwallet) # task.asked
                            THEN NoResult ELSE issued
               /\ UNCHANGED request

\* What a check ends with: a result, or for a sign with a reader the request.
Issue(share, migrated, waiting) ==
    LET issued == [dwallet |-> task.dwallet, holder |-> task.user, share |-> share,
                   migrated |-> migrated, waiting |-> waiting,
                   networkKey |-> task.networkKey, age |-> 0,
                   wasPublic |-> task.wasPublic, lagged |-> task.lagged]
    IN /\ task' = Idle
       /\ UNCHANGED <<chain, accepted, signatures, liar>>
       /\ IF task.op = "sign"
          THEN /\ request' = [kind |-> "sign", dwallet |-> task.dwallet, user |-> task.user,
                              waiting |-> FALSE, signed |-> TRUE]
               /\ UNCHANGED result
          ELSE /\ result' = IF task.op = "read" /\ AskedOf(task.dwallet) # task.asked
                            THEN NoResult ELSE issued
               /\ UNCHANGED request

\* Mutant: an endpoint that finds no record is believed.
AbsentWhenEitherFindsNone(answers) ==
    \/ ~CrossCheck
    \/ Absent \in {answers["first"], answers["second"]}
    \/ answers["first"] = answers["second"]

\* crossCheckedRead's `same`: no record carries a position, so two endpoints that
\* find none agree at once.
Agreed(answers) == ~CrossCheck \/ answers["first"] = answers["second"]

\* crossCheckedRead, in the step of an answer: the other one is waited for; the answer
\* they agree on is taken; an endpoint that finds no record while the other does is
\* read again, until the window ends. Two different records refuse the call.
ReadPublicShare(t) ==
    LET isRead == \A endpoint \in Asked : t.answers[endpoint] # Unread
        found == t.answers["first"]
    IN \/ ~isRead /\ Continue(t)
       \/ /\ isRead /\ Agreed(t.answers)
          /\ found = Absent
          /\ Continue([t EXCEPT
                 !.answers = NoAnswers,
                 !.pc = IF t.dwallet.holder = None /\ ~t.dwallet.migration
                        THEN "classic" ELSE "share"])
       \/ /\ isRead /\ Agreed(t.answers)
          /\ found # Absent
          /\ VerifyPublicShare(found, t.dwallet)
          /\ Issue("public", FALSE, FALSE)
       \/ \E endpoint \in Asked :
             /\ isRead /\ ~Agreed(t.answers)
             /\ t.answers[endpoint] = Absent
             /\ Continue([t EXCEPT !.answers[endpoint] = Unread])

\* readPublicShare, first for every dWallet: each endpoint answers at its own time.
AnswerPublicShare(endpoint) ==
    LET asked == AskedOf(task.dwallet) IN
    /\ task.op # "none" /\ task.pc = "public"
    /\ endpoint \in Asked
    /\ task.answers[endpoint] = Unread
    /\ \/ Refuse
       \/ \E behind \in BOOLEAN :
             /\ behind => liar # endpoint /\ IsPublic(asked)
             /\ \E answer \in PublicAnswers(endpoint, asked, behind) :
                   ReadPublicShare([task EXCEPT
                       !.answers[endpoint] = answer,
                       !.lagged = IF liar = endpoint THEN @ ELSE behind])

\* The share record under `holder`: absent, refused, or verified.
ShareVerifies(answer, holder, given) ==
    VerifySolanaShare(answer.account, answer.record, answer.registered, task.dwallet,
                      AskedOf(task.dwallet), holder, given, signatures)

\* usabilityOfEncryptedShare, and attachedShareOfMigratedDWallet for a dWallet
\* that names no holder, for which no given signature is used. The endpoint may hide
\* the record, and may lag.
ReadOwnShare ==
    LET given == IF task.dwallet.holder = None THEN NoSignature ELSE task.given IN
    /\ task.op # "none" /\ task.pc = "share"
    /\ \/ Refuse
       \/ /\ task.dwallet.holder = None
          /\ Continue([task EXCEPT !.pc = "classic"])
       \/ \E answer \in ShareAnswers(AskedOf(task.dwallet), task.dwallet, task.user) :
             LET waiting == AcceptanceGiven(answer.account, given) IN
             /\ ShareVerifies(answer, task.user, given)
             /\ waiting => task.dwallet.holder = task.user
             /\ Issue("encrypted", FALSE, waiting)

\* usabilityWithoutHolder: the classic contracts show the user's share.
ReadClassicShare ==
    /\ task.op # "none" /\ task.pc = "classic"
    /\ \/ Refuse
       \/ /\ <<task.dwallet, task.user>> \in ClassicShares
          /\ Issue("encrypted", TRUE, FALSE)

-----------------------------------------------------------------------------
(* Requests built from a result, or with a reader.                         *)

\* signDWalletSignRequest with a reader: the request is serialized before the
\* check reads, so what the caller changes meanwhile is not signed.
SignWithReader(user, dwallet) ==
    Starts(Call("sign", "dwallet", user, dwallet, NoSignature))

\* requireUsableFor and checkedStateOf: the result is recent.
IsFresh == result # NoResult /\ result.age <= MaxAge

Builds(r) ==
    /\ task = Idle
    /\ request' = r
    /\ UNCHANGED <<chain, accepted, signatures, liar, task, result>>

RequestOf(kind, signed) ==
    [kind |-> kind, dwallet |-> result.dwallet, user |-> result.holder,
     waiting |-> result.waiting, signed |-> signed]

\* signDWalletSignRequest with a result, for the attestation, network key and
\* chain the request names.
SignWithResult(user, dwallet, networkKey, requestChain) ==
    /\ IsFresh
    /\ requestChain = "solana"
    /\ result.dwallet = dwallet
    /\ result.holder = user
    /\ result.networkKey = networkKey
    /\ ~result.waiting
    /\ Builds(RequestOf("sign", TRUE))

\* makeSharePublicRequest
MakeSharePublicRequest ==
    /\ IsFresh
    /\ result.share # "public"
    /\ Builds(RequestOf("make_public", FALSE))

\* reEncryptShareRequest
ReEncryptShareRequest ==
    /\ IsFresh
    /\ result.share # "public"
    /\ ~result.migrated
    /\ Builds(RequestOf("re_encrypt", FALSE))

\* futureSignRequest, with a presign that fits the dWallet and the requester.
FutureSignRequest ==
    /\ IsFresh
    /\ ~result.waiting
    /\ Builds(RequestOf("future_sign", FALSE))

\* signGrpcRequest: a request built from a waiting result is signed only by its
\* holder. No age is compared here.
SignGrpcRequest(signer) ==
    /\ request # NoRequest
    /\ ~request.signed
    /\ request.waiting => signer = request.user
    /\ Builds([request EXCEPT !.signed = TRUE])

\* The result ages.
Tick ==
    /\ result # NoResult
    /\ result.age <= MaxAge
    /\ result' = [result EXCEPT !.age = @ + 1]
    /\ UNCHANGED <<chain, accepted, signatures, liar, task, request>>

-----------------------------------------------------------------------------
(* Acceptances.                                                            *)

Signs(user, digest) == signatures' = signatures \cup {[by |-> user, digest |-> digest]}

\* signDWalletShareAcceptance: the answer to the user's own request, compared
\* with what the user sent.
SignDWalletShareAcceptance(user, sent, attestation, networkKey) ==
    LET dwallet == attestation.data IN
    /\ task = Idle
    /\ VerifyAndDecode(RecordOf(attestation), "dwallet")
    /\ VerifyNetworkKey(networkKey, sent.networkKey)
    /\ dwallet.holder = user
    /\ dwallet.session = sent.session
    /\ dwallet.sender = sent.sender
    /\ dwallet.imported = sent.imported
    /\ dwallet.output.contribution = sent.contribution
    /\ dwallet.output.key = dwallet.key
    /\ dwallet.encryptionKey = EncryptionKeyOf(user)
    /\ dwallet.share = sent.share
    /\ dwallet.signature = sent.signature
    /\ Signs(user, dwallet)
    /\ UNCHANGED <<chain, accepted, liar, task, result, request>>

\* signReEncryptedShareAcceptance, with the key of the share's sender and maybe
\* the sender's own signature. The share's attestation, copied here, is chosen
\* where it is first used.
SignReEncryptedShareAcceptance(user, sender) ==
    \E given \in Given(sender), dwallet \in DWallets :
        Starts([op |-> "accept", pc |-> "dwallet", user |-> user, dwallet |-> dwallet,
                asked |-> AskedOf(dwallet), given |-> given, networkKey |-> None,
                wasPublic |-> FALSE, sender |-> sender])

\* The sender's share record: accepted, or accepted by the signature given when
\* the dWallet's attestation names the sender.
ReadSenderShare ==
    /\ task.op # "none" /\ task.pc = "sender"
    /\ \/ Refuse
       \/ \E answer \in ShareAnswers(AskedOf(task.dwallet), task.dwallet, task.sender) :
             /\ ShareVerifies(answer, task.sender, task.given)
             /\ AcceptanceGiven(answer.account, task.given) =>
                   task.dwallet.holder = task.sender
             /\ Continue([task EXCEPT !.pc = "decrypt"])

\* The share attestation's own checks, and the share decrypts.
ReEncryptedShareFits(attestation, networkKey) ==
    LET share == attestation.data IN
    /\ VerifyAndDecode(RecordOf(attestation), "encrypted_share")
    /\ networkKey = task.networkKey
    /\ share.holder = task.user
    /\ RequireSameDWallet(share, task.dwallet)
    /\ share.encryptionKey = EncryptionKeyOf(task.user)
    /\ Decrypts(share.share, task.dwallet, task.user)

\* Mutant: the sender's record is not read.
DecryptWithoutSender(attestation, networkKey) ==
    /\ task.op # "none" /\ task.pc \in {"sender", "decrypt"}
    /\ task' = Idle
    /\ IF ReEncryptedShareFits(attestation, networkKey)
       THEN Signs(task.user, attestation.data)
       ELSE UNCHANGED signatures
    /\ UNCHANGED <<chain, accepted, liar, result, request>>

DecryptAndSign(attestation, networkKey) ==
    /\ task.op # "none" /\ task.pc = "decrypt"
    /\ task' = Idle
    /\ IF ReEncryptedShareFits(attestation, networkKey)
       THEN Signs(task.user, attestation.data)
       ELSE UNCHANGED signatures
    /\ UNCHANGED <<chain, accepted, liar, result, request>>

-----------------------------------------------------------------------------
Next ==
    \/ \E session \in Sessions : Commit(session)
    \/ \E a \in Committed("encrypted_share") : Accept(a.data) \/ AcceptAttached(a.data)
    \/ \E user \in Users, dwallet \in DWallets :
          \/ AssertDWalletUsable(user, dwallet)
          \/ ReadDWalletVerified(user, dwallet)
          \/ SignWithReader(user, dwallet)
          \/ \E networkKey \in TrustedNetworkKeys, requestChain \in {"solana", "sui"} :
                SignWithResult(user, dwallet, networkKey, requestChain)
    \/ \E user \in Users, networkKey \in TrustedNetworkKeys :
          \/ \E sent \in Sent[user], attestation \in OfKind("dwallet") :
                SignDWalletShareAcceptance(user, sent, attestation, networkKey)
    \/ Lookup \/ ReadDWallet \/ ReadOwnShare \/ ReadClassicShare
    \/ \E endpoint \in Endpoints : AnswerPublicShare(endpoint)
    \/ \E user \in Users : \E sender \in Users \ {user} :
          SignReEncryptedShareAcceptance(user, sender)
    \/ ReadSenderShare
    \/ \E attestation \in OfKind("encrypted_share"), networkKey \in TrustedNetworkKeys :
          DecryptAndSign(attestation, networkKey)
    \/ MakeSharePublicRequest \/ ReEncryptShareRequest \/ FutureSignRequest
    \/ \E signer \in Users : SignGrpcRequest(signer)
    \/ Tick
    \/ Forget

Spec == Init /\ [][Next]_vars

-----------------------------------------------------------------------------
(* Properties.                                                             *)

\* `user` signed an acceptance of a share of this very dWallet that a trusted
\* network key attests.
HasAccepted(user, dwallet) ==
    \/ [by |-> user, digest |-> dwallet] \in signatures
    \/ \E a \in OfKind("encrypted_share") :
          /\ a.signer \in TrustedNetworkKeys
          /\ a.data.digest = dwallet
          /\ a.data.holder = user
          /\ [by |-> user, digest |-> a.data] \in signatures

\* The share of a dWallet is the user's: accepted by the user's key, made public
\* under the network's signature, or shown by the classic contracts.
Usable(user, dwallet) ==
    \/ HasAccepted(user, dwallet)
    \/ \E a \in OfKind("public_share") :
          a.signer \in TrustedNetworkKeys /\ a.data.digest = dwallet
    \/ <<dwallet, user>> \in ClassicShares

\* Whatever the endpoints serve, the check calls a share the user's only when the
\* user's key accepted a share of this very dWallet: not a share of another
\* dWallet of the same key and sender, and not one the user never accepted.
EncryptedMeansAccepted ==
    result # NoResult /\ result.share = "encrypted" =>
        \/ HasAccepted(result.holder, result.dwallet)
        \/ result.migrated /\ <<result.dwallet, result.holder>> \in ClassicShares

\* One endpoint alone, whatever it serves, cannot have a share that was public when the
\* check began reported as encrypted: the other one must have been behind the chain in
\* the answer the two agreed on. Nothing signs an absence, and two absences agree at once,
\* so with an endpoint that lags as well the code cannot tell. A check without a second
\* endpoint says so only of one that does not lie.
PublicIsNotHidden ==
    /\ CrossCheck \/ liar # "first"
    /\ result # NoResult /\ result.share = "encrypted"
    => (result.wasPublic => result.lagged)

\* A request that signs with a dWallet is signed only for a share that is the
\* user's, also with a reader and after the caller changed its request.
SignsOnlyForUsable ==
    request # NoRequest /\ request.signed => Usable(request.user, request.dwallet)

\* Custody of a dWallet starts with its creator: a share of it is accepted by
\* anyone only when the holder its attestation names accepted the dWallet, and
\* that holder's own request asked for this output.
CustodyStartsWithCreator ==
    \A s \in signatures :
        LET dwallet == IF s.digest.kind = "dwallet" THEN s.digest ELSE s.digest.digest IN
        \/ dwallet.migration
        \/ /\ [by |-> dwallet.holder, digest |-> dwallet] \in signatures
           /\ \E sent \in Sent[dwallet.holder] :
                 /\ sent.session = dwallet.session
                 /\ sent.contribution = dwallet.output.contribution

=============================================================================
