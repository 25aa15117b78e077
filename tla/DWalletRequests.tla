--------------------------- MODULE DWalletRequests ---------------------------
(***************************************************************************)
(* The requests of a client, from the call to what it returns: the calls   *)
(* of ika-client-base.ts, the operations of the engine (engine.ts) and the *)
(* checks of a validator's answer (answer-checks.ts,                       *)
(* signature-verification.ts). Several calls run at once on one client.    *)
(*                                                                         *)
(* One validator answers a request. It may answer with an error, with any  *)
(* signature, or with any attestation that was ever signed: an earlier     *)
(* answer, one of another request that runs now, or one of another user;   *)
(* and the network key it names beside an attestation is not signed. How a *)
(* request is sent, sent again and looked up is RequestSubmission; how the *)
(* ownership check reads the chain is ShareOwnership. A message stands for *)
(* its bytes and metadata, an algorithm for a curve and an algorithm on    *)
(* it, and a session for the epoch, key and preimage that it hashes.       *)
(***************************************************************************)
EXTENDS Attestations

CONSTANTS
    Slots,         \* the calls that may run at once
    Plans,         \* what the application may ask for
    SessionsOf,    \* the sessions a slot's presign requests and its request open
    Requester,     \* the key that signs the client's requests
    Holder,        \* the keys' holder, and the encryption key derived with it
    Sender,        \* intended_chain_sender: the owner's address
    Owned,         \* the dWallets on the chain at the start that Holder may use
    Latest,        \* the epoch's latest network key
    ApprovalOf,    \* what the owner approves with each voucher
    AlgorithmOf,   \* BASE_ALGORITHMS: the schemes the SDK knows, on the curve
    Ecdsa          \* ECDSA_SCHEMES

\* The dWallets that the network made: on the chain at the start, or attested with
\* a trusted key.
Made ==
    {dwallet \in Owned \cup {attestation.data : attestation \in
                               {a \in Signed : a.signer \in TrustedNetworkKeys}} :
        dwallet.kind = "dwallet"}

\* A session hashes a fresh preimage (#sessionIdentifier): no other call has it, and
\* no older dWallet.
ASSUME SessionsAreFresh ==
    \A slot \in Slots, n \in 1 .. 3 :
        /\ \A other \in Slots \ {slot}, m \in 1 .. 3 :
              SessionsOf[other][m] # SessionsOf[slot][n]
        /\ \A dwallet \in Made : dwallet \in Owned => dwallet.session # SessionsOf[slot][n]

\* The network makes a key (or imports it) in one session, the key is the one in the
\* attested output, and a session asked for one thing has one outcome.
ASSUME NetworkMakesKeysOnce ==
    \A dwallet \in Made :
        /\ dwallet.output.key = dwallet.key
        /\ \A other \in Made :
              /\ AskedOf(other) = AskedOf(dwallet) => other.session = dwallet.session
              /\ /\ other.session = dwallet.session
                 /\ other.imported = dwallet.imported
                 /\ other.holder = dwallet.holder
                 /\ other.signature = dwallet.signature
                 => other = dwallet

VARIABLES
    plan,       \* what each slot was asked for
    pc,         \* where its call is
    late,       \* the deadline of the wait it is in has passed
    session,    \* the session of its last request
    presign,    \* the presign it signs with
    scheme,     \* the scheme it signs with, as its voucher approves it
    result,     \* what it returned
    chain,      \* the dWallets and re-encrypted shares written to the chain
    vouchers    \* the vouchers issued

callVars == <<plan, pc, late, session, presign, scheme, result>>
vars == <<callVars, chain, vouchers>>

NoPlan == [op |-> None]
NoPresign == [reference |-> None]
NoResult == [kind |-> None]

Creating == {"dkg", "dkgPublic", "importedKey"}
Signing == {"sign", "futureSign"}

\* "voucher", "pool" and "share" are waits with a deadline: for the voucher, for
\* a presign of the pool, and for the new share on the chain. In "usable" the
\* ownership check runs, and in "sent" the request.
Waits == {"voucher", "pool", "share"}
Running == Waits \cup {"usable", "sent"}

\* A call that returned, or whose answer is checked and share is waited for.
Answered(slot) ==
    \/ pc[slot] = "done"
    \/ pc[slot] = "share" /\ plan[slot].op \in Creating

TypeOK ==
    /\ plan \in [Slots -> Plans \cup {NoPlan}]
    /\ pc \in [Slots -> Running \cup {"idle", "done", "failed"}]
    /\ late \in [Slots -> BOOLEAN]
    /\ DOMAIN session = Slots /\ DOMAIN presign = Slots
    /\ DOMAIN scheme = Slots /\ DOMAIN result = Slots
    /\ \A slot \in Slots :
          /\ session[slot] \in {None} \cup {SessionsOf[slot][n] : n \in 1 .. 3}
          /\ scheme[slot] \in {None} \cup DOMAIN AlgorithmOf
          /\ result[slot] = NoResult <=> ~Answered(slot)
    /\ vouchers \subseteq DOMAIN ApprovalOf

Init ==
    /\ plan = [slot \in Slots |-> NoPlan]
    /\ pc = [slot \in Slots |-> "idle"]
    /\ late = [slot \in Slots |-> FALSE]
    /\ session = [slot \in Slots |-> None]
    /\ presign = [slot \in Slots |-> NoPresign]
    /\ scheme = [slot \in Slots |-> None]
    /\ result = [slot \in Slots |-> NoResult]
    /\ chain = Owned
    /\ vouchers = {}

-----------------------------------------------------------------------------
(* The chain.                                                              *)

\* The owner issues a voucher.
IssueVoucher(voucher) ==
    /\ voucher \notin vouchers
    /\ vouchers' = vouchers \cup {voucher}
    /\ UNCHANGED <<callVars, chain>>

\* What the chain shows under a lookup: a dWallet's share of a holder, waiting
\* for its acceptance or accepted (shareIsOnChain).
ShareIsOnChain(asked, holder) ==
    \E dwallet \in chain :
        /\ dwallet.kind = "dwallet"
        /\ AskedOf(dwallet) = asked
        /\ \/ dwallet.holder = holder
           \/ \E share \in chain :
                 /\ share.kind = "encrypted_share"
                 /\ share.digest = dwallet
                 /\ share.holder = holder

-----------------------------------------------------------------------------
(* Answers. An attestation as it is held has the network key named beside  *)
(* it; a signature verifies for exactly what it was made for.              *)

Schemes == DOMAIN AlgorithmOf
NetworkKeys == {attestation.signer : attestation \in Signed}
Held(attestation, networkKey) ==
    [kind |-> "attestation", attestation |-> attestation, networkKey |-> networkKey]

SignatureOf(key, message, signatureScheme) ==
    [kind |-> "signature", key |-> key, message |-> message, scheme |-> signatureScheme]
Error == [kind |-> "error"]

\* attestationOfAnswer
AttestationOfAnswer(answer, networkKey) ==
    answer.kind = "attestation" /\ answer.networkKey = networkKey

\* verifyAttestation, and #expectAttestation for an answer.
ExpectAttestation(answer, kind, networkKey) ==
    /\ AttestationOfAnswer(answer, networkKey)
    /\ VerifyAndDecode(RecordOf(answer.attestation), kind)

\* Mutant: the presign need only be one that the requester may use.
VerifyPresignOfRequester(answer, networkKey, sent, algorithm, boundTo) ==
    LET data == answer.attestation.data IN
    /\ AttestationOfAnswer(answer, networkKey)
    /\ VerifyAndDecode(RecordOf(answer.attestation), "presign")
    /\ data.algorithm = algorithm
    /\ data.boundTo = boundTo

\* verifyPresignAnswer
VerifyPresignAnswer(answer, networkKey, sent, algorithm, boundTo) ==
    LET data == answer.attestation.data IN
    /\ AttestationOfAnswer(answer, networkKey)
    /\ VerifyAndDecode(RecordOf(answer.attestation), "presign")
    /\ data.session = sent
    /\ data.algorithm = algorithm
    /\ data.boundTo = boundTo

\* verifyMakeSharePublicAnswer
VerifyMakeSharePublicAnswer(answer, networkKey, sent, dwallet) ==
    LET data == answer.attestation.data IN
    /\ AttestationOfAnswer(answer, networkKey)
    /\ VerifyPublicShare(RecordOf(answer.attestation), dwallet)
    /\ data.session = sent
    /\ data.share = dwallet.output

\* verifyReEncryptShareAnswer
VerifyReEncryptShareAnswer(answer, networkKey, sent, dwallet, to) ==
    LET data == answer.attestation.data IN
    /\ AttestationOfAnswer(answer, networkKey)
    /\ VerifyEncryptedShare(RecordOf(answer.attestation), dwallet, to)
    /\ data.session = sent
    /\ data.share = [output |-> dwallet.output, to |-> to]
    /\ data.encryptionKey = to

\* verifyFutureSignAnswer
VerifyFutureSignAnswer(answer, sent, dwallet, used, message, signatureScheme, voucher) ==
    LET data == answer.attestation.data IN
    /\ AttestationOfAnswer(answer, dwallet.networkKey)
    /\ VerifyAndDecode(RecordOf(answer.attestation), "partial_user_signature")
    /\ data.session = sent
    /\ data.sender = Sender
    /\ data.key = dwallet.attestation.data.key
    /\ data.digest = dwallet.attestation.data
    /\ data.voucher = voucher
    /\ data.reference = used.attestation.attestation.data.reference
    /\ data.presign = used.attestation.attestation.data
    /\ data.message = message
    /\ data.scheme = signatureScheme

\* What both kinds of creation compare: the session, the sender, the user's own
\* contribution, made for that session, the key inside the output, and a signature
\* exactly when one was asked for, which verifies.
IsOfCreation(dwallet, sent, imported, sign) ==
    /\ dwallet.session = sent
    /\ dwallet.sender = Sender
    /\ dwallet.imported = imported
    /\ dwallet.output.contribution = sent
    /\ dwallet.output.key = dwallet.key
    /\ IF sign = NoPlan THEN dwallet.signature = NoSignature
       ELSE dwallet.signature = SignatureOf(dwallet.key, sign.message, sign.scheme)

\* verifyPublicShareDkgAnswer
VerifyPublicShareDkgAnswer(answer, networkKey, sent, sign) ==
    LET dwallet == answer.attestation.data IN
    /\ AttestationOfAnswer(answer, networkKey)
    /\ VerifyAndDecode(RecordOf(answer.attestation), "dwallet")
    /\ VerifyNetworkKey(answer.networkKey, networkKey)
    /\ IsOfCreation(dwallet, sent, FALSE, sign)
    /\ dwallet.holder = None
    /\ dwallet.encryptionKey = None
    /\ dwallet.share = None

\* #signAcceptance: what signDWalletShareAcceptance compares before it signs.
AcceptanceSigned(answer, networkKey, sent, imported, sign) ==
    LET dwallet == answer.attestation.data IN
    /\ ExpectAttestation(answer, "dwallet", networkKey)
    /\ VerifyNetworkKey(answer.networkKey, networkKey)
    /\ IsOfCreation(dwallet, sent, imported, sign)
    /\ dwallet.holder = Holder
    /\ dwallet.encryptionKey = Holder
    /\ dwallet.share = [output |-> dwallet.output, to |-> Holder]

\* signatureFromResponseVerified, with verifySignatureWithScheme under the key of
\* an output.
SignatureVerifies(answer, output, message, signatureScheme) ==
    /\ answer.kind = "signature"
    /\ answer = SignatureOf(output.key, message, signatureScheme)

-----------------------------------------------------------------------------
(* Steps of a call.                                                        *)

Goto(slot, step) ==
    /\ pc' = [pc EXCEPT ![slot] = step]
    /\ late' = [late EXCEPT ![slot] = FALSE]

Throw(slot) ==
    /\ Goto(slot, "failed")
    /\ result' = [result EXCEPT ![slot] = NoResult]
    /\ UNCHANGED <<plan, session, presign, scheme, chain, vouchers>>

Return(slot, value) ==
    /\ Goto(slot, "done")
    /\ result' = [result EXCEPT ![slot] = value]
    /\ UNCHANGED <<plan, session, presign, scheme, chain, vouchers>>

\* A request goes out under the n-th session of the slot (#sessionIdentifier).
Open(slot, step, n) ==
    /\ Goto(slot, step)
    /\ session' = [session EXCEPT ![slot] = SessionsOf[slot][n]]

\* An answer that no check takes, a submission that fails, or a read that fails
\* ends the call with an error.
CallFails(slot) ==
    /\ pc[slot] \in Running
    /\ Throw(slot)

\* The deadline of a wait passes.
DeadlinePasses(slot) ==
    /\ pc[slot] \in Waits
    /\ ~late[slot]
    /\ late' = [late EXCEPT ![slot] = TRUE]
    /\ UNCHANGED <<plan, pc, session, presign, scheme, result, chain, vouchers>>

\* #requireServedDWallet, and #verifiedDWallet of a dWallet the caller holds.
ServedDWallet(dwallet, networkKey) == dwallet.networkKey = networkKey
VerifiedDWallet(dwallet) ==
    VerifyDWallet(RecordOf(dwallet.attestation),
                  [key |-> dwallet.key, session |-> dwallet.imported])

\* #signDuringDkgPresign: a pool presign of this requester for the scheme.
SignDuringDkgPresign(sign, networkKey) ==
    LET data == sign.presign.attestation.attestation.data IN
    /\ ExpectAttestation(sign.presign.attestation, "presign", networkKey)
    /\ data.requester = Requester
    /\ data.boundTo = None
    /\ data.algorithm = AlgorithmOf[sign.scheme]
    /\ data.reference = sign.presign.reference

\* Mutant: the parts of the partial signature are not compared.
AnyCompletion(partial, networkKey) ==
    /\ ExpectAttestation(partial.attestation, "partial_user_signature", networkKey)
    /\ ExpectAttestation(partial.dwallet, "dwallet", networkKey)

\* completeFutureSignature before it sends, with completeFutureSignRequest.
CompletionFits(partial, networkKey) ==
    LET data == partial.attestation.attestation.data
        dwallet == partial.dwallet.attestation.data
    IN /\ ExpectAttestation(partial.attestation, "partial_user_signature", networkKey)
       /\ ExpectAttestation(partial.dwallet, "dwallet", networkKey)
       /\ data.key = dwallet.key
       /\ data.voucher = partial.voucher
       /\ data.digest = dwallet
       /\ data.message = partial.message

Starts(slot, p) ==
    /\ pc[slot] = "idle"
    /\ plan' = [plan EXCEPT ![slot] = p]
    /\ UNCHANGED <<scheme, result, chain, vouchers>>

\* createDWallet, createDWalletAndSign, the two with a public share, and
\* verifyImportedKey, which signs nothing.
Create(slot, p) ==
    /\ p.op \in Creating
    /\ p.networkKey = Latest
    /\ p.sign # NoPlan => SignDuringDkgPresign(p.sign, p.networkKey)
    /\ Starts(slot, p)
    /\ Open(slot, "sent", 3)
    /\ UNCHANGED presign

\* requestPresign (requestPresigns starts several) and requestPresignForDWallet.
RequestPresign(slot, p) ==
    /\ p.op = "presign"
    /\ p.dwallet # NoPlan => ServedDWallet(p.dwallet, p.networkKey)
    /\ Starts(slot, p)
    /\ Open(slot, "pool", 1)
    /\ UNCHANGED presign

\* requestSign, requestFutureSign: the voucher is read first.
RequestSign(slot, p) ==
    /\ p.op \in Signing
    /\ Starts(slot, p)
    /\ Goto(slot, "voucher")
    /\ presign' = [presign EXCEPT ![slot] = p.presign]
    /\ UNCHANGED session

\* futureSign
FutureSign(slot, p) ==
    /\ p.op = "complete"
    /\ CompletionFits(p.partial, p.networkKey)
    /\ Starts(slot, p)
    /\ Open(slot, "sent", 3)
    /\ UNCHANGED presign

\* makeDWalletUserSecretKeySharesPublic, requestReEncryptUserShareFor, and the
\* wait of receiveEncryptedUserShare for the share on the chain.
ChangeShare(slot, p) ==
    /\ p.op \in {"makePublic", "reEncrypt", "receive"}
    /\ Starts(slot, p)
    /\ Goto(slot, IF p.op = "receive" THEN "share" ELSE "usable")
    /\ UNCHANGED <<session, presign>>

\* Whether the voucher is for this dWallet, message and scheme.
ApprovalFits(p, approval) ==
    /\ approval.dwallet = [key |-> p.dwallet.key, session |-> p.dwallet.imported]
    /\ approval.message = p.message
    /\ approval.scheme \in Schemes
    /\ p.scheme \in {None, approval.scheme}

\* #signTerms, once the voucher is read.
SignTerms(slot) ==
    LET p == plan[slot] IN
    /\ pc[slot] = "voucher"
    /\ p.voucher \in vouchers
    /\ IF ApprovalFits(p, ApprovalOf[p.voucher])
       THEN /\ scheme' = [scheme EXCEPT ![slot] = ApprovalOf[p.voucher].scheme]
            /\ Goto(slot, "usable")
            /\ UNCHANGED <<plan, session, presign, result, chain, vouchers>>
       ELSE Throw(slot)

\* futureSignRequest: the presign fits the requester, the dWallet and the scheme.
PresignFits(used, dwallet, signatureScheme) ==
    LET data == used.attestation.attestation.data IN
    /\ ExpectAttestation(used.attestation, "presign", dwallet.networkKey)
    /\ data.requester = Requester
    /\ data.algorithm = AlgorithmOf[signatureScheme]
    /\ data.boundTo = IF dwallet.attestation.data.imported /\ signatureScheme \in Ecdsa
                      THEN dwallet.attestation.data.key ELSE None

\* The dWallet a sign's own presign is made for, if for one (#withPresign).
PresignFor(p, signatureScheme) ==
    IF p.dwallet.attestation.data.imported /\ signatureScheme \in Ecdsa
    THEN p.dwallet.key ELSE None

\* Mutant: the output the caller holds is not compared with the checked one.
UsableWithAnyOutput(slot) ==
    LET p == plan[slot] IN
    /\ pc[slot] = "usable"
    /\ ServedDWallet(p.dwallet, p.networkKey)
    /\ p.dwallet.attestation.data \in chain
    /\ p.dwallet.attestation.data.kind = "dwallet"
    /\ p.op # "sign" => VerifiedDWallet(p.dwallet)
    /\ IF p.op \in Signing /\ presign[slot] = NoPresign
       THEN Open(slot, "pool", 1)
       ELSE /\ p.op = "futureSign" => PresignFits(presign[slot], p.dwallet, scheme[slot])
            /\ Open(slot, "sent", 3)
    /\ UNCHANGED <<plan, presign, scheme, result, chain, vouchers>>

\* checkDWalletUsable passes (ShareOwnership) for an attestation the chain holds,
\* and #requireCheckedOutput compares the output the caller holds with it. A sign
\* without a presign takes one; every other request goes out.
Usable(slot) ==
    LET p == plan[slot] IN
    /\ pc[slot] = "usable"
    /\ ServedDWallet(p.dwallet, p.networkKey)
    /\ p.dwallet.attestation.data \in chain
    /\ p.dwallet.attestation.data.kind = "dwallet"
    /\ p.op # "sign" => VerifiedDWallet(p.dwallet)
    /\ p.dwallet.output = p.dwallet.attestation.data.output
    /\ IF p.op \in Signing /\ presign[slot] = NoPresign
       THEN Open(slot, "pool", 1)
       ELSE /\ p.op = "futureSign" => PresignFits(presign[slot], p.dwallet, scheme[slot])
            /\ Open(slot, "sent", 3)
    /\ UNCHANGED <<plan, presign, scheme, result, chain, vouchers>>

\* The pool is empty: until the deadline the presign is asked for again, under a
\* new session. The sessions of attempts that are two apart share a name.
PoolEmpty(slot) ==
    /\ pc[slot] = "pool"
    /\ ~late[slot]
    /\ \E n \in {1, 2} :
          /\ SessionsOf[slot][n] # session[slot]
          /\ session' = [session EXCEPT ![slot] = SessionsOf[slot][n]]
    /\ UNCHANGED <<plan, pc, late, presign, scheme, result, chain, vouchers>>

\* #presign
PresignAnswered(slot, answer) ==
    LET p == plan[slot]
        boundTo == IF p.op = "presign"
                   THEN IF p.dwallet = NoPlan THEN None ELSE p.dwallet.key
                   ELSE PresignFor(p, scheme[slot])
        algorithm == IF p.op = "presign" THEN p.algorithm ELSE AlgorithmOf[scheme[slot]]
        taken == [reference |-> answer.attestation.data.reference, attestation |-> answer]
    IN /\ pc[slot] = "pool"
       /\ VerifyPresignAnswer(answer, p.networkKey, session[slot], algorithm, boundTo)
       /\ answer.attestation.data.requester = Requester
       /\ IF p.op = "presign"
          THEN Return(slot, answer)
          ELSE /\ presign' = [presign EXCEPT ![slot] = taken]
               /\ p.op = "futureSign" => PresignFits(taken, p.dwallet, scheme[slot])
               /\ Open(slot, "sent", 3)
               /\ UNCHANGED <<plan, scheme, result, chain, vouchers>>

\* Mutant: the new dWallet is returned without the wait for its share.
CreatedWithoutWait(slot, answer) ==
    LET p == plan[slot] IN
    /\ pc[slot] = "sent"
    /\ \/ /\ p.op = "dkgPublic"
          /\ VerifyPublicShareDkgAnswer(answer, p.networkKey, session[slot], p.sign)
       \/ /\ p.op \in Creating
          /\ AcceptanceSigned(answer, p.networkKey, session[slot],
                              p.op = "importedKey", p.sign)
    /\ Return(slot, answer)

\* #dkg and verifyImportedKey: a public share's dWallet is returned at once; an
\* encrypted share is accepted, and then waited for on the chain.
Created(slot, answer) ==
    LET p == plan[slot] IN
    /\ pc[slot] = "sent"
    /\ IF p.op = "dkgPublic"
       THEN /\ VerifyPublicShareDkgAnswer(answer, p.networkKey, session[slot], p.sign)
            /\ Return(slot, answer)
       ELSE /\ p.op \in Creating
            /\ AcceptanceSigned(answer, p.networkKey, session[slot],
                                p.op = "importedKey", p.sign)
            /\ Goto(slot, "share")
            /\ result' = [result EXCEPT ![slot] = answer]
            /\ UNCHANGED <<plan, session, presign, scheme, chain, vouchers>>

\* requestSignature and completeFutureSignature.
SignatureAnswered(slot, answer) ==
    LET p == plan[slot] IN
    /\ pc[slot] = "sent"
    /\ \/ /\ p.op = "sign"
          /\ SignatureVerifies(answer, p.dwallet.output, p.message, scheme[slot])
       \/ /\ p.op = "complete"
          /\ SignatureVerifies(answer, p.partial.dwallet.attestation.data.output,
                               p.partial.message,
                               p.partial.attestation.attestation.data.scheme)
    /\ Return(slot, answer)

\* requestFutureSignature
FutureSignAnswered(slot, answer) ==
    LET p == plan[slot] IN
    /\ pc[slot] = "sent"
    /\ p.op = "futureSign"
    /\ VerifyFutureSignAnswer(answer, session[slot], p.dwallet, presign[slot], p.message,
                              scheme[slot], p.voucher)
    /\ Return(slot, answer)

\* makeSharePublic and reEncryptShare.
ShareChanged(slot, answer) ==
    LET p == plan[slot]
        dwallet == p.dwallet.attestation.data
    IN /\ pc[slot] = "sent"
       /\ \/ /\ p.op = "makePublic"
             /\ VerifyMakeSharePublicAnswer(answer, p.networkKey, session[slot], dwallet)
          \/ /\ p.op = "reEncrypt"
             /\ VerifyReEncryptShareAnswer(answer, p.networkKey, session[slot], dwallet, p.to)
       /\ Return(slot, answer)

\* The dWallet whose share a call waits for (waitForEncryptedShareRecord).
Awaited(slot) ==
    AskedOf(IF plan[slot].op = "receive" THEN plan[slot].dwallet.attestation.data
            ELSE result[slot].attestation.data)

\* acceptReEncryptedShare: what signReEncryptedShareAcceptance compares
\* (ShareOwnership), and the check of the dWallet's attestation.
ReceivedFits(p) ==
    LET dwallet == p.dwallet.attestation.data IN
    /\ dwallet \in chain
    /\ VerifyEncryptedShare(RecordOf(p.share), dwallet, Holder)
    /\ p.share.data.share = [output |-> dwallet.output, to |-> Holder]
    /\ ExpectAttestation(Held(p.dwallet.attestation, p.dwallet.networkKey), "dwallet",
                         p.networkKey)

\* The share is on the chain. A created dWallet is returned; the holder of a
\* received share checks it and signs its acceptance.
ShareRead(slot) ==
    LET p == plan[slot] IN
    /\ pc[slot] = "share"
    /\ ShareIsOnChain(Awaited(slot), Holder)
    /\ IF p.op \in Creating THEN Return(slot, result[slot])
       ELSE IF ReceivedFits(p) THEN Return(slot, [kind |-> "received", share |-> p.share])
       ELSE Throw(slot)

\* What a wait with reads looks for is not there.
NothingThere(slot) ==
    \/ pc[slot] = "voucher" /\ plan[slot].voucher \notin vouchers
    \/ pc[slot] = "share" /\ ~ShareIsOnChain(Awaited(slot), Holder)

\* Mutant: each read that finds nothing gives the wait its full time again.
WaitRestarts(slot) ==
    /\ NothingThere(slot)
    /\ late[slot]
    /\ Goto(slot, pc[slot])
    /\ UNCHANGED <<plan, session, presign, scheme, result, chain, vouchers>>

\* poll and waitForEncryptedShareRecord: a read that finds nothing after the
\* deadline throws. Before it, there is another read.
WaitEnds(slot) ==
    /\ NothingThere(slot)
    /\ late[slot]
    /\ Throw(slot)

-----------------------------------------------------------------------------
\* What the session of a slot makes, as the slot's request asked for it.
IsOutputOf(slot, data) ==
    LET p == plan[slot] IN
    /\ data.session = session[slot]
    /\ IF p.op \in Creating
       THEN /\ data.kind = "dwallet"
            /\ data.holder = IF p.op = "dkgPublic" THEN None ELSE Holder
            /\ IsOfCreation(data, session[slot], p.op = "importedKey", p.sign)
       ELSE p.op = "reEncrypt" /\ data.kind = "encrypted_share"

\* The network writes what a session made, a little before or after its answer.
Write(data) ==
    /\ data \notin chain
    /\ \E slot \in Slots : IsOutputOf(slot, data)
    /\ chain' = chain \cup {data}
    /\ UNCHANGED <<callVars, vouchers>>

Answers ==
    {Held(attestation, networkKey) : attestation \in Signed, networkKey \in NetworkKeys}
        \cup
    {SignatureOf(attestation.data.key, approval.message, approval.scheme) :
        attestation \in {a \in Signed : a.kind = "dwallet"},
        approval \in {ApprovalOf[voucher] : voucher \in DOMAIN ApprovalOf}}

Next ==
    \/ \E voucher \in DOMAIN ApprovalOf : IssueVoucher(voucher)
    \/ \E attestation \in Signed :
          attestation.signer \in TrustedNetworkKeys /\ Write(attestation.data)
    \/ \E slot \in Slots :
          \/ \E p \in Plans :
                \/ Create(slot, p) \/ RequestPresign(slot, p) \/ RequestSign(slot, p)
                \/ FutureSign(slot, p) \/ ChangeShare(slot, p)
          \/ SignTerms(slot) \/ Usable(slot) \/ PoolEmpty(slot) \/ ShareRead(slot)
          \/ \E answer \in Answers :
                \/ PresignAnswered(slot, answer) \/ Created(slot, answer)
                \/ SignatureAnswered(slot, answer) \/ FutureSignAnswered(slot, answer)
                \/ ShareChanged(slot, answer)
          \/ DeadlinePasses(slot) \/ WaitEnds(slot) \/ CallFails(slot)

Spec == Init /\ [][Next]_vars

\* Time passes, timers fire and reads are taken. That a submission and the
\* ownership check end is shown by RequestSubmission and assumed of the chain
\* reads; after the pool's deadline the next answer ends the call.
Fairness ==
    \A slot \in Slots :
        /\ WF_vars(DeadlinePasses(slot))
        /\ WF_vars(WaitEnds(slot)) /\ WF_vars(SignTerms(slot)) /\ WF_vars(ShareRead(slot))
        /\ WF_vars(CallFails(slot) /\ pc[slot] \in {"usable", "sent"})
        /\ WF_vars(CallFails(slot) /\ pc[slot] = "pool" /\ late[slot])

FairSpec == Spec /\ Fairness

-----------------------------------------------------------------------------
(* Properties.                                                             *)

\* What a call took from the network for itself: the attestation it returned, and
\* the presign it took for its own sign.
TakenBy(slot) ==
    {result[slot].attestation : r \in {r \in {result[slot]} :
        pc[slot] = "done" /\ r.kind = "attestation"}}
        \cup
    {presign[slot].attestation.attestation : r \in {r \in {presign[slot]} :
        r # NoPresign /\ plan[slot].presign = NoPresign}}

\* No two calls take the same attestation, whatever a validator answers with: no
\* presign is handed out twice, and no call returns the dWallet, the share or the
\* partial signature that another call asked for.
NoAnswerServesTwoCalls ==
    \A slot \in Slots : \A other \in Slots \ {slot} : TakenBy(slot) \cap TakenBy(other) = {}

\* A signature that a call returns verifies under the attested key of the dWallet
\* it was asked for, and is of the message and scheme that its voucher or its
\* partial signature approves, also when the caller mixed up what it passed.
SignaturesAreAsked ==
    \A slot \in Slots :
        pc[slot] = "done" /\ result[slot].kind = "signature" =>
            LET p == plan[slot]
                partial == p.partial.attestation.attestation.data
                approval == ApprovalOf[p.voucher]
            IN IF p.op = "sign"
               THEN /\ p.voucher \in vouchers
                    /\ result[slot] = SignatureOf(p.dwallet.attestation.data.key,
                                                  approval.message, approval.scheme)
               ELSE result[slot] =
                        SignatureOf(partial.digest.key, partial.message, partial.scheme)

\* A created dWallet whose share is encrypted is returned only once the chain holds
\* the very dWallet of the call's own session and contribution.
CreatedAreOnChain ==
    \A slot \in Slots :
        pc[slot] = "done" /\ plan[slot].op \in {"dkg", "importedKey"} =>
            \E dwallet \in chain :
                /\ dwallet = result[slot].attestation.data
                /\ dwallet.session = session[slot]
                /\ dwallet.output.contribution = session[slot]

\* Every call ends, although the voucher may never be issued, the pool may stay
\* empty and the share may never be written.
CallsEnd == \A slot \in Slots : pc[slot] \in Running ~> pc[slot] \in {"done", "failed"}

=============================================================================
