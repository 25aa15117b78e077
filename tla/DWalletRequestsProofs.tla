------------------------ MODULE DWalletRequestsProofs ------------------------
(***************************************************************************)
(* For any number of calls at once, any plans and anything the network ever*)
(* signed: no attestation serves two calls, a signature is the one asked   *)
(* for, and a created dWallet is on the chain when it is returned.         *)
(***************************************************************************)
EXTENDS DWalletRequests, TLAPS

OwnSessions(slot) == {SessionsOf[slot][n] : n \in 1 .. 3}

\* Which calls are at which step.
StepsInv(slot) ==
    LET op == plan[slot].op IN
    /\ pc[slot] = "idle" => plan[slot] = NoPlan /\ presign[slot] = NoPresign
    /\ pc[slot] = "voucher" => op \in Signing
    /\ pc[slot] = "usable" => op \in Signing \cup {"makePublic", "reEncrypt"}
    /\ pc[slot] = "pool" => op \in Signing \cup {"presign"}
    /\ pc[slot] = "share" => op \in Creating \cup {"receive"}
    /\ pc[slot] \in {"pool", "sent"} => session[slot] \in OwnSessions(slot)
    /\ op \in Creating => session[slot] \in OwnSessions(slot)

\* What a call took was made in a session of its own.
TakenInv(slot) ==
    /\ \/ presign[slot] = NoPresign
       \/ presign[slot] = plan[slot].presign
       \/ presign[slot].attestation.attestation.data.session \in OwnSessions(slot)
    /\ result[slot].kind = "attestation" =>
          /\ result[slot].attestation.data.session = session[slot]
          /\ session[slot] \in OwnSessions(slot)

\* What a sign was checked against: its voucher, and the output on the chain.
TermsInv(slot) ==
    LET p == plan[slot] IN
    /\ p.op \in Signing /\ pc[slot] \in {"usable", "pool", "sent", "done"} =>
          /\ p.voucher \in vouchers
          /\ p.message = ApprovalOf[p.voucher].message
          /\ scheme[slot] = ApprovalOf[p.voucher].scheme
    /\ p.op = "sign" /\ pc[slot] \in {"pool", "sent", "done"} =>
          p.dwallet.output.key = p.dwallet.attestation.data.key
    /\ p.op = "complete" => CompletionFits(p.partial, p.networkKey)

\* The dWallets on the chain are old ones or made by the calls' own sessions.
ChainInv ==
    \A dwallet \in chain :
        dwallet.kind = "dwallet" =>
            /\ dwallet \in Made
            /\ \/ dwallet \in Owned
               \/ \E slot \in Slots : plan[slot].op \in Creating /\ IsOutputOf(slot, dwallet)

\* A created dWallet is what the call's session makes, and on the chain when it is
\* returned (a public share's is returned at once).
CreatedInv(slot) ==
    LET op == plan[slot].op
        dwallet == result[slot].attestation.data
    IN /\ op \in Creating /\ pc[slot] \in {"share", "done"} =>
             /\ result[slot].kind = "attestation"
             /\ dwallet \in Made /\ IsOutputOf(slot, dwallet)
       /\ op \in Creating \ {"dkgPublic"} /\ pc[slot] = "done" => dwallet \in chain

\* A returned signature, as SignaturesAreAsked states it.
AskedInv(slot) ==
    pc[slot] = "done" /\ result[slot].kind = "signature" =>
        LET p == plan[slot]
            partial == p.partial.attestation.attestation.data
            approval == ApprovalOf[p.voucher]
        IN IF p.op = "sign"
           THEN /\ p.voucher \in vouchers
                /\ result[slot] = SignatureOf(p.dwallet.attestation.data.key,
                                              approval.message, approval.scheme)
           ELSE result[slot] =
                    SignatureOf(partial.digest.key, partial.message, partial.scheme)

SlotInv(slot) ==
    /\ StepsInv(slot)
    /\ TakenInv(slot)
    /\ TermsInv(slot)
    /\ CreatedInv(slot)
    /\ AskedInv(slot)

\* The inductive invariant.
IInv ==
    /\ TypeOK
    /\ ChainInv
    /\ \A slot \in Slots : SlotInv(slot)

-----------------------------------------------------------------------------
(* What a step may change.                                                 *)

\* The steps of one call.
SlotStep(slot) ==
    \/ \E p \in Plans :
          \/ Create(slot, p) \/ RequestPresign(slot, p) \/ RequestSign(slot, p)
          \/ FutureSign(slot, p) \/ ChangeShare(slot, p)
    \/ SignTerms(slot) \/ Usable(slot) \/ PoolEmpty(slot) \/ ShareRead(slot)
    \/ \E answer \in Answers :
          \/ PresignAnswered(slot, answer) \/ Created(slot, answer)
          \/ SignatureAnswered(slot, answer) \/ FutureSignAnswered(slot, answer)
          \/ ShareChanged(slot, answer)
    \/ DeadlinePasses(slot) \/ WaitEnds(slot) \/ CallFails(slot)

\* A step of a call leaves the chain, the vouchers and every other call alone.
LEMMA Frame ==
    ASSUME TypeOK, NEW slot \in Slots, SlotStep(slot)
    PROVE  /\ UNCHANGED <<chain, vouchers>>
           /\ \A other \in Slots \ {slot} :
                 /\ plan'[other] = plan[other] /\ pc'[other] = pc[other]
                 /\ session'[other] = session[other] /\ presign'[other] = presign[other]
                 /\ scheme'[other] = scheme[other] /\ result'[other] = result[other]
<1> USE DEF TypeOK, Starts, Goto, Open, Return, Throw
<1>1. ASSUME NEW p \in Plans,
             \/ Create(slot, p) \/ RequestPresign(slot, p) \/ RequestSign(slot, p)
             \/ FutureSign(slot, p) \/ ChangeShare(slot, p)
      PROVE  /\ UNCHANGED <<chain, vouchers>>
             /\ \A other \in Slots \ {slot} :
                 /\ plan'[other] = plan[other] /\ pc'[other] = pc[other]
                 /\ session'[other] = session[other] /\ presign'[other] = presign[other]
                 /\ scheme'[other] = scheme[other] /\ result'[other] = result[other]
  BY <1>1 DEF Create, RequestPresign, RequestSign, FutureSign, ChangeShare
<1>2. CASE SignTerms(slot) \/ Usable(slot) \/ PoolEmpty(slot)
  BY <1>2 DEF SignTerms, Usable, PoolEmpty
<1>3. CASE ShareRead(slot)
  BY <1>3 DEF ShareRead
<1>4. ASSUME NEW answer \in Answers,
             \/ PresignAnswered(slot, answer) \/ Created(slot, answer)
             \/ SignatureAnswered(slot, answer) \/ FutureSignAnswered(slot, answer)
             \/ ShareChanged(slot, answer)
      PROVE  /\ UNCHANGED <<chain, vouchers>>
             /\ \A other \in Slots \ {slot} :
                 /\ plan'[other] = plan[other] /\ pc'[other] = pc[other]
                 /\ session'[other] = session[other] /\ presign'[other] = presign[other]
                 /\ scheme'[other] = scheme[other] /\ result'[other] = result[other]
  BY <1>4 DEF PresignAnswered, Created, SignatureAnswered, FutureSignAnswered, ShareChanged
<1>5. CASE DeadlinePasses(slot) \/ WaitEnds(slot) \/ CallFails(slot)
  BY <1>5 DEF DeadlinePasses, WaitEnds, CallFails
<1> QED
  BY <1>1, <1>2, <1>3, <1>4, <1>5 DEF SlotStep

\* The chain and the vouchers only grow, and a call that does not move keeps what
\* holds of it.
LEMMA StillHolds ==
    ASSUME NEW slot \in Slots, SlotInv(slot), chain \subseteq chain', vouchers \subseteq vouchers',
           UNCHANGED <<plan[slot], pc[slot], session[slot], presign[slot], scheme[slot],
                       result[slot]>>
    PROVE  SlotInv(slot)'
<1> USE DEF SlotInv
<1>1. StepsInv(slot)' /\ TakenInv(slot)'
  BY DEF StepsInv, TakenInv, OwnSessions
<1>2. TermsInv(slot)'
  BY DEF TermsInv
<1>3. \A data : IsOutputOf(slot, data)' <=> IsOutputOf(slot, data)
  BY DEF IsOutputOf
<1>4. CreatedInv(slot)'
  BY <1>3 DEF CreatedInv
<1>5. AskedInv(slot)'
  BY DEF AskedInv
<1> QED
  BY <1>1, <1>2, <1>4, <1>5

-----------------------------------------------------------------------------
(* The steps of a call, each against what holds of it.                     *)

\* verifyAndDecode takes only attestations that a trusted key signed as that kind.
LEMMA Verified ==
    ASSUME NEW attestation, NEW kind, VerifyAndDecode(RecordOf(attestation), kind)
    PROVE  /\ attestation \in Signed /\ attestation.signer \in TrustedNetworkKeys
           /\ attestation.data.kind = kind
BY DEF VerifyAndDecode, RecordOf, DecodesAs

\* A call starts with its plan and nothing else.
LEMMA StartKeeps ==
    ASSUME IInv, NEW slot \in Slots, NEW p \in Plans,
           \/ Create(slot, p) \/ RequestPresign(slot, p) \/ RequestSign(slot, p)
           \/ FutureSign(slot, p) \/ ChangeShare(slot, p)
    PROVE  SlotInv(slot)'
<1>0. TypeOK /\ StepsInv(slot)
  BY DEF IInv, SlotInv
<1>1. /\ pc[slot] = "idle" /\ plan'[slot] = p
      /\ UNCHANGED <<result, chain, vouchers, scheme>>
  BY <1>0 DEF Create, RequestPresign, RequestSign, FutureSign, ChangeShare, Starts, TypeOK
<1>2. result[slot] = NoResult /\ presign[slot] = NoPresign
  BY <1>0, <1>1 DEF TypeOK, Answered, StepsInv
<1>3. result'[slot].kind \notin {"attestation", "signature"}
  BY <1>1, <1>2 DEF NoResult, None
<1>s. \A n \in 1 .. 3 : SessionsOf[slot][n] \in OwnSessions(slot)
  BY DEF OwnSessions
<1>4. StepsInv(slot)' /\ TakenInv(slot)'
  <2>1. CASE Create(slot, p) \/ RequestPresign(slot, p) \/ FutureSign(slot, p)
    <3>1. /\ pc'[slot] \in {"sent", "pool"} /\ UNCHANGED presign
          /\ \E n \in 1 .. 3 : session'[slot] = SessionsOf[slot][n]
          /\ pc'[slot] = "pool" => p.op = "presign"
      BY <2>1, <1>0 DEF Create, RequestPresign, FutureSign, Open, Goto, TypeOK
    <3> QED
      BY <1>1, <1>2, <1>3, <1>s, <3>1 DEF StepsInv, TakenInv, OwnSessions
  <2>2. CASE RequestSign(slot, p)
    <3>1. pc'[slot] = "voucher" /\ presign'[slot] = p.presign /\ p.op \in Signing
      BY <2>2, <1>0 DEF RequestSign, Goto, TypeOK
    <3> QED
      BY <1>1, <1>3, <3>1 DEF StepsInv, TakenInv, Signing, Creating
  <2>3. CASE ChangeShare(slot, p)
    <3>1. /\ p.op \in {"makePublic", "reEncrypt", "receive"} /\ UNCHANGED presign
          /\ pc'[slot] = IF p.op = "receive" THEN "share" ELSE "usable"
      BY <2>3, <1>0 DEF ChangeShare, Goto, TypeOK
    <3> QED
      BY <1>1, <1>2, <1>3, <3>1 DEF StepsInv, TakenInv, Signing, Creating
  <2> QED
    BY <2>1, <2>2, <2>3
<1>5. TermsInv(slot)' /\ CreatedInv(slot)' /\ AskedInv(slot)'
  <2>1. /\ pc'[slot] \notin {"done"}
        /\ p.op \in Signing => pc'[slot] = "voucher"
        /\ p.op \in Creating => pc'[slot] = "sent"
        /\ p.op = "complete" => CompletionFits(p.partial, p.networkKey)
    BY <1>0 DEF Create, RequestPresign, RequestSign, FutureSign, ChangeShare, Open, Goto,
                TypeOK, Signing, Creating
  <2> QED
    BY <1>1, <2>1 DEF TermsInv, CreatedInv, AskedInv, Signing
<1> QED
  BY <1>4, <1>5 DEF SlotInv

\* A call that throws holds nothing.
LEMMA ThrowKeeps ==
    ASSUME IInv, NEW slot \in Slots, Throw(slot), pc[slot] # "idle"
    PROVE  SlotInv(slot)'
<1>0. TypeOK /\ SlotInv(slot)
  BY DEF IInv
<1>1. /\ pc'[slot] = "failed" /\ result'[slot] = NoResult
      /\ UNCHANGED <<plan, session, presign, scheme, chain, vouchers>>
  BY <1>0 DEF Throw, Goto, TypeOK
<1>2. result'[slot].kind # "attestation"
  BY <1>1 DEF NoResult, None
<1> QED
  BY <1>0, <1>1, <1>2 DEF SlotInv, StepsInv, TakenInv, TermsInv, CreatedInv, AskedInv,
                          OwnSessions

\* The signature that a call was asked for.
AskedSignature(slot, value) ==
    LET p == plan[slot]
        partial == p.partial.attestation.attestation.data
        approval == ApprovalOf[p.voucher]
    IN IF p.op = "sign"
       THEN /\ p.voucher \in vouchers
            /\ value = SignatureOf(p.dwallet.attestation.data.key,
                                   approval.message, approval.scheme)
       ELSE value = SignatureOf(partial.digest.key, partial.message, partial.scheme)

\* A call returns a value that fits its session and its plan.
LEMMA ReturnKeeps ==
    ASSUME IInv, NEW slot \in Slots, NEW value, Return(slot, value),
           pc[slot] \in {"pool", "sent", "share"},
           value.kind = "attestation" =>
              /\ value.attestation.data.session = session[slot]
              /\ session[slot] \in OwnSessions(slot),
           value.kind = "signature" => AskedSignature(slot, value),
           plan[slot].op \in Creating =>
              /\ value.kind = "attestation"
              /\ value.attestation.data \in Made
              /\ IsOutputOf(slot, value.attestation.data),
           plan[slot].op \in Creating \ {"dkgPublic"} => value.attestation.data \in chain
    PROVE  SlotInv(slot)'
<1>0. TypeOK /\ SlotInv(slot)
  BY DEF IInv
<1>1. /\ pc'[slot] = "done" /\ result'[slot] = value
      /\ UNCHANGED <<plan, session, presign, scheme, chain, vouchers>>
  BY <1>0 DEF Return, Goto, TypeOK
<1>2. StepsInv(slot)' /\ TakenInv(slot)'
  BY <1>0, <1>1 DEF SlotInv, StepsInv, TakenInv, OwnSessions
<1>3. TermsInv(slot)'
  <2>1. plan[slot].op \in Signing => pc[slot] \in {"pool", "sent"}
    BY <1>0 DEF SlotInv, StepsInv, Signing, Creating
  <2> QED
    BY <1>0, <1>1, <2>1 DEF SlotInv, TermsInv, Signing
<1>4. CreatedInv(slot)'
  <2>1. \A data : IsOutputOf(slot, data)' <=> IsOutputOf(slot, data)
    BY <1>1 DEF IsOutputOf
  <2> QED
    BY <1>1, <2>1 DEF CreatedInv
<1>5. AskedInv(slot)'
  BY <1>1 DEF AskedInv, AskedSignature
<1> QED
  BY <1>2, <1>3, <1>4, <1>5 DEF SlotInv

\* #signTerms: the voucher is for what the call signs.
LEMMA SignTermsKeeps ==
    ASSUME IInv, NEW slot \in Slots, SignTerms(slot)
    PROVE  SlotInv(slot)'
<1>0. TypeOK /\ SlotInv(slot) /\ pc[slot] = "voucher"
  BY DEF IInv, SignTerms
<1>1. CASE ApprovalFits(plan[slot], ApprovalOf[plan[slot].voucher])
  <2>1. /\ pc'[slot] = "usable" /\ scheme'[slot] = ApprovalOf[plan[slot].voucher].scheme
        /\ UNCHANGED <<plan, session, presign, result, chain, vouchers>>
    BY <1>0, <1>1 DEF SignTerms, Goto, TypeOK
  <2>2. plan[slot].voucher \in vouchers /\ plan[slot].op \in Signing
    BY <1>0 DEF SignTerms, SlotInv, StepsInv
  <2> QED
    BY <1>0, <1>1, <2>1, <2>2 DEF ApprovalFits, SlotInv, StepsInv, TakenInv, TermsInv,
       CreatedInv, AskedInv, OwnSessions, Signing, Creating
<1>2. CASE ~ApprovalFits(plan[slot], ApprovalOf[plan[slot].voucher])
  BY <1>0, <1>2, ThrowKeeps DEF SignTerms
<1> QED
  BY <1>1, <1>2

\* The ownership check: the output the caller holds is the checked one, so its key is
\* the attested key.
LEMMA UsableKeeps ==
    ASSUME IInv, NEW slot \in Slots, Usable(slot)
    PROVE  SlotInv(slot)'
<1>0. TypeOK /\ SlotInv(slot) /\ pc[slot] = "usable" /\ ChainInv
  BY DEF IInv, Usable
<1>1. plan[slot].dwallet.output.key = plan[slot].dwallet.attestation.data.key
  BY <1>0, NetworkMakesKeysOnce DEF Usable, ChainInv
<1>2. /\ pc'[slot] \in {"pool", "sent"}
      /\ \E n \in 1 .. 3 : session'[slot] = SessionsOf[slot][n]
      /\ pc'[slot] = "pool" => plan[slot].op \in Signing
      /\ UNCHANGED <<plan, presign, scheme, result, chain, vouchers>>
  BY <1>0 DEF Usable, Open, Goto, TypeOK
<1>3. plan[slot].op \in Signing \cup {"makePublic", "reEncrypt"}
  BY <1>0 DEF SlotInv, StepsInv
<1>4. result[slot].kind # "attestation"
  BY <1>0 DEF TypeOK, Answered, NoResult, None
<1>5. StepsInv(slot)' /\ TakenInv(slot)'
  BY <1>0, <1>2, <1>3, <1>4 DEF SlotInv, StepsInv, TakenInv, OwnSessions, Signing, Creating
<1>6. TermsInv(slot)'
  BY <1>0, <1>1, <1>2, <1>3 DEF SlotInv, TermsInv, Signing
<1>7. CreatedInv(slot)' /\ AskedInv(slot)'
  BY <1>2, <1>3 DEF CreatedInv, AskedInv, Signing, Creating
<1> QED
  BY <1>5, <1>6, <1>7 DEF SlotInv

\* Another presign is asked for under another session of the call.
LEMMA PoolEmptyKeeps ==
    ASSUME IInv, NEW slot \in Slots, PoolEmpty(slot)
    PROVE  SlotInv(slot)'
<1>0. TypeOK /\ SlotInv(slot) /\ pc[slot] = "pool"
  BY DEF IInv, PoolEmpty
<1>1. /\ session'[slot] \in OwnSessions(slot)
      /\ UNCHANGED <<plan, pc, presign, scheme, result, chain, vouchers>>
  BY <1>0 DEF PoolEmpty, OwnSessions, TypeOK
<1>2. result[slot].kind # "attestation"
  BY <1>0 DEF TypeOK, Answered, NoResult, None
<1>3. plan[slot].op \notin Creating
  BY <1>0 DEF SlotInv, StepsInv, Signing, Creating
<1> QED
  BY <1>0, <1>1, <1>2, <1>3 DEF SlotInv, StepsInv, TakenInv, TermsInv, CreatedInv, AskedInv,
     OwnSessions, Signing, Creating

\* A presign is taken only when it was made in the session that asked for it.
LEMMA PresignKeeps ==
    ASSUME IInv, NEW slot \in Slots, NEW answer \in Answers, PresignAnswered(slot, answer)
    PROVE  SlotInv(slot)'
<1>0. TypeOK /\ SlotInv(slot) /\ pc[slot] = "pool"
  BY DEF IInv, PresignAnswered
<1>1. session[slot] \in OwnSessions(slot) /\ plan[slot].op \in Signing \cup {"presign"}
  BY <1>0 DEF SlotInv, StepsInv
<1>2. answer.kind = "attestation" /\ answer.attestation.data.session = session[slot]
  BY DEF PresignAnswered, VerifyPresignAnswer, AttestationOfAnswer
<1>3. CASE plan[slot].op = "presign"
  <2>1. Return(slot, answer)
    BY <1>3 DEF PresignAnswered
  <2> QED
    BY <1>0, <1>1, <1>2, <1>3, <2>1, ReturnKeeps DEF Creating
<1>4. CASE plan[slot].op # "presign"
  <2>1. /\ presign'[slot] = [reference |-> answer.attestation.data.reference,
                             attestation |-> answer]
        /\ pc'[slot] = "sent" /\ session'[slot] = SessionsOf[slot][3]
        /\ UNCHANGED <<plan, scheme, result, chain, vouchers>>
    BY <1>0, <1>4 DEF PresignAnswered, Open, Goto, TypeOK
  <2>2. presign'[slot].attestation.attestation.data.session \in OwnSessions(slot)
    BY <1>1, <1>2, <2>1
  <2>3. result[slot].kind # "attestation" /\ SessionsOf[slot][3] \in OwnSessions(slot)
    BY <1>0 DEF TypeOK, Answered, NoResult, None, OwnSessions
  <2>4. StepsInv(slot)' /\ TakenInv(slot)'
    BY <1>1, <1>4, <2>1, <2>2, <2>3 DEF StepsInv, TakenInv, OwnSessions, Signing, Creating
  <2>5. TermsInv(slot)' /\ CreatedInv(slot)' /\ AskedInv(slot)'
    BY <1>0, <1>1, <1>4, <2>1 DEF SlotInv, TermsInv, CreatedInv, AskedInv, Signing, Creating
  <2> QED
    BY <2>4, <2>5 DEF SlotInv
<1> QED
  BY <1>3, <1>4

\* A created dWallet is the one that the call's session makes.
LEMMA CreatedKeeps ==
    ASSUME IInv, NEW slot \in Slots, NEW answer \in Answers, Created(slot, answer)
    PROVE  SlotInv(slot)'
<1>0. TypeOK /\ SlotInv(slot) /\ pc[slot] = "sent"
  BY DEF IInv, Created
<1> DEFINE p == plan[slot]
           d == answer.attestation.data
<1>1. p.op \in Creating /\ session[slot] \in OwnSessions(slot)
  BY <1>0 DEF Created, SlotInv, StepsInv, Creating
<1>2. /\ answer.kind = "attestation"
      /\ VerifyAndDecode(RecordOf(answer.attestation), "dwallet")
      /\ IsOfCreation(d, session[slot], p.op = "importedKey", p.sign)
      /\ d.holder = IF p.op = "dkgPublic" THEN None ELSE Holder
  <2>1. CASE p.op = "dkgPublic"
    BY <2>1 DEF Created, VerifyPublicShareDkgAnswer, AttestationOfAnswer
  <2>2. CASE p.op # "dkgPublic"
    BY <2>2 DEF Created, AcceptanceSigned, ExpectAttestation, AttestationOfAnswer
  <2> QED
    BY <2>1, <2>2
<1>3. /\ answer.attestation \in Signed /\ answer.attestation.signer \in TrustedNetworkKeys
      /\ d.kind = "dwallet"
  BY <1>2, Verified
<1>4. d \in Made
  BY <1>3 DEF Made
<1>5. d.session = session[slot] /\ IsOutputOf(slot, d)
  BY <1>1, <1>2, <1>3 DEF IsOutputOf, IsOfCreation
<1>6. CASE p.op = "dkgPublic"
  <2>1. Return(slot, answer)
    BY <1>6 DEF Created
  <2> QED
    BY <1>0, <1>1, <1>2, <1>4, <1>5, <1>6, <2>1, ReturnKeeps DEF Creating
<1>7. CASE p.op # "dkgPublic"
  <2>1. /\ pc'[slot] = "share" /\ result'[slot] = answer
        /\ UNCHANGED <<plan, session, presign, scheme, chain, vouchers>>
    BY <1>0, <1>7 DEF Created, Goto, TypeOK
  <2>2. StepsInv(slot)' /\ TakenInv(slot)'
    BY <1>0, <1>1, <1>5, <2>1 DEF SlotInv, StepsInv, TakenInv, OwnSessions
  <2>3. TermsInv(slot)' /\ AskedInv(slot)'
    BY <1>0, <1>1, <2>1 DEF SlotInv, TermsInv, AskedInv, Signing, Creating
  <2>4. \A data : IsOutputOf(slot, data)' <=> IsOutputOf(slot, data)
    BY <2>1 DEF IsOutputOf
  <2>5. CreatedInv(slot)'
    BY <1>2, <1>4, <1>5, <2>1, <2>4 DEF CreatedInv
  <2> QED
    BY <2>2, <2>3, <2>5 DEF SlotInv
<1> QED
  BY <1>6, <1>7

\* A signature is returned when it verifies under the output that was checked, whose
\* key is the attested one, for the message and scheme that were approved.
LEMMA SignatureKeeps ==
    ASSUME IInv, NEW slot \in Slots, NEW answer \in Answers, SignatureAnswered(slot, answer)
    PROVE  SlotInv(slot)'
<1>0. TypeOK /\ SlotInv(slot) /\ pc[slot] = "sent" /\ Return(slot, answer)
  BY DEF IInv, SignatureAnswered
<1> DEFINE p == plan[slot]
<1>1. answer.kind = "signature" /\ p.op \notin Creating
  BY DEF SignatureAnswered, SignatureVerifies, Creating
<1>2. CASE p.op = "sign"
  <2>1. answer = SignatureOf(p.dwallet.output.key, p.message, scheme[slot])
    BY <1>2 DEF SignatureAnswered, SignatureVerifies
  <2>2. /\ p.voucher \in vouchers /\ p.message = ApprovalOf[p.voucher].message
        /\ scheme[slot] = ApprovalOf[p.voucher].scheme
        /\ p.dwallet.output.key = p.dwallet.attestation.data.key
    BY <1>0, <1>2 DEF SlotInv, TermsInv, Signing
  <2>3. AskedSignature(slot, answer)
    BY <1>2, <2>1, <2>2 DEF AskedSignature
  <2> QED
    BY <1>0, <1>1, <2>3, ReturnKeeps
<1>3. CASE p.op = "complete"
  <2> DEFINE data == p.partial.attestation.attestation.data
             dwallet == p.partial.dwallet.attestation.data
  <2>1. answer = SignatureOf(dwallet.output.key, p.partial.message, data.scheme)
    BY <1>3 DEF SignatureAnswered, SignatureVerifies
  <2>2. CompletionFits(p.partial, p.networkKey)
    BY <1>0, <1>3 DEF SlotInv, TermsInv
  <2>3. /\ VerifyAndDecode(RecordOf(p.partial.dwallet.attestation), "dwallet")
        /\ data.digest = dwallet /\ data.message = p.partial.message
    BY <2>2 DEF CompletionFits, ExpectAttestation
  <2>4. dwallet \in Made
    BY <2>3, Verified DEF Made
  <2>5. dwallet.output.key = data.digest.key
    BY <2>3, <2>4, NetworkMakesKeysOnce
  <2>6. AskedSignature(slot, answer)
    BY <1>3, <2>1, <2>3, <2>5 DEF AskedSignature
  <2> QED
    BY <1>0, <1>1, <2>6, ReturnKeeps
<1> QED
  BY <1>2, <1>3 DEF SignatureAnswered

\* A partial signature or a changed share is of the session that asked for it.
LEMMA SessionAnswerKeeps ==
    ASSUME IInv, NEW slot \in Slots, NEW answer \in Answers,
           FutureSignAnswered(slot, answer) \/ ShareChanged(slot, answer)
    PROVE  SlotInv(slot)'
<1>0. TypeOK /\ SlotInv(slot) /\ pc[slot] = "sent" /\ Return(slot, answer)
  BY DEF IInv, FutureSignAnswered, ShareChanged
<1>1. session[slot] \in OwnSessions(slot)
  BY <1>0 DEF SlotInv, StepsInv
<1>2. /\ answer.kind = "attestation" /\ answer.attestation.data.session = session[slot]
      /\ plan[slot].op \notin Creating
  BY DEF FutureSignAnswered, VerifyFutureSignAnswer, ShareChanged, AttestationOfAnswer,
         VerifyMakeSharePublicAnswer, VerifyReEncryptShareAnswer, Creating
<1> QED
  BY <1>0, <1>1, <1>2, ReturnKeeps

\* The lookup of the new share names a key, and the network makes a key once: what
\* the chain shows under it is the very dWallet of the answer.
LEMMA AwaitedIsOwn ==
    ASSUME IInv, NEW slot \in Slots, plan[slot].op \in Creating, pc[slot] = "share",
           ShareIsOnChain(Awaited(slot), Holder)
    PROVE  result[slot].attestation.data \in chain
<1> DEFINE mine == result[slot].attestation.data
<1>0. SlotInv(slot) /\ ChainInv /\ Awaited(slot) = AskedOf(mine)
  BY DEF IInv, Awaited, Creating
<1>1. mine \in Made /\ IsOutputOf(slot, mine) /\ session[slot] \in OwnSessions(slot)
  BY <1>0 DEF SlotInv, CreatedInv, StepsInv
<1>2. PICK d \in chain : d.kind = "dwallet" /\ AskedOf(d) = AskedOf(mine)
  BY <1>0 DEF ShareIsOnChain
<1>3. d \in Made /\ d.session = mine.session
  BY <1>0, <1>1, <1>2, NetworkMakesKeysOnce DEF ChainInv
<1>4. mine.session = session[slot]
  BY <1>1 DEF IsOutputOf
<1>5. d \notin Owned
  BY <1>1, <1>3, <1>4, SessionsAreFresh DEF OwnSessions
<1>6. PICK other \in Slots : plan[other].op \in Creating /\ IsOutputOf(other, d)
  BY <1>0, <1>2, <1>5 DEF ChainInv
<1>7. session[other] \in OwnSessions(other) /\ d.session = session[other]
  BY <1>6 DEF IInv, SlotInv, StepsInv, IsOutputOf
<1>8. other = slot
  BY <1>1, <1>3, <1>4, <1>7, SessionsAreFresh DEF OwnSessions
<1>9. /\ d.imported = mine.imported /\ d.holder = mine.holder
  BY <1>1, <1>6, <1>8 DEF IsOutputOf, IsOfCreation
<1>10. d.key = mine.key
  BY <1>2 DEF AskedOf
<1>11. d.signature = mine.signature
  BY <1>1, <1>6, <1>8, <1>10 DEF IsOutputOf, IsOfCreation
<1> QED
  BY <1>1, <1>2, <1>3, <1>9, <1>11, NetworkMakesKeysOnce

\* The share is read: a created dWallet is returned, a received share is accepted.
LEMMA ShareReadKeeps ==
    ASSUME IInv, NEW slot \in Slots, ShareRead(slot)
    PROVE  SlotInv(slot)'
<1>0. SlotInv(slot) /\ pc[slot] = "share" /\ ShareIsOnChain(Awaited(slot), Holder)
  BY DEF IInv, ShareRead
<1>1. CASE plan[slot].op \in Creating
  <2>1. Return(slot, result[slot])
    BY <1>1 DEF ShareRead
  <2>2. result[slot].attestation.data \in chain
    BY <1>0, <1>1, AwaitedIsOwn
  <2>3. /\ result[slot].attestation.data \in Made
        /\ IsOutputOf(slot, result[slot].attestation.data)
        /\ result[slot].kind = "attestation"
    BY <1>0, <1>1 DEF SlotInv, CreatedInv
  <2>4. PICK value : value = result[slot]
    OBVIOUS
  <2>5. /\ Return(slot, value)
        /\ value.kind = "attestation" =>
              /\ value.attestation.data.session = session[slot]
              /\ session[slot] \in OwnSessions(slot)
        /\ value.kind # "signature"
    BY <1>0, <2>1, <2>3, <2>4 DEF SlotInv, TakenInv
  <2> QED
    BY <1>0, <1>1, <2>2, <2>3, <2>4, <2>5, ReturnKeeps
<1>2. CASE plan[slot].op \notin Creating
  <2>1. \/ Return(slot, [kind |-> "received", share |-> plan[slot].share])
        \/ Throw(slot)
    BY <1>2 DEF ShareRead
  <2>2. CASE Throw(slot)
    BY <1>0, <2>2, ThrowKeeps
  <2>3. CASE Return(slot, [kind |-> "received", share |-> plan[slot].share])
    <3>1. PICK value : value = [kind |-> "received", share |-> plan[slot].share]
      OBVIOUS
    <3>2. Return(slot, value) /\ value.kind \notin {"attestation", "signature"}
      BY <2>3, <3>1
    <3> QED
      BY <1>0, <1>2, <3>2, ReturnKeeps
  <2> QED
    BY <2>1, <2>2, <2>3
<1> QED
  BY <1>1, <1>2

-----------------------------------------------------------------------------
(* The types and the chain.                                                *)

\* Only what a call has yet to do can change its plan or its session: a call that
\* creates keeps both to its end.
LEMMA CreatingStays ==
    ASSUME IInv, NEW slot \in Slots, SlotStep(slot), plan[slot].op \in Creating
    PROVE  plan'[slot] = plan[slot] /\ session'[slot] = session[slot]
<1>0. TypeOK /\ StepsInv(slot)
  BY DEF IInv, SlotInv
<1>1. pc[slot] \notin {"idle", "voucher", "usable", "pool"}
  BY <1>0 DEF StepsInv, NoPlan, None, Creating, Signing
<1>2. ~\E p \in Plans :
          \/ Create(slot, p) \/ RequestPresign(slot, p) \/ RequestSign(slot, p)
          \/ FutureSign(slot, p) \/ ChangeShare(slot, p)
  BY <1>1 DEF Create, RequestPresign, RequestSign, FutureSign, ChangeShare, Starts
<1>3. ~(SignTerms(slot) \/ Usable(slot) \/ PoolEmpty(slot))
      /\ ~\E answer \in Answers : PresignAnswered(slot, answer)
  BY <1>1 DEF SignTerms, Usable, PoolEmpty, PresignAnswered
<1>4. ASSUME NEW answer \in Answers,
             \/ Created(slot, answer) \/ SignatureAnswered(slot, answer)
             \/ FutureSignAnswered(slot, answer) \/ ShareChanged(slot, answer)
      PROVE  UNCHANGED <<plan, session>>
  BY <1>4 DEF Created, SignatureAnswered, FutureSignAnswered, ShareChanged, Return
<1>5. ASSUME \/ ShareRead(slot) \/ DeadlinePasses(slot) \/ WaitEnds(slot)
             \/ CallFails(slot)
      PROVE  UNCHANGED <<plan, session>>
  BY <1>5 DEF ShareRead, DeadlinePasses, WaitEnds, CallFails, Return, Throw
<1> QED
  BY <1>2, <1>3, <1>4, <1>5 DEF SlotStep

\* A dWallet that some call's session made stays one.
LEMMA ChainStays ==
    ASSUME IInv, UNCHANGED chain,
           \A slot \in Slots : plan[slot].op \in Creating =>
              plan'[slot] = plan[slot] /\ session'[slot] = session[slot]
    PROVE  ChainInv'
<1>1. ASSUME NEW slot \in Slots, NEW data, plan[slot].op \in Creating, IsOutputOf(slot, data)
      PROVE  plan'[slot].op \in Creating /\ IsOutputOf(slot, data)'
  BY <1>1 DEF IsOutputOf
<1> QED
  BY <1>1 DEF IInv, ChainInv

\* The network writes what it attested for a session of a call.
LEMMA WriteKeepsChain ==
    ASSUME IInv, NEW attestation \in Signed, attestation.signer \in TrustedNetworkKeys,
           Write(attestation.data)
    PROVE  ChainInv'
<1> DEFINE d == attestation.data
<1>1. UNCHANGED <<plan, session>> /\ chain' = chain \cup {d}
  BY DEF Write, callVars
<1>2. \A slot \in Slots : \A data : IsOutputOf(slot, data)' <=> IsOutputOf(slot, data)
  BY <1>1 DEF IsOutputOf
<1>3. PICK slot \in Slots : IsOutputOf(slot, d)
  BY DEF Write
<1>4. d.kind = "dwallet" => d \in Made /\ plan[slot].op \in Creating
  BY <1>3 DEF Made, IsOutputOf
<1> QED
  BY <1>1, <1>2, <1>3, <1>4 DEF IInv, ChainInv

\* What a step of a call does keeps the types.
LEMMA TypesStay ==
    ASSUME IInv, NEW slot \in Slots, SlotStep(slot)
    PROVE  TypeOK'
<1>0. TypeOK /\ SlotInv(slot)
  BY DEF IInv
<1>1. /\ UNCHANGED <<chain, vouchers>>
      /\ \A other \in Slots \ {slot} :
            /\ plan'[other] = plan[other] /\ pc'[other] = pc[other]
            /\ session'[other] = session[other] /\ scheme'[other] = scheme[other]
            /\ result'[other] = result[other]
  BY <1>0, Frame
<1> DEFINE OwnTypes ==
      /\ plan' \in [Slots -> Plans \cup {NoPlan}]
      /\ pc' \in [Slots -> Running \cup {"idle", "done", "failed"}]
      /\ late' \in [Slots -> BOOLEAN]
      /\ DOMAIN session' = Slots /\ DOMAIN presign' = Slots
      /\ DOMAIN scheme' = Slots /\ DOMAIN result' = Slots
      /\ session'[slot] \in {None} \cup {SessionsOf[slot][n] : n \in 1 .. 3}
      /\ scheme'[slot] \in {None} \cup DOMAIN AlgorithmOf
      /\ result'[slot] = NoResult <=> ~Answered(slot)'
<1> SUFFICES OwnTypes
  BY <1>0, <1>1 DEF TypeOK, Answered
<1>t. /\ plan \in [Slots -> Plans \cup {NoPlan}]
      /\ pc \in [Slots -> Running \cup {"idle", "done", "failed"}]
      /\ late \in [Slots -> BOOLEAN]
      /\ DOMAIN session = Slots /\ DOMAIN presign = Slots
      /\ DOMAIN scheme = Slots /\ DOMAIN result = Slots
      /\ session[slot] \in {None} \cup {SessionsOf[slot][n] : n \in 1 .. 3}
      /\ scheme[slot] \in {None} \cup DOMAIN AlgorithmOf
      /\ result[slot] = NoResult <=> ~Answered(slot)
  BY <1>0 DEF TypeOK
<1>s. /\ SessionsOf[slot][1] \in {None} \cup {SessionsOf[slot][n] : n \in 1 .. 3}
      /\ SessionsOf[slot][2] \in {None} \cup {SessionsOf[slot][n] : n \in 1 .. 3}
      /\ SessionsOf[slot][3] \in {None} \cup {SessionsOf[slot][n] : n \in 1 .. 3}
  OBVIOUS
<1>o. ASSUME NEW step \in Running, NEW n \in 1 .. 3, Open(slot, step, n)
      PROVE  /\ pc' \in [Slots -> Running \cup {"idle", "done", "failed"}]
             /\ late' \in [Slots -> BOOLEAN] /\ DOMAIN session' = Slots
             /\ session'[slot] \in {None} \cup {SessionsOf[slot][m] : m \in 1 .. 3}
             /\ pc'[slot] = step
  BY <1>o, <1>t DEF Open, Goto
<1>2. ASSUME NEW p \in Plans,
             \/ Create(slot, p) \/ RequestPresign(slot, p) \/ RequestSign(slot, p)
             \/ FutureSign(slot, p) \/ ChangeShare(slot, p)
      PROVE  OwnTypes
  <2>1. /\ pc'[slot] \in {"sent", "pool", "voucher", "share", "usable"}
        /\ pc'[slot] = "share" => p.op \notin Creating
        /\ pc[slot] = "idle" /\ plan'[slot] = p
        /\ UNCHANGED <<scheme, result>>
    BY <1>2, <1>t DEF Create, RequestPresign, RequestSign, FutureSign, ChangeShare, Starts,
                      Open, Goto, Creating
  <2>2. result'[slot] = NoResult /\ ~Answered(slot)'
    BY <1>t, <2>1 DEF Answered
  <2>3. /\ plan' \in [Slots -> Plans \cup {NoPlan}]
        /\ pc' \in [Slots -> Running \cup {"idle", "done", "failed"}]
        /\ late' \in [Slots -> BOOLEAN]
        /\ DOMAIN session' = Slots /\ DOMAIN presign' = Slots
        /\ session'[slot] \in {None} \cup {SessionsOf[slot][n] : n \in 1 .. 3}
    <3>1. CASE Create(slot, p) \/ RequestPresign(slot, p) \/ FutureSign(slot, p)
      <4>1. /\ Open(slot, "sent", 3) \/ Open(slot, "pool", 1)
            /\ UNCHANGED presign /\ plan' = [plan EXCEPT ![slot] = p]
        BY <3>1 DEF Create, RequestPresign, FutureSign, Starts
      <4> QED
        BY <1>o, <1>t, <4>1 DEF Running, Waits
    <3>2. CASE RequestSign(slot, p) \/ ChangeShare(slot, p)
      <4>1. /\ \E step \in {"voucher", "share", "usable"} : Goto(slot, step)
            /\ \/ UNCHANGED presign
               \/ presign' = [presign EXCEPT ![slot] = p.presign]
            /\ UNCHANGED session /\ plan' = [plan EXCEPT ![slot] = p]
        BY <3>2 DEF RequestSign, ChangeShare, Starts
      <4>2. /\ pc' \in [Slots -> Running \cup {"idle", "done", "failed"}]
            /\ late' \in [Slots -> BOOLEAN]
        BY <1>t, <4>1 DEF Goto, Running, Waits
      <4> QED
        BY <1>t, <4>1, <4>2
    <3> QED
      BY <1>2, <3>1, <3>2
  <2> QED
    BY <1>t, <2>1, <2>2, <2>3
<1>3. ASSUME NEW value, Return(slot, value), value # NoResult PROVE OwnTypes
  BY <1>3, <1>t DEF Return, Goto, Answered, Running
<1>4. ASSUME Throw(slot) PROVE OwnTypes
  BY <1>4, <1>t DEF Throw, Goto, Answered, Running
<1>5. CASE SignTerms(slot)
  <2>1. ApprovalFits(plan[slot], ApprovalOf[plan[slot].voucher]) => OwnTypes
    BY <1>t, <1>5 DEF SignTerms, Goto, Answered, Running, Waits, ApprovalFits, Schemes
  <2> QED
    BY <1>4, <1>5, <2>1 DEF SignTerms
<1>6. CASE Usable(slot) \/ PoolEmpty(slot) \/ DeadlinePasses(slot)
  <2>1. CASE Usable(slot)
    <3>1. /\ Open(slot, "pool", 1) \/ Open(slot, "sent", 3)
          /\ pc[slot] = "usable" /\ UNCHANGED <<plan, presign, scheme, result>>
      BY <2>1 DEF Usable
    <3>2. pc'[slot] \in {"pool", "sent"}
      BY <1>t, <3>1 DEF Open, Goto
    <3> QED
      BY <1>o, <1>t, <3>1, <3>2 DEF Answered, Running, Waits
  <2>2. CASE PoolEmpty(slot)
    BY <1>s, <1>t, <2>2 DEF PoolEmpty, Answered
  <2>3. CASE DeadlinePasses(slot)
    BY <1>t, <2>3 DEF DeadlinePasses, Answered
  <2> QED
    BY <1>6, <2>1, <2>2, <2>3
<1>7. CASE WaitEnds(slot) \/ CallFails(slot)
  BY <1>4, <1>7 DEF WaitEnds, CallFails
<1>8. ASSUME NEW answer \in Answers, PresignAnswered(slot, answer) PROVE OwnTypes
  <2>1. answer # NoResult
    BY <1>8 DEF PresignAnswered, VerifyPresignAnswer, AttestationOfAnswer, NoResult, None
  <2>2. plan[slot].op = "presign" => OwnTypes
    BY <1>3, <1>8, <2>1 DEF PresignAnswered
  <2>3. plan[slot].op # "presign" => OwnTypes
    <3> SUFFICES ASSUME plan[slot].op # "presign" PROVE OwnTypes
      OBVIOUS
    <3>1. /\ Open(slot, "sent", 3) /\ pc[slot] = "pool"
          /\ \E taken : presign' = [presign EXCEPT ![slot] = taken]
          /\ UNCHANGED <<plan, scheme, result>>
      BY <1>8 DEF PresignAnswered
    <3> QED
      BY <1>o, <1>t, <3>1 DEF Answered, Running
  <2> QED
    BY <2>2, <2>3
<1>9. ASSUME NEW answer \in Answers, Created(slot, answer) PROVE OwnTypes
  <2>0. answer.kind = "attestation"
    BY <1>9 DEF Created, VerifyPublicShareDkgAnswer, AcceptanceSigned, ExpectAttestation,
                AttestationOfAnswer
  <2>1. answer # NoResult
    BY <2>0 DEF NoResult, None
  <2>2. plan[slot].op = "dkgPublic" => OwnTypes
    BY <1>3, <1>9, <2>1 DEF Created
  <2>3. plan[slot].op # "dkgPublic" => OwnTypes
    BY <1>t, <1>9, <2>1 DEF Created, Goto, Answered, Running, Waits
  <2> QED
    BY <2>2, <2>3
<1>10. ASSUME NEW answer \in Answers,
              \/ SignatureAnswered(slot, answer) \/ FutureSignAnswered(slot, answer)
              \/ ShareChanged(slot, answer)
       PROVE  OwnTypes
  <2>1. Return(slot, answer) /\ answer.kind \in {"signature", "attestation"}
    BY <1>10 DEF SignatureAnswered, FutureSignAnswered, ShareChanged, SignatureVerifies,
                 VerifyFutureSignAnswer, VerifyMakeSharePublicAnswer,
                 VerifyReEncryptShareAnswer, AttestationOfAnswer
  <2>2. answer # NoResult
    BY <2>1 DEF NoResult, None
  <2> QED
    BY <1>3, <2>1, <2>2
<1>11. CASE ShareRead(slot)
  <2>1. PICK returned, received :
           returned = result[slot] /\ received = [kind |-> "received", share |-> plan[slot].share]
    OBVIOUS
  <2>2. CASE plan[slot].op \in Creating
    <3>1. Return(slot, returned) /\ returned # NoResult
      BY <1>t, <1>11, <2>1, <2>2 DEF ShareRead, Answered
    <3> QED
      BY <1>3, <3>1
  <2>3. CASE plan[slot].op \notin Creating
    <3>1. Return(slot, received) \/ Throw(slot)
      BY <1>11, <2>1, <2>3 DEF ShareRead
    <3>2. received # NoResult
      BY <2>1 DEF NoResult, None
    <3> QED
      BY <1>3, <1>4, <3>1, <3>2
  <2> QED
    BY <2>2, <2>3
<1> QED
  BY <1>2, <1>5, <1>6, <1>7, <1>8, <1>9, <1>10, <1>11 DEF SlotStep

-----------------------------------------------------------------------------
(* Theorems.                                                               *)

\* At the start the chain holds the old dWallets and no call runs.
LEMMA Initially == Init => IInv
<1> SUFFICES ASSUME Init PROVE IInv
  OBVIOUS
<1>1. TypeOK
  BY DEF Init, TypeOK, Answered, Running
<1>2. ChainInv
  BY DEF Init, ChainInv, Made
<1>3. ASSUME NEW slot \in Slots PROVE SlotInv(slot)
  <2>1. /\ plan[slot] = NoPlan /\ pc[slot] = "idle" /\ presign[slot] = NoPresign
        /\ result[slot] = NoResult
    BY DEF Init
  <2>2. plan[slot].op \notin Creating \cup Signing \cup {"complete"}
    BY <2>1 DEF NoPlan, None, Creating, Signing
  <2>3. result[slot].kind # "attestation"
    BY <2>1 DEF NoResult, None
  <2> QED
    BY <2>1, <2>2, <2>3 DEF SlotInv, StepsInv, TakenInv, TermsInv, CreatedInv, AskedInv, Signing
<1> QED
  BY <1>1, <1>2, <1>3 DEF IInv

\* Every step of a call keeps what holds of that call.
LEMMA SlotStepKeeps ==
    ASSUME IInv, NEW slot \in Slots, SlotStep(slot)
    PROVE  SlotInv(slot)'
<1>0. SlotInv(slot)
  BY DEF IInv
<1>1. CASE WaitEnds(slot) \/ CallFails(slot)
  <2>1. Throw(slot) /\ pc[slot] # "idle"
    BY <1>1 DEF WaitEnds, CallFails, NothingThere, Running, Waits
  <2> QED
    BY <2>1, ThrowKeeps
<1>2. CASE DeadlinePasses(slot)
  BY <1>0, <1>2, StillHolds DEF DeadlinePasses
<1> QED
  BY <1>1, <1>2, StartKeeps, SignTermsKeeps, UsableKeeps, PoolEmptyKeeps, ShareReadKeeps,
     PresignKeeps, CreatedKeeps, SignatureKeeps, SessionAnswerKeeps DEF SlotStep

\* Every step keeps the invariant.
LEMMA StepKeeps == IInv /\ [Next]_vars => IInv'
<1> SUFFICES ASSUME IInv, [Next]_vars PROVE IInv'
  OBVIOUS
<1>0. TypeOK
  BY DEF IInv
<1>1. ASSUME NEW slot \in Slots, SlotStep(slot) PROVE IInv'
  <2>1. TypeOK'
    BY <1>1, TypesStay
  <2>2. /\ UNCHANGED <<chain, vouchers>>
        /\ \A other \in Slots \ {slot} :
              /\ plan'[other] = plan[other] /\ pc'[other] = pc[other]
              /\ session'[other] = session[other] /\ presign'[other] = presign[other]
              /\ scheme'[other] = scheme[other] /\ result'[other] = result[other]
    BY <1>0, <1>1, Frame
  <2>3. ChainInv'
    <3>1. \A other \in Slots : plan[other].op \in Creating =>
             plan'[other] = plan[other] /\ session'[other] = session[other]
      BY <1>1, <2>2, CreatingStays
    <3> QED
      BY <2>2, <3>1, ChainStays
  <2>4. ASSUME NEW other \in Slots PROVE SlotInv(other)'
    <3>1. CASE other = slot
      BY <1>1, <3>1, SlotStepKeeps
    <3>2. CASE other # slot
      <4>1. SlotInv(other)
        BY DEF IInv
      <4> QED
        BY <2>2, <3>2, <4>1, StillHolds
    <3> QED
      BY <3>1, <3>2
  <2> QED
    BY <2>1, <2>3, <2>4 DEF IInv
<1>2. ASSUME UNCHANGED callVars, chain \subseteq chain', vouchers \subseteq vouchers',
             vouchers' \subseteq DOMAIN ApprovalOf, ChainInv'
      PROVE  IInv'
  <2>1. TypeOK'
    BY <1>0, <1>2 DEF TypeOK, Answered, callVars
  <2>2. ASSUME NEW slot \in Slots PROVE SlotInv(slot)'
    <3>1. SlotInv(slot)
      BY DEF IInv
    <3>2. UNCHANGED <<plan[slot], pc[slot], session[slot], presign[slot], scheme[slot],
                      result[slot]>>
      BY <1>2 DEF callVars
    <3> QED
      BY <1>2, <3>1, <3>2, StillHolds
  <2> QED
    BY <1>2, <2>1, <2>2 DEF IInv
<1>3. ASSUME NEW voucher \in DOMAIN ApprovalOf, IssueVoucher(voucher) PROVE IInv'
  <2>1. UNCHANGED <<callVars, chain>> /\ vouchers' = vouchers \cup {voucher}
    BY <1>3 DEF IssueVoucher
  <2>2. ChainInv'
    BY <2>1, ChainStays DEF callVars
  <2> QED
    BY <1>0, <1>2, <2>1, <2>2 DEF TypeOK
<1>4. ASSUME NEW attestation \in Signed, attestation.signer \in TrustedNetworkKeys,
             Write(attestation.data)
      PROVE  IInv'
  <2>1. UNCHANGED <<callVars, vouchers>> /\ chain \subseteq chain'
    BY <1>4 DEF Write
  <2>2. ChainInv'
    BY <1>4, WriteKeepsChain
  <2> QED
    BY <1>0, <1>2, <2>1, <2>2 DEF TypeOK
<1>5. CASE UNCHANGED vars
  <2>1. UNCHANGED <<callVars, chain, vouchers>>
    BY <1>5 DEF vars
  <2>2. ChainInv'
    BY <2>1, ChainStays DEF callVars
  <2> QED
    BY <1>0, <1>2, <2>1, <2>2 DEF TypeOK
<1> QED
  BY <1>1, <1>3, <1>4, <1>5 DEF Next, SlotStep

\* The invariant holds of every reachable state.
THEOREM Invariance == Spec => []IInv
BY Initially, StepKeeps, PTL DEF Spec

\* The state of every call has its types, and a result exactly when it is answered.
THEOREM TypeCorrect == Spec => []TypeOK
<1>1. IInv => TypeOK
  BY DEF IInv
<1> QED
  BY <1>1, Invariance, PTL

\* No attestation is handed to two calls, whatever a validator answers with: what a
\* call takes was made in one of its own sessions, and no two calls share one.
THEOREM AnswersServeOneCall == Spec => []NoAnswerServesTwoCalls
<1>1. IInv => NoAnswerServesTwoCalls
  <2> SUFFICES ASSUME IInv, NEW slot \in Slots, NEW other \in Slots \ {slot},
                      NEW taken \in TakenBy(slot), taken \in TakenBy(other)
               PROVE  FALSE
    BY DEF NoAnswerServesTwoCalls
  <2>1. ASSUME NEW one \in Slots, taken \in TakenBy(one)
        PROVE  taken.data.session \in OwnSessions(one)
    <3>1. TakenInv(one)
      BY DEF IInv, SlotInv
    <3> QED
      BY <2>1, <3>1 DEF TakenBy, TakenInv
  <2>2. taken.data.session \in OwnSessions(slot) /\ taken.data.session \in OwnSessions(other)
    BY <2>1
  <2> QED
    BY <2>2, SessionsAreFresh DEF OwnSessions
<1> QED
  BY <1>1, Invariance, PTL

\* A returned signature is under the attested key, of the message and the scheme that
\* the voucher or the partial signature approves.
THEOREM SignaturesAsked == Spec => []SignaturesAreAsked
<1>1. IInv => SignaturesAreAsked
  BY DEF IInv, SlotInv, AskedInv, SignaturesAreAsked
<1> QED
  BY <1>1, Invariance, PTL

\* An encrypted creation is returned only when the chain holds the very dWallet of
\* its session, although the lookup compares only the key (and an import's session).
THEOREM CreatedOnChain == Spec => []CreatedAreOnChain
<1>1. IInv => CreatedAreOnChain
  <2> SUFFICES ASSUME IInv, NEW slot \in Slots, pc[slot] = "done",
                      plan[slot].op \in {"dkg", "importedKey"}
               PROVE  \E dwallet \in chain :
                         /\ dwallet = result[slot].attestation.data
                         /\ dwallet.session = session[slot]
                         /\ dwallet.output.contribution = session[slot]
    BY DEF CreatedAreOnChain
  <2>1. CreatedInv(slot)
    BY DEF IInv, SlotInv
  <2>2. /\ result[slot].attestation.data \in chain
        /\ IsOutputOf(slot, result[slot].attestation.data)
    BY <2>1 DEF CreatedInv, Creating
  <2> QED
    BY <2>2 DEF IsOutputOf, IsOfCreation, Creating
<1> QED
  BY <1>1, Invariance, PTL

==============================================================================
