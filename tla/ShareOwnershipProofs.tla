------------------------ MODULE ShareOwnershipProofs ------------------------
(***************************************************************************)
(* Proofs about ShareOwnership, for any users, any attestations that the   *)
(* network or anyone else signed, and any answers of the endpoint that     *)
(* lies and of the one that lags.                                          *)
(*                                                                         *)
(* Signatures and committed sessions only grow, so what a check found      *)
(* stays true. The facts are stated over a set S of signatures, a set C of *)
(* committed sessions and the endpoint L that may lie, so that they apply  *)
(* before and after a step.                                                *)
(***************************************************************************)
EXTENDS ShareOwnership, TLAPS

-----------------------------------------------------------------------------
(* The inductive invariant.                                                *)

\* HasAccepted and Usable, for the signatures made.
AcceptedIn(user, dwallet, S) ==
    \/ [by |-> user, digest |-> dwallet] \in S
    \/ \E a \in OfKind("encrypted_share") :
          /\ a.signer \in TrustedNetworkKeys
          /\ a.data.digest = dwallet
          /\ a.data.holder = user
          /\ [by |-> user, digest |-> a.data] \in S
UsableIn(user, dwallet, S) ==
    \/ AcceptedIn(user, dwallet, S)
    \/ \E a \in OfKind("public_share") :
          a.signer \in TrustedNetworkKeys /\ a.data.digest = dwallet
    \/ <<dwallet, user>> \in ClassicShares

\* A share of the dWallet is public in the committed sessions.
PublicIn(asked, C) ==
    \E a \in Attested :
        a.kind = "public_share" /\ a.data.session \in C /\ AskedOf(a.data.digest) = asked

\* The dWallet was migrated, or its creator accepted what it asked for.
CustodyIn(dwallet, S) ==
    \/ dwallet.migration
    \/ /\ [by |-> dwallet.holder, digest |-> dwallet] \in S
       /\ \E sent \in Sent[dwallet.holder] :
             /\ sent.session = dwallet.session
             /\ sent.contribution = dwallet.output.contribution
DWalletOf(digest) == IF digest.kind = "dwallet" THEN digest ELSE digest.digest
CustodyOf(S) == \A s \in S : CustodyIn(DWalletOf(s.digest), S)

\* What a check that runs has found. An endpoint that does not lie and yet finds no
\* record of a share that was public when the call began lags.
CheckOf(t, C, L) ==
    /\ t.wasPublic => PublicIn(t.asked, C)
    /\ t.pc = "lookup" => t.op = "read"
    /\ t.op # "read" => AskedOf(t.dwallet) = t.asked
    /\ t.pc # "public" => t.answers = NoAnswers
    /\ t.wasPublic /\ AskedOf(t.dwallet) = t.asked =>
          /\ \A endpoint \in Endpoints :
                endpoint # L /\ t.answers[endpoint] = Absent => t.lagged
          /\ t.pc \in {"share", "classic"} /\ (CrossCheck \/ L # "first") => t.lagged

\* What an acceptance that runs has found.
AcceptanceOf(t, S) ==
    /\ t.pc \in {"sender", "decrypt"} => t.dwallet.kind = "dwallet"
    /\ t.pc = "decrypt" => CustodyIn(t.dwallet, S)

TaskOf(t, C, S, L) ==
    /\ t \in Checks => CheckOf(t, C, L)
    /\ t \in Acceptances => AcceptanceOf(t, S)

\* What a result and a request stand for.
ResultOf(r, S, L) ==
    r \in Results =>
        /\ UsableIn(r.holder, r.dwallet, S)
        /\ r.share = "encrypted" =>
              /\ \/ AcceptedIn(r.holder, r.dwallet, S)
                 \/ r.migrated /\ <<r.dwallet, r.holder>> \in ClassicShares
              /\ (CrossCheck \/ L # "first") /\ r.wasPublic => r.lagged
RequestOK(q, S) == q \in Requests => UsableIn(q.user, q.dwallet, S)

IInv ==
    /\ TypeOK
    /\ CustodyOf(signatures)
    /\ TaskOf(task, chain, signatures, liar)
    /\ ResultOf(result, signatures, liar)
    /\ RequestOK(request, signatures)

-----------------------------------------------------------------------------
(* What is found stays true.                                               *)

\* No call and no result are taken for one.
LEMMA NoneIsNone ==
    /\ Idle \notin Checks /\ Idle \notin Acceptances
    /\ NoResult \notin Results
    /\ NoRequest \notin Requests
    /\ \A t \in Checks : t \notin Acceptances
  <1>1. Idle.op = "none" /\ NoResult.share = None /\ NoRequest.kind = None
    BY DEF Idle, NoResult, NoRequest
  <1> QED BY <1>1 DEF Checks, Acceptances, Results, Requests, None

\* Acceptances are not withdrawn.
LEMMA Grows ==
    ASSUME NEW S, NEW S2, S \subseteq S2, NEW user, NEW dwallet
    PROVE  /\ AcceptedIn(user, dwallet, S) => AcceptedIn(user, dwallet, S2)
           /\ UsableIn(user, dwallet, S) => UsableIn(user, dwallet, S2)
           /\ CustodyIn(dwallet, S) => CustodyIn(dwallet, S2)
  BY DEF AcceptedIn, UsableIn, CustodyIn

LEMMA ResultStays ==
    ASSUME NEW S, NEW S2, S \subseteq S2, NEW r, NEW q, NEW L
    PROVE  /\ ResultOf(r, S, L) => ResultOf(r, S2, L)
           /\ RequestOK(q, S) => RequestOK(q, S2)
  BY Grows DEF ResultOf, RequestOK

LEMMA TaskStays ==
    ASSUME NEW S, NEW S2, S \subseteq S2, NEW C, NEW C2, C \subseteq C2, NEW t, NEW L,
           TaskOf(t, C, S, L)
    PROVE  TaskOf(t, C2, S2, L)
  <1>1. t \in Checks => CheckOf(t, C2, L)
    BY DEF TaskOf, CheckOf, PublicIn
  <1>2. t \in Acceptances => AcceptanceOf(t, S2)
    BY Grows DEF TaskOf, AcceptanceOf
  <1> QED BY <1>1, <1>2 DEF TaskOf

\* The model's own predicates.
LEMMA NowIn ==
    ASSUME NEW user, NEW dwallet, NEW asked
    PROVE  /\ HasAccepted(user, dwallet) <=> AcceptedIn(user, dwallet, signatures)
           /\ Usable(user, dwallet) <=> UsableIn(user, dwallet, signatures)
           /\ IsPublic(asked) <=> PublicIn(asked, chain)
  BY DEF HasAccepted, AcceptedIn, Usable, UsableIn, IsPublic, PublicIn, Committed

-----------------------------------------------------------------------------
(* Steps that change one part of the state.                                *)

LEMMA TaskMoves ==
    ASSUME IInv, task' \in {Idle} \cup Checks \cup Acceptances,
           TaskOf(task', chain, signatures, liar),
           UNCHANGED <<chain, accepted, signatures, liar, result, request>>
    PROVE  IInv'
  <1>1. TypeOK'
    BY DEF IInv, TypeOK, Committed
  <1> QED BY <1>1 DEF IInv

LEMMA ResultMoves ==
    ASSUME IInv, result' \in {NoResult} \cup Results, ResultOf(result', signatures, liar),
           request' \in {NoRequest} \cup Requests, RequestOK(request', signatures),
           task' = task \/ task' = Idle,
           UNCHANGED <<chain, accepted, signatures, liar>>
    PROVE  IInv'
  <1>1. TypeOK'
    BY DEF IInv, TypeOK, Committed
  <1>2. TaskOf(task', chain, signatures, liar)
    BY NoneIsNone DEF IInv, TaskOf
  <1> QED BY <1>1, <1>2 DEF IInv

LEMMA SignaturesGrow ==
    ASSUME IInv, NEW s \in Signatures, signatures' = signatures \cup {s},
           CustodyIn(DWalletOf(s.digest), signatures'),
           task' = task \/ task' = Idle,
           UNCHANGED <<chain, accepted, liar, result, request>>
    PROVE  IInv'
  <1>1. signatures \subseteq signatures'
    OBVIOUS
  <1>2. TypeOK'
    BY DEF IInv, TypeOK, Committed
  <1>3. CustodyOf(signatures')
    <2> SUFFICES ASSUME NEW x \in signatures' PROVE CustodyIn(DWalletOf(x.digest), signatures')
      BY DEF CustodyOf
    <2>1. CASE x = s
      BY <2>1
    <2>2. CASE x \in signatures
      BY <1>1, <2>2, Grows DEF IInv, CustodyOf
    <2> QED BY <2>1, <2>2
  <1>4. TaskOf(task', chain, signatures', liar)
    <2>1. TaskOf(task, chain, signatures', liar)
      BY <1>1, TaskStays DEF IInv
    <2> QED BY <2>1, NoneIsNone DEF TaskOf
  <1>5. ResultOf(result, signatures', liar) /\ RequestOK(request, signatures')
    BY <1>1, ResultStays DEF IInv
  <1> QED BY <1>2, <1>3, <1>4, <1>5 DEF IInv

-----------------------------------------------------------------------------
(* What the checks establish.                                              *)

\* A dWallet record that verifies is one that was signed.
LEMMA VerifiedDWallet ==
    ASSUME NEW record, VerifyAndDecode(record, "dwallet")
    PROVE  record.data \in DWallets /\ record.data.kind = "dwallet"
  <1>1. /\ SignatureOver("dwallet", record.data, record.signer) \in Signed
        /\ record.data.kind = "dwallet"
    BY DEF VerifyAndDecode, DecodesAs
  <1>2. PICK a \in Signed : a = SignatureOver("dwallet", record.data, record.signer)
    BY <1>1
  <1>3. a.kind = "dwallet" /\ a.data = record.data
    BY <1>2 DEF SignatureOver
  <1> QED BY <1>1, <1>2, <1>3 DEF DWallets, OfKind

\* The holder accepted the dWallet, or a share of this very dWallet.
AcceptanceShown(holder, dwallet, S) ==
    \/ [by |-> holder, digest |-> dwallet] \in S
    \/ \E a \in OfKind("encrypted_share") :
          /\ a.signer \in TrustedNetworkKeys
          /\ a.data.kind = "encrypted_share"
          /\ a.data.digest = dwallet
          /\ a.data.holder = holder
          /\ [by |-> holder, digest |-> a.data] \in S

\* A share record that verifies for a holder shows the holder's acceptance, of
\* the dWallet or of a share of this very dWallet.
LEMMA VerifiedShare ==
    ASSUME NEW account, NEW record, NEW registered, NEW dwallet, NEW address, NEW holder,
           NEW given, NEW S,
           VerifySolanaShare(account, record, registered, dwallet, address, holder, given, S)
    PROVE  AcceptanceShown(holder, dwallet, S)
  <1>1. /\ VerifyAndDecode(record, "encrypted_share")
        /\ record.data.digest = dwallet /\ record.data.holder = holder
    BY DEF VerifySolanaShare, VerifyEncryptedShare, RequireSameDWallet
  <1>2. [by |-> holder, digest |-> AcceptedDigest(record.data, dwallet)] \in S
    BY DEF VerifySolanaShare
  <1>3. /\ SignatureOver("encrypted_share", record.data, record.signer) \in Signed
        /\ record.data.kind = "encrypted_share"
        /\ record.signer \in TrustedNetworkKeys
    BY <1>1 DEF VerifyAndDecode, DecodesAs
  <1>4. PICK a \in Signed : a = SignatureOver("encrypted_share", record.data, record.signer)
    BY <1>3
  <1>5. a.kind = "encrypted_share" /\ a.data = record.data /\ a.signer = record.signer
    BY <1>4 DEF SignatureOver
  <1>6. a \in OfKind("encrypted_share")
    BY <1>4, <1>5 DEF OfKind
  <1> QED BY <1>1, <1>2, <1>3, <1>5, <1>6 DEF AcceptedDigest, AcceptanceShown

LEMMA VerifiedShareIsAccepted ==
    ASSUME NEW account, NEW record, NEW registered, NEW dwallet, NEW address, NEW holder,
           NEW given, NEW S,
           VerifySolanaShare(account, record, registered, dwallet, address, holder, given, S)
    PROVE  AcceptedIn(holder, dwallet, S)
  <1>1. AcceptanceShown(holder, dwallet, S)
    BY VerifiedShare
  <1> QED BY <1>1 DEF AcceptanceShown, AcceptedIn

\* And then the dWallet's custody started with its creator.
LEMMA VerifiedShareHasCustody ==
    ASSUME NEW account, NEW record, NEW registered, NEW dwallet, NEW address, NEW holder,
           NEW given, NEW S, CustodyOf(S), dwallet.kind = "dwallet",
           VerifySolanaShare(account, record, registered, dwallet, address, holder, given, S)
    PROVE  CustodyIn(dwallet, S)
  <1>1. CASE [by |-> holder, digest |-> dwallet] \in S
    <2>1. PICK s \in S : s = [by |-> holder, digest |-> dwallet]
      BY <1>1
    <2>2. DWalletOf(s.digest) = dwallet
      BY <2>1 DEF DWalletOf
    <2> QED BY <2>2 DEF CustodyOf
  <1>2. ASSUME NEW a \in OfKind("encrypted_share"), a.data.kind = "encrypted_share",
               a.data.digest = dwallet, [by |-> holder, digest |-> a.data] \in S
        PROVE  CustodyIn(dwallet, S)
    <2>1. PICK s \in S : s = [by |-> holder, digest |-> a.data]
      BY <1>2
    <2>2. DWalletOf(s.digest) = dwallet
      BY <1>2, <2>1 DEF DWalletOf
    <2> QED BY <2>2 DEF CustodyOf
  <1>3. AcceptanceShown(holder, dwallet, S)
    BY VerifiedShare
  <1> QED BY <1>1, <1>2, <1>3 DEF AcceptanceShown

\* A public share record that verifies makes the share everyone's.
LEMMA VerifiedPublicShare ==
    ASSUME NEW record, NEW dwallet, NEW user, NEW S, VerifyPublicShare(record, dwallet)
    PROVE  UsableIn(user, dwallet, S)
  <1>1. /\ SignatureOver("public_share", record.data, record.signer) \in Signed
        /\ record.signer \in TrustedNetworkKeys
        /\ record.data.digest = dwallet
    BY DEF VerifyPublicShare, VerifyAndDecode, RequireSameDWallet
  <1>2. PICK a \in Signed : a = SignatureOver("public_share", record.data, record.signer)
    BY <1>1
  <1>3. a.kind = "public_share" /\ a.data = record.data /\ a.signer = record.signer
    BY <1>2 DEF SignatureOver
  <1> QED BY <1>1, <1>2, <1>3 DEF UsableIn, OfKind

\* A question without an answer, an absence and a record are told apart.
LEMMA AnswersDiffer ==
    /\ Unread # Absent
    /\ \A a : Unread # RecordOf(a) /\ Absent # RecordOf(a)
  <1>1. Unread.version # Absent.version
    BY DEF Unread, Absent, None
  <1>2. DOMAIN Absent = {"version"} /\ DOMAIN Unread = {"version"}
    BY DEF Absent, Unread
  <1>3. \A a : "data" \in DOMAIN RecordOf(a)
    BY DEF RecordOf
  <1> QED BY <1>1, <1>2, <1>3

\* An endpoint that does not lie finds a share that is public, unless it is behind.
LEMMA PublicIsFound ==
    ASSUME NEW endpoint, liar # endpoint, NEW asked, PublicIn(asked, chain),
           NEW behind \in BOOLEAN, Absent \in PublicAnswers(endpoint, asked, behind)
    PROVE  behind
  BY NowIn, AnswersDiffer DEF PublicAnswers

-----------------------------------------------------------------------------
(* The actions.                                                            *)

LEMMA CommitKeeps ==
    ASSUME IInv, NEW session \in Sessions, Commit(session)
    PROVE  IInv'
  <1>1. chain' = chain \cup {session} /\ UNCHANGED <<accepted, signatures, liar, task, result, request>>
    BY DEF Commit
  <1>2. TypeOK'
    <2>1. Committed("encrypted_share") \subseteq Committed("encrypted_share")'
      BY <1>1 DEF Committed
    <2> QED BY <1>1, <2>1 DEF IInv, TypeOK
  <1>3. TaskOf(task, chain', signatures, liar)
    BY <1>1, TaskStays DEF IInv
  <1> QED BY <1>1, <1>2, <1>3 DEF IInv

LEMMA AcceptKeeps ==
    ASSUME IInv, NEW a \in Committed("encrypted_share"), Accept(a.data)
    PROVE  IInv'
  <1>1. accepted' = accepted \cup {a.data} /\ UNCHANGED <<chain, signatures, liar, task, result, request>>
    BY DEF Accept
  <1>2. TypeOK'
    BY <1>1 DEF IInv, TypeOK, Committed
  <1> QED BY <1>1, <1>2 DEF IInv

\* The share is of a dWallet that was migrated.
LEMMA AcceptAttachedKeeps ==
    ASSUME IInv, NEW a \in Committed("encrypted_share"), AcceptAttached(a.data)
    PROVE  IInv'
  <1>1. a \in Signed /\ a.kind = "encrypted_share" /\ a.data.kind = "encrypted_share"
    BY NetworkAssumption DEF Committed, OfKind, Attested
  <1>2. a.data.holder \in Users /\ a.data.digest.migration
    BY NetworkAssumption DEF AcceptAttached
  <1>3. PICK s : s = [by |-> a.data.holder, digest |-> a.data]
    OBVIOUS
  <1>4. s \in Signatures
    BY <1>1, <1>2, <1>3 DEF Signatures
  <1>5. CustodyIn(DWalletOf(s.digest), signatures')
    BY <1>1, <1>2, <1>3 DEF CustodyIn, DWalletOf
  <1> QED BY <1>3, <1>4, <1>5, SignaturesGrow DEF AcceptAttached

\* Call, with what the chain shows when it begins.
LEMMA CallFits ==
    ASSUME IInv, NEW op \in {"assert", "read", "sign"}, NEW pc \in {"lookup", "dwallet"},
           NEW user \in Users, NEW dwallet \in DWallets, NEW given \in {NoSignature} \cup Signatures,
           pc = "lookup" => op = "read",
           Starts(Call(op, pc, user, dwallet, given))
    PROVE  IInv'
  <1>1. PICK public : public = IsPublic(AskedOf(dwallet)) /\ public \in BOOLEAN
    BY DEF IsPublic
  <1>2. PICK asked : asked = AskedOf(dwallet) /\ asked \in {AskedOf(d) : d \in DWallets}
    OBVIOUS
  <1>3. PICK t : t = [op |-> op, pc |-> pc, user |-> user, dwallet |-> dwallet,
                      asked |-> asked, given |-> given, networkKey |-> None,
                      answers |-> NoAnswers, wasPublic |-> public, lagged |-> FALSE]
    OBVIOUS
  <1>4. t \in Checks
    BY <1>1, <1>2, <1>3 DEF Checks, NoAnswers
  <1>5. CheckOf(t, chain, liar)
    <2>1. t.wasPublic = public /\ t.asked = asked /\ t.dwallet = dwallet /\ t.pc = pc
            /\ t.op = op /\ t.answers = NoAnswers
      BY <1>3
    <2>2. public => PublicIn(asked, chain)
      BY <1>1, <1>2, NowIn
    <2> QED BY <1>2, <2>1, <2>2, AnswersDiffer DEF CheckOf, NoAnswers
  <1>6. task' = t /\ UNCHANGED <<chain, accepted, signatures, liar, result, request>>
    BY <1>1, <1>2, <1>3 DEF Starts, Call
  <1>7. TaskOf(t, chain, signatures, liar)
    BY <1>4, <1>5, NoneIsNone DEF TaskOf
  <1> QED BY <1>4, <1>6, <1>7, TaskMoves

LEMMA GivenFits ==
    ASSUME TypeOK, NEW user, NEW given \in Given(user)
    PROVE  given \in {NoSignature} \cup Signatures
  BY DEF TypeOK, Given

\* A task that ends is forgotten.
LEMMA RefuseKeeps ==
    ASSUME IInv, Refuse
    PROVE  IInv'
  <1>1. task' = Idle /\ UNCHANGED <<chain, accepted, signatures, liar, result, request>>
    BY DEF Refuse, Continue
  <1>2. TaskOf(Idle, chain, signatures, liar)
    BY NoneIsNone DEF TaskOf
  <1> QED BY <1>1, <1>2, TaskMoves

\* The call that runs at a step of the checks, or of an acceptance.
LEMMA TaskAt ==
    ASSUME IInv, task.op # "none"
    PROVE  /\ task \in Checks \cup Acceptances
           /\ task.pc \in {"lookup", "public", "share", "classic"} =>
                 task \in Checks /\ CheckOf(task, chain, liar)
           /\ task.pc \in {"sender", "decrypt"} =>
                 task \in Acceptances /\ AcceptanceOf(task, signatures)
  <1>1. task \in Checks \cup Acceptances
    <2>1. Idle.op = "none"
      BY DEF Idle
    <2> QED BY <2>1 DEF IInv, TypeOK
  <1>2. task.pc \in {"lookup", "public", "share", "classic"} => task \in Checks
    BY <1>1 DEF Acceptances
  <1>3. task.pc \in {"sender", "decrypt"} => task \in Acceptances
    BY <1>1 DEF Checks
  <1> QED BY <1>1, <1>2, <1>3 DEF IInv, TaskOf

LEMMA LookupKeeps ==
    ASSUME IInv, Lookup
    PROVE  IInv'
  <1>1. task.op # "none" /\ task.pc = "lookup"
    BY DEF Lookup
  <1>2. PICK t : t = task /\ t \in Checks /\ CheckOf(t, chain, liar)
    BY <1>1, TaskAt
  <1>3. CASE Refuse
    BY <1>3, RefuseKeeps
  <1>4. ASSUME NEW answer \in DWalletAnswers(task.asked), ReaderTakes(answer, task.asked),
               Continue([task EXCEPT !.pc = "dwallet", !.dwallet = answer.record.data])
        PROVE  IInv'
    <2>1. PICK d : d = answer.record.data
      OBVIOUS
    <2>2. d \in DWallets
      BY <1>4, <2>1, VerifiedDWallet DEF ReaderTakes, VerifyDWallet
    <2>3. PICK t2 : t2 = [t EXCEPT !.pc = "dwallet", !.dwallet = d]
      OBVIOUS
    <2>4. t2 \in Checks /\ t2.pc = "dwallet" /\ t2.op = t.op /\ t2.asked = t.asked
            /\ t2.wasPublic = t.wasPublic /\ t2.answers = t.answers
      BY <1>2, <2>2, <2>3 DEF Checks
    <2>5. task' = t2 /\ UNCHANGED <<chain, accepted, signatures, liar, result, request>>
      BY <1>2, <1>4, <2>1, <2>3 DEF Continue
    <2>6. CheckOf(t2, chain, liar)
      BY <1>1, <1>2, <2>4, AnswersDiffer DEF CheckOf, NoAnswers
    <2>7. TaskOf(t2, chain, signatures, liar)
      BY <2>4, <2>6, NoneIsNone DEF TaskOf
    <2> QED BY <2>4, <2>5, <2>7, TaskMoves
  <1> QED BY <1>3, <1>4 DEF Lookup

LEMMA ReadDWalletKeeps ==
    ASSUME IInv, ReadDWallet
    PROVE  IInv'
  <1>1. task.op # "none" /\ task.pc = "dwallet"
    BY DEF ReadDWallet
  <1>2. PICK t : t = task /\ t \in Checks \cup Acceptances /\ TaskOf(t, chain, signatures, liar)
    BY <1>1, TaskAt DEF IInv
  <1>3. CASE Refuse
    BY <1>3, RefuseKeeps
  <1>4. ASSUME NEW answer \in DWalletAnswers(AskedOf(task.dwallet)),
               ReaderTakes(answer, AskedOf(task.dwallet)),
               answer.record.data = task.dwallet,
               Continue([task EXCEPT !.pc = IF task.op = "accept" THEN "sender" ELSE "public",
                                     !.networkKey = answer.account.networkKey])
        PROVE  IInv'
    <2>1. PICK networkKey \in TrustedNetworkKeys : networkKey = answer.account.networkKey
      BY <1>4 DEF ReaderTakes
    <2>2. t.dwallet.kind = "dwallet"
      BY <1>2, <1>4, VerifiedDWallet DEF ReaderTakes, VerifyDWallet
    <2>3. PICK pc : pc = IF t.op = "accept" THEN "sender" ELSE "public"
      OBVIOUS
    <2>4. PICK t2 : t2 = [t EXCEPT !.pc = pc, !.networkKey = networkKey]
      OBVIOUS
    <2>5. task' = t2 /\ UNCHANGED <<chain, accepted, signatures, liar, result, request>>
      BY <1>2, <1>4, <2>1, <2>3, <2>4 DEF Continue
    <2>6. CASE t \in Checks
      <3>1. t2 \in Checks /\ t2.pc = "public" /\ t2.op = t.op /\ t2.asked = t.asked
              /\ t2.wasPublic = t.wasPublic /\ t2.dwallet = t.dwallet
              /\ t2.answers = t.answers
        BY <2>3, <2>4, <2>6 DEF Checks
      <3>2. CheckOf(t2, chain, liar)
        BY <1>1, <1>2, <2>6, <3>1, AnswersDiffer DEF CheckOf, TaskOf, NoAnswers
      <3>3. TaskOf(t2, chain, signatures, liar)
        BY <3>1, <3>2, NoneIsNone DEF TaskOf
      <3> QED BY <2>5, <3>1, <3>3, TaskMoves
    <2>7. CASE t \in Acceptances
      <3>1. t2 \in Acceptances /\ t2.pc = "sender" /\ t2.dwallet = t.dwallet
        BY <2>3, <2>4, <2>7 DEF Acceptances
      <3>2. AcceptanceOf(t2, signatures)
        BY <2>2, <3>1 DEF AcceptanceOf
      <3>3. TaskOf(t2, chain, signatures, liar)
        BY <3>1, <3>2, NoneIsNone DEF TaskOf
      <3> QED BY <2>5, <3>1, <3>3, TaskMoves
    <2> QED BY <1>2, <2>6, <2>7
  <1> QED BY <1>3, <1>4 DEF ReadDWallet

\* Issue, for a share that is the user's.
LEMMA IssueKeeps ==
    ASSUME IInv, task \in Checks, CheckOf(task, chain, liar),
           NEW share \in {"public", "encrypted"}, NEW migrated \in BOOLEAN, NEW waiting \in BOOLEAN,
           UsableIn(task.user, task.dwallet, signatures),
           share = "encrypted" =>
              /\ task.pc \in {"share", "classic"}
              /\ \/ AcceptedIn(task.user, task.dwallet, signatures)
                 \/ migrated /\ <<task.dwallet, task.user>> \in ClassicShares,
           Issue(share, migrated, waiting)
    PROVE  IInv'
  <1>1. PICK t : t = task /\ t \in Checks
    OBVIOUS
  <1>2. PICK zero : zero = 0 /\ zero \in 0 .. MaxAge + 1
    BY OwnershipAssumption
  <1>3. PICK issued : issued = [dwallet |-> t.dwallet, holder |-> t.user, share |-> share,
                     migrated |-> migrated, waiting |-> waiting,
                     networkKey |-> t.networkKey, age |-> zero, wasPublic |-> t.wasPublic,
                     lagged |-> t.lagged]
    OBVIOUS
  <1>4. issued \in Results
    BY <1>1, <1>2, <1>3 DEF Checks, Results
  <1>5. task' = Idle /\ UNCHANGED <<chain, accepted, signatures, liar>>
    BY DEF Issue
  <1>6. CASE t.op = "sign"
    <2>1. PICK q : q = [kind |-> "sign", dwallet |-> t.dwallet, user |-> t.user,
                        waiting |-> FALSE, signed |-> TRUE]
      OBVIOUS
    <2>2. q \in Requests
      BY <1>1, <2>1 DEF Checks, Requests
    <2>3. RequestOK(q, signatures)
      BY <1>1, <2>1 DEF RequestOK
    <2>4. request' = q /\ result' = result
      BY <1>1, <1>6, <2>1 DEF Issue
    <2>5. result \in {NoResult} \cup Results /\ ResultOf(result, signatures, liar)
      BY DEF IInv, TypeOK
    <2> QED BY <1>5, <2>2, <2>3, <2>4, <2>5, ResultMoves
  <1>7. CASE t.op # "sign"
    <2>1. /\ request' = request
          /\ result' = IF t.op = "read" /\ AskedOf(t.dwallet) # t.asked THEN NoResult ELSE issued
      BY <1>1, <1>2, <1>3, <1>7 DEF Issue
    <2>2. request \in {NoRequest} \cup Requests /\ RequestOK(request, signatures)
      BY DEF IInv, TypeOK
    <2>3. CASE t.op = "read" /\ AskedOf(t.dwallet) # t.asked
      <3>1. result' = NoResult
        BY <2>1, <2>3
      <3>2. ResultOf(NoResult, signatures, liar)
        BY NoneIsNone DEF ResultOf
      <3> QED BY <1>5, <2>1, <2>2, <3>1, <3>2, ResultMoves
    <2>4. CASE ~(t.op = "read" /\ AskedOf(t.dwallet) # t.asked)
      <3>1. result' = issued
        BY <2>1, <2>4
      <3>2. AskedOf(t.dwallet) = t.asked
        BY <1>1, <2>4 DEF CheckOf
      <3>3. share = "encrypted" /\ (CrossCheck \/ liar # "first") /\ t.wasPublic => t.lagged
        BY <1>1, <3>2 DEF CheckOf
      <3>4. issued.holder = t.user /\ issued.dwallet = t.dwallet /\ issued.share = share
              /\ issued.migrated = migrated /\ issued.wasPublic = t.wasPublic
              /\ issued.lagged = t.lagged
        BY <1>3
      <3>5. ResultOf(issued, signatures, liar)
        BY <1>1, <3>3, <3>4 DEF ResultOf
      <3> QED BY <1>4, <1>5, <2>1, <2>2, <3>1, <3>5, ResultMoves
    <2> QED BY <2>3, <2>4
  <1> QED BY <1>6, <1>7

\* The endpoints agree that there is no record only when one that does not lie lags.
LEMMA ReadPublicShareKeeps ==
    ASSUME IInv, task \in Checks, CheckOf(task, chain, liar),
           NEW t \in Checks, CheckOf(t, chain, liar), t.pc = "public",
           t.dwallet = task.dwallet, ReadPublicShare(t)
    PROVE  IInv'
  <1>1. TaskOf(t, chain, signatures, liar)
    BY NoneIsNone DEF TaskOf
  <1>2. CASE Continue(t)
    BY <1>1, <1>2, TaskMoves DEF Continue
  <1>3. ASSUME Agreed(t.answers), t.answers["first"] = Absent,
               Continue([t EXCEPT !.answers = NoAnswers, !.pc =
                   IF t.dwallet.holder = None /\ ~t.dwallet.migration
                   THEN "classic" ELSE "share"])
        PROVE  IInv'
    <2>1. PICK pc : pc = IF t.dwallet.holder = None /\ ~t.dwallet.migration
                         THEN "classic" ELSE "share"
      OBVIOUS
    <2>2. pc \in {"share", "classic"}
      BY <2>1
    <2>3. PICK answers : answers = NoAnswers
      OBVIOUS
    <2>4. PICK t2 : t2 = [t EXCEPT !.answers = answers, !.pc = pc]
      OBVIOUS
    <2>5. answers \in [Endpoints -> {Unread, Absent} \cup {RecordOf(a) : a \in OfKind("public_share")}]
      BY <2>3 DEF NoAnswers
    <2>6. /\ t2 \in Checks /\ t2.pc = pc /\ t2.op = t.op /\ t2.asked = t.asked
          /\ t2.wasPublic = t.wasPublic /\ t2.dwallet = t.dwallet /\ t2.lagged = t.lagged
          /\ t2.answers = NoAnswers
      BY <2>2, <2>3, <2>4, <2>5 DEF Checks
    <2>7. task' = t2 /\ UNCHANGED <<chain, accepted, signatures, liar, result, request>>
      BY <1>3, <2>1, <2>3, <2>4 DEF Continue
    <2>8. ASSUME t.wasPublic, AskedOf(t.dwallet) = t.asked, CrossCheck \/ liar # "first"
          PROVE  t.lagged
      <3>1. PICK e \in Endpoints : e # liar /\ t.answers[e] = Absent
        BY <1>3, <2>8 DEF Agreed, Endpoints
      <3> QED BY <2>8, <3>1 DEF CheckOf
    <2>9. CheckOf(t2, chain, liar)
      BY <2>2, <2>6, <2>8, AnswersDiffer DEF CheckOf, NoAnswers
    <2>10. TaskOf(t2, chain, signatures, liar)
      BY <2>6, <2>9, NoneIsNone DEF TaskOf
    <2> QED BY <2>6, <2>7, <2>10, TaskMoves
  <1>4. ASSUME NEW answer, VerifyPublicShare(answer, t.dwallet), Issue("public", FALSE, FALSE)
        PROVE  IInv'
    <2>1. UsableIn(task.user, task.dwallet, signatures)
      BY <1>4, VerifiedPublicShare
    <2> QED BY <1>4, <2>1, IssueKeeps
  <1>5. ASSUME NEW endpoint \in Endpoints, Continue([t EXCEPT !.answers[endpoint] = Unread])
        PROVE  IInv'
    <2>1. PICK answers : answers = [t.answers EXCEPT ![endpoint] = Unread]
      OBVIOUS
    <2>2. /\ answers \in [Endpoints -> {Unread, Absent} \cup {RecordOf(a) : a \in OfKind("public_share")}]
          /\ answers[endpoint] = Unread
          /\ \A e \in Endpoints \ {endpoint} : answers[e] = t.answers[e]
      BY <2>1 DEF Checks
    <2>3. PICK t2 : t2 = [t EXCEPT !.answers = answers]
      OBVIOUS
    <2>4. /\ t2 \in Checks /\ t2.pc = t.pc /\ t2.op = t.op /\ t2.asked = t.asked
          /\ t2.wasPublic = t.wasPublic /\ t2.dwallet = t.dwallet /\ t2.lagged = t.lagged
          /\ t2.answers = answers
      BY <2>2, <2>3 DEF Checks
    <2>5. task' = t2 /\ UNCHANGED <<chain, accepted, signatures, liar, result, request>>
      BY <1>5, <2>1, <2>3 DEF Continue
    <2>6. \A e \in Endpoints : answers[e] = Absent => t.answers[e] = Absent
      BY <2>2, AnswersDiffer
    <2>7. CheckOf(t2, chain, liar)
      BY <2>4, <2>6 DEF CheckOf
    <2>8. TaskOf(t2, chain, signatures, liar)
      BY <2>4, <2>7, NoneIsNone DEF TaskOf
    <2> QED BY <2>4, <2>5, <2>8, TaskMoves
  <1> QED
    <2>1. \A endpoint \in Asked : endpoint \in Endpoints
      BY DEF Asked, Endpoints
    <2> QED BY <1>2, <1>3, <1>4, <1>5, <2>1 DEF ReadPublicShare

\* An endpoint answers: one that does not lie finds no record only when it is behind.
LEMMA AnswerPublicShareKeeps ==
    ASSUME IInv, NEW endpoint \in Endpoints, AnswerPublicShare(endpoint)
    PROVE  IInv'
  <1>1. task.op # "none" /\ task.pc = "public"
    BY DEF AnswerPublicShare
  <1>2. PICK t : t = task /\ t \in Checks /\ CheckOf(t, chain, liar)
    BY <1>1, TaskAt
  <1>3. CASE Refuse
    BY <1>3, RefuseKeeps
  <1>4. ASSUME NEW behind \in BOOLEAN,
               NEW answer \in PublicAnswers(endpoint, AskedOf(task.dwallet), behind),
               ReadPublicShare([task EXCEPT !.answers[endpoint] = answer,
                   !.lagged = IF liar = endpoint THEN @ ELSE behind])
        PROVE  IInv'
    <2>1. PICK lagged \in BOOLEAN : lagged = IF liar = endpoint THEN t.lagged ELSE behind
      BY <1>2 DEF Checks
    <2>2. answer \in {Absent} \cup {RecordOf(a) : a \in OfKind("public_share")}
      BY DEF PublicAnswers, Committed, OfKind, Attested
    <2>3. PICK answers : answers = [t.answers EXCEPT ![endpoint] = answer]
      OBVIOUS
    <2>4. /\ answers \in [Endpoints -> {Unread, Absent} \cup {RecordOf(a) : a \in OfKind("public_share")}]
          /\ answers[endpoint] = answer
          /\ \A e \in Endpoints \ {endpoint} : answers[e] = t.answers[e]
      BY <1>2, <2>2, <2>3 DEF Checks
    <2>5. PICK t2 : t2 = [t EXCEPT !.answers = answers, !.lagged = lagged]
      OBVIOUS
    <2>6. /\ t2 \in Checks /\ t2.pc = t.pc /\ t2.op = t.op /\ t2.asked = t.asked
          /\ t2.wasPublic = t.wasPublic /\ t2.dwallet = t.dwallet
          /\ t2.answers = answers /\ t2.lagged = lagged
      BY <1>2, <2>4, <2>5 DEF Checks
    <2>7. ReadPublicShare(t2)
      BY <1>2, <1>4, <2>1, <2>3, <2>5
    <2>8. ASSUME t.wasPublic, AskedOf(t.dwallet) = t.asked, NEW e \in Endpoints, e # liar,
                 answers[e] = Absent
          PROVE  lagged
      <3>1. CASE e = endpoint
        BY <1>2, <1>4, <2>1, <2>4, <2>8, <3>1, PublicIsFound DEF CheckOf
      <3>2. CASE e # endpoint
        <4>1. liar = endpoint
          BY <2>8, <3>2 DEF Endpoints, IInv, TypeOK
        <4> QED BY <1>2, <2>1, <2>4, <2>8, <3>2, <4>1 DEF CheckOf
      <3> QED BY <3>1, <3>2
    <2>9. CheckOf(t2, chain, liar)
      BY <1>1, <1>2, <2>6, <2>8 DEF CheckOf
    <2> QED BY <1>1, <1>2, <2>6, <2>7, <2>9, ReadPublicShareKeeps
  <1> QED BY <1>3, <1>4 DEF AnswerPublicShare

LEMMA ReadOwnShareKeeps ==
    ASSUME IInv, ReadOwnShare
    PROVE  IInv'
  <1>1. task.op # "none" /\ task.pc = "share"
    BY DEF ReadOwnShare
  <1>2. PICK t : t = task /\ t \in Checks /\ CheckOf(t, chain, liar)
    BY <1>1, TaskAt
  <1>3. PICK given : given = IF task.dwallet.holder = None THEN NoSignature ELSE task.given
    OBVIOUS
  <1>4. CASE Refuse
    BY <1>4, RefuseKeeps
  <1>5. CASE Continue([task EXCEPT !.pc = "classic"])
    <2>1. PICK t2 : t2 = [t EXCEPT !.pc = "classic"]
      OBVIOUS
    <2>2. t2 \in Checks /\ t2.pc = "classic" /\ t2.op = t.op /\ t2.asked = t.asked
            /\ t2.wasPublic = t.wasPublic /\ t2.dwallet = t.dwallet
            /\ t2.answers = t.answers /\ t2.lagged = t.lagged
      BY <1>2, <2>1 DEF Checks
    <2>3. task' = t2 /\ UNCHANGED <<chain, accepted, signatures, liar, result, request>>
      BY <1>2, <1>5, <2>1 DEF Continue
    <2>4. CheckOf(t2, chain, liar)
      BY <1>1, <1>2, <2>2 DEF CheckOf
    <2>5. TaskOf(t2, chain, signatures, liar)
      BY <2>2, <2>4, NoneIsNone DEF TaskOf
    <2> QED BY <2>2, <2>3, <2>5, TaskMoves
  <1>6. ASSUME NEW answer, ShareVerifies(answer, task.user, given),
               Issue("encrypted", FALSE, AcceptanceGiven(answer.account, given))
        PROVE  IInv'
    <2>1. PICK waiting : waiting = AcceptanceGiven(answer.account, given) /\ waiting \in BOOLEAN
      BY DEF AcceptanceGiven
    <2>2. AcceptedIn(task.user, task.dwallet, signatures)
      BY <1>6, VerifiedShareIsAccepted DEF ShareVerifies
    <2>3. UsableIn(task.user, task.dwallet, signatures)
      BY <2>2 DEF UsableIn
    <2>4. Issue("encrypted", FALSE, waiting)
      BY <1>6, <2>1
    <2> QED BY <1>1, <1>2, <2>1, <2>2, <2>3, <2>4, IssueKeeps
  <1> QED BY <1>3, <1>4, <1>5, <1>6 DEF ReadOwnShare

LEMMA ReadClassicShareKeeps ==
    ASSUME IInv, ReadClassicShare
    PROVE  IInv'
  <1>1. task.op # "none" /\ task.pc = "classic"
    BY DEF ReadClassicShare
  <1>2. task \in Checks /\ CheckOf(task, chain, liar)
    BY <1>1, TaskAt
  <1>3. CASE Refuse
    BY <1>3, RefuseKeeps
  <1>4. CASE <<task.dwallet, task.user>> \in ClassicShares /\ Issue("encrypted", TRUE, FALSE)
    <2>1. UsableIn(task.user, task.dwallet, signatures)
      BY <1>4 DEF UsableIn
    <2> QED BY <1>1, <1>2, <1>4, <2>1, IssueKeeps
  <1> QED BY <1>3, <1>4 DEF ReadClassicShare

\* A request built from a result is for a share that is the holder's.
LEMMA BuildsKeeps ==
    ASSUME IInv, result # NoResult, NEW kind \in {"sign", "make_public", "re_encrypt", "future_sign"},
           NEW signed \in BOOLEAN, Builds(RequestOf(kind, signed))
    PROVE  IInv'
  <1>1. PICK r : r = result /\ r \in Results /\ ResultOf(r, signatures, liar)
    BY DEF IInv, TypeOK
  <1>2. PICK q : q = [kind |-> kind, dwallet |-> r.dwallet, user |-> r.holder,
                      waiting |-> r.waiting, signed |-> signed]
    OBVIOUS
  <1>3. q \in Requests
    BY <1>1, <1>2 DEF Results, Requests
  <1>4. RequestOK(q, signatures)
    BY <1>1, <1>2 DEF ResultOf, RequestOK
  <1>5. request' = q /\ UNCHANGED <<chain, accepted, signatures, liar, task, result>>
    BY <1>1, <1>2 DEF Builds, RequestOf
  <1>6. result' \in {NoResult} \cup Results /\ ResultOf(result', signatures, liar)
    BY <1>1, <1>5
  <1> QED BY <1>3, <1>4, <1>5, <1>6, ResultMoves

LEMMA SignGrpcRequestKeeps ==
    ASSUME IInv, NEW signer \in Users, SignGrpcRequest(signer)
    PROVE  IInv'
  <1>1. PICK q : q = request /\ q \in Requests /\ RequestOK(q, signatures)
    BY DEF SignGrpcRequest, IInv, TypeOK
  <1>2. PICK q2 : q2 = [q EXCEPT !.signed = TRUE]
    OBVIOUS
  <1>3. q2 \in Requests /\ q2.user = q.user /\ q2.dwallet = q.dwallet
    BY <1>1, <1>2 DEF Requests
  <1>4. RequestOK(q2, signatures)
    BY <1>1, <1>3 DEF RequestOK
  <1>5. request' = q2 /\ UNCHANGED <<chain, accepted, signatures, liar, task, result>>
    BY <1>1, <1>2 DEF SignGrpcRequest, Builds
  <1>6. result' \in {NoResult} \cup Results /\ ResultOf(result', signatures, liar)
    BY <1>5 DEF IInv, TypeOK
  <1> QED BY <1>3, <1>4, <1>5, <1>6, ResultMoves

LEMMA TickKeeps ==
    ASSUME IInv, Tick
    PROVE  IInv'
  <1>1. PICK r : r = result /\ r \in Results /\ ResultOf(r, signatures, liar) /\ r.age <= MaxAge
    BY DEF Tick, IInv, TypeOK
  <1>2. PICK age : age = r.age + 1
    OBVIOUS
  <1>3. age \in 0 .. MaxAge + 1
    BY <1>1, <1>2, OwnershipAssumption DEF Results
  <1>4. PICK r2 : r2 = [r EXCEPT !.age = age]
    OBVIOUS
  <1>5. r2 \in Results /\ r2.holder = r.holder /\ r2.dwallet = r.dwallet /\ r2.share = r.share
          /\ r2.migrated = r.migrated /\ r2.wasPublic = r.wasPublic /\ r2.lagged = r.lagged
    BY <1>1, <1>3, <1>4 DEF Results
  <1>6. ResultOf(r2, signatures, liar)
    BY <1>1, <1>5 DEF ResultOf
  <1>7. result' = r2 /\ UNCHANGED <<chain, accepted, signatures, liar, task, request>>
    BY <1>1, <1>2, <1>4 DEF Tick
  <1>8. request' \in {NoRequest} \cup Requests /\ RequestOK(request', signatures)
    BY <1>7 DEF IInv, TypeOK
  <1> QED BY <1>5, <1>6, <1>7, <1>8, ResultMoves

LEMMA ForgetKeeps ==
    ASSUME IInv, Forget
    PROVE  IInv'
  <1>1. result' = NoResult /\ request' = NoRequest
          /\ UNCHANGED <<chain, accepted, signatures, liar, task>>
    BY DEF Forget
  <1>2. ResultOf(NoResult, signatures, liar) /\ RequestOK(NoRequest, signatures)
    BY NoneIsNone DEF ResultOf, RequestOK
  <1> QED BY <1>1, <1>2, ResultMoves

\* The holder that the dWallet's attestation names asked for it.
LEMMA SignDWalletShareAcceptanceKeeps ==
    ASSUME IInv, NEW user \in Users, NEW sent \in Sent[user], NEW a \in OfKind("dwallet"),
           NEW networkKey, SignDWalletShareAcceptance(user, sent, a, networkKey)
    PROVE  IInv'
  <1>1. PICK d : d = a.data
    OBVIOUS
  <1>2. /\ d.kind = "dwallet" /\ d.holder = user /\ d.session = sent.session
        /\ d.output.contribution = sent.contribution
    BY <1>1 DEF SignDWalletShareAcceptance, VerifyAndDecode, DecodesAs, RecordOf
  <1>3. PICK s : s = [by |-> user, digest |-> d]
    OBVIOUS
  <1>4. signatures' = signatures \cup {s} /\ UNCHANGED <<chain, accepted, liar, task, result, request>>
    BY <1>1, <1>3 DEF SignDWalletShareAcceptance, Signs
  <1>5. s \in Signatures
    BY <1>1, <1>3 DEF Signatures, OfKind
  <1>6. DWalletOf(s.digest) = d
    BY <1>2, <1>3 DEF DWalletOf
  <1>7. CustodyIn(d, signatures')
    BY <1>2, <1>3, <1>4 DEF CustodyIn
  <1> QED BY <1>4, <1>5, <1>6, <1>7, SignaturesGrow

LEMMA SignReEncryptedShareAcceptanceKeeps ==
    ASSUME IInv, NEW user \in Users, NEW sender \in Users,
           SignReEncryptedShareAcceptance(user, sender)
    PROVE  IInv'
  <1>1. PICK given \in Given(sender), dwallet \in DWallets :
        Starts([op |-> "accept", pc |-> "dwallet", user |-> user, dwallet |-> dwallet,
                asked |-> AskedOf(dwallet), given |-> given, networkKey |-> None,
                wasPublic |-> FALSE, sender |-> sender])
    BY DEF SignReEncryptedShareAcceptance
  <1>2. given \in {NoSignature} \cup Signatures
    BY GivenFits DEF IInv
  <1>3. PICK asked : asked = AskedOf(dwallet) /\ asked \in {AskedOf(d) : d \in DWallets}
    OBVIOUS
  <1>4. PICK t : t = [op |-> "accept", pc |-> "dwallet", user |-> user, dwallet |-> dwallet,
                asked |-> asked, given |-> given, networkKey |-> None,
                wasPublic |-> FALSE, sender |-> sender]
    OBVIOUS
  <1>5. t \in Acceptances /\ t.pc = "dwallet"
    BY <1>2, <1>3, <1>4 DEF Acceptances
  <1>6. TaskOf(t, chain, signatures, liar)
    BY <1>5, NoneIsNone DEF TaskOf, AcceptanceOf
  <1>7. task' = t /\ UNCHANGED <<chain, accepted, signatures, liar, result, request>>
    BY <1>1, <1>3, <1>4 DEF Starts
  <1> QED BY <1>5, <1>6, <1>7, TaskMoves

LEMMA ReadSenderShareKeeps ==
    ASSUME IInv, ReadSenderShare
    PROVE  IInv'
  <1>1. task.op # "none" /\ task.pc = "sender"
    BY DEF ReadSenderShare
  <1>2. PICK t : t = task /\ t \in Acceptances /\ AcceptanceOf(t, signatures)
    BY <1>1, TaskAt
  <1>3. CASE Refuse
    BY <1>3, RefuseKeeps
  <1>4. ASSUME NEW answer, ShareVerifies(answer, task.sender, task.given),
               Continue([task EXCEPT !.pc = "decrypt"])
        PROVE  IInv'
    <2>1. t.dwallet.kind = "dwallet"
      BY <1>1, <1>2 DEF AcceptanceOf
    <2>2. CustodyIn(task.dwallet, signatures)
      BY <1>2, <1>4, <2>1, VerifiedShareHasCustody DEF ShareVerifies, IInv
    <2>3. PICK t2 : t2 = [t EXCEPT !.pc = "decrypt"]
      OBVIOUS
    <2>4. t2 \in Acceptances /\ t2.pc = "decrypt" /\ t2.dwallet = t.dwallet
      BY <1>2, <2>3 DEF Acceptances
    <2>5. AcceptanceOf(t2, signatures)
      BY <1>2, <2>1, <2>2, <2>4 DEF AcceptanceOf
    <2>6. TaskOf(t2, chain, signatures, liar)
      BY <2>4, <2>5, NoneIsNone DEF TaskOf
    <2>7. task' = t2 /\ UNCHANGED <<chain, accepted, signatures, liar, result, request>>
      BY <1>2, <1>4, <2>3 DEF Continue
    <2> QED BY <2>4, <2>6, <2>7, TaskMoves
  <1> QED BY <1>3, <1>4 DEF ReadSenderShare

LEMMA DecryptAndSignKeeps ==
    ASSUME IInv, NEW a \in OfKind("encrypted_share"), NEW networkKey, DecryptAndSign(a, networkKey)
    PROVE  IInv'
  <1>1. task.op # "none" /\ task.pc = "decrypt"
    BY DEF DecryptAndSign
  <1>2. PICK t : t = task /\ t \in Acceptances /\ AcceptanceOf(t, signatures)
    BY <1>1, TaskAt
  <1>3. task' = Idle /\ UNCHANGED <<chain, accepted, liar, result, request>>
    BY DEF DecryptAndSign
  <1>4. CASE ReEncryptedShareFits(a, networkKey)
    <2>1. a.data.kind = "encrypted_share" /\ a.data.digest = t.dwallet
      BY <1>2, <1>4 DEF ReEncryptedShareFits, VerifyAndDecode, DecodesAs, RecordOf,
                        RequireSameDWallet
    <2>2. PICK s : s = [by |-> t.user, digest |-> a.data]
      OBVIOUS
    <2>3. signatures' = signatures \cup {s}
      BY <1>2, <1>4, <2>2 DEF DecryptAndSign, Signs
    <2>4. t.user \in Users
      BY <1>2 DEF Acceptances
    <2>5. s \in Signatures
      BY <2>2, <2>4 DEF Signatures, OfKind
    <2>6. DWalletOf(s.digest) = t.dwallet
      BY <2>1, <2>2 DEF DWalletOf
    <2>7. CustodyIn(t.dwallet, signatures)
      BY <1>1, <1>2 DEF AcceptanceOf
    <2>8. CustodyIn(t.dwallet, signatures')
      BY <2>3, <2>7, Grows
    <2> QED BY <1>3, <2>3, <2>5, <2>6, <2>8, SignaturesGrow
  <1>5. CASE ~ReEncryptedShareFits(a, networkKey)
    <2>1. UNCHANGED signatures
      BY <1>5 DEF DecryptAndSign
    <2>2. TaskOf(Idle, chain, signatures, liar)
      BY NoneIsNone DEF TaskOf
    <2> QED BY <1>3, <2>1, <2>2, TaskMoves
  <1> QED BY <1>4, <1>5

-----------------------------------------------------------------------------
(* The invariant is preserved.                                             *)

LEMMA InitHolds == Init => IInv
  <1> SUFFICES ASSUME Init PROVE IInv
    OBVIOUS
  <1>1. TypeOK
    BY DEF Init, TypeOK
  <1>2. CustodyOf(signatures)
    BY DEF Init, CustodyOf
  <1>3. TaskOf(task, chain, signatures, liar) /\ ResultOf(result, signatures, liar)
          /\ RequestOK(request, signatures)
    BY NoneIsNone DEF Init, TaskOf, ResultOf, RequestOK
  <1> QED BY <1>1, <1>2, <1>3 DEF IInv

LEMMA NextKeeps == IInv /\ [Next]_vars => IInv'
  <1> SUFFICES ASSUME IInv, [Next]_vars PROVE IInv'
    OBVIOUS
  <1>1. CASE UNCHANGED vars
    BY <1>1, TaskMoves DEF vars, IInv, TypeOK
  <1>2. ASSUME NEW session \in Sessions, Commit(session) PROVE IInv'
    BY <1>2, CommitKeeps
  <1>3. ASSUME NEW a \in Committed("encrypted_share"), Accept(a.data) \/ AcceptAttached(a.data)
        PROVE  IInv'
    BY <1>3, AcceptKeeps, AcceptAttachedKeeps
  <1>4. ASSUME NEW user \in Users, NEW dwallet \in DWallets, AssertDWalletUsable(user, dwallet)
        PROVE  IInv'
    <2>1. PICK given \in Given(user) : Starts(Call("assert", "dwallet", user, dwallet, given))
      BY <1>4 DEF AssertDWalletUsable
    <2>2. given \in {NoSignature} \cup Signatures
      BY GivenFits DEF IInv
    <2> QED BY <2>1, <2>2, CallFits
  <1>5. ASSUME NEW user \in Users, NEW dwallet \in DWallets, ReadDWalletVerified(user, dwallet)
        PROVE  IInv'
    <2>1. PICK given \in Given(user) : Starts(Call("read", "lookup", user, dwallet, given))
      BY <1>5 DEF ReadDWalletVerified
    <2>2. given \in {NoSignature} \cup Signatures
      BY GivenFits DEF IInv
    <2> QED BY <2>1, <2>2, CallFits
  <1>6. ASSUME NEW user \in Users, NEW dwallet \in DWallets, SignWithReader(user, dwallet)
        PROVE  IInv'
    <2>1. Starts(Call("sign", "dwallet", user, dwallet, NoSignature))
      BY <1>6 DEF SignWithReader
    <2> QED BY <2>1, CallFits
  <1>7. ASSUME NEW user, NEW dwallet, NEW networkKey, NEW requestChain,
               SignWithResult(user, dwallet, networkKey, requestChain)
        PROVE  IInv'
    BY <1>7, BuildsKeeps DEF SignWithResult, IsFresh
  <1>8. ASSUME NEW user \in Users, NEW sent \in Sent[user], NEW a \in OfKind("dwallet"),
               NEW networkKey, SignDWalletShareAcceptance(user, sent, a, networkKey)
        PROVE  IInv'
    BY <1>8, SignDWalletShareAcceptanceKeeps
  <1>9. CASE \/ Lookup \/ ReadDWallet \/ ReadOwnShare \/ ReadClassicShare
             \/ \E endpoint \in Endpoints : AnswerPublicShare(endpoint)
    BY <1>9, LookupKeeps, ReadDWalletKeeps, AnswerPublicShareKeeps, ReadOwnShareKeeps,
       ReadClassicShareKeeps
  <1>10. ASSUME NEW user \in Users, NEW sender \in Users \ {user},
                SignReEncryptedShareAcceptance(user, sender)
         PROVE  IInv'
    BY <1>10, SignReEncryptedShareAcceptanceKeeps
  <1>11. CASE ReadSenderShare
    BY <1>11, ReadSenderShareKeeps
  <1>12. ASSUME NEW a \in OfKind("encrypted_share"), NEW networkKey, DecryptAndSign(a, networkKey)
         PROVE  IInv'
    BY <1>12, DecryptAndSignKeeps
  <1>13. CASE MakeSharePublicRequest
    BY <1>13, BuildsKeeps DEF MakeSharePublicRequest, IsFresh
  <1>14. CASE ReEncryptShareRequest
    BY <1>14, BuildsKeeps DEF ReEncryptShareRequest, IsFresh
  <1>15. CASE FutureSignRequest
    BY <1>15, BuildsKeeps DEF FutureSignRequest, IsFresh
  <1>16. ASSUME NEW signer \in Users, SignGrpcRequest(signer) PROVE IInv'
    BY <1>16, SignGrpcRequestKeeps
  <1>17. CASE Tick \/ Forget
    BY <1>17, TickKeeps, ForgetKeeps
  <1>18. CASE Next
    BY <1>2, <1>3, <1>4, <1>5, <1>6, <1>7, <1>8, <1>9, <1>10, <1>11, <1>12, <1>13, <1>14, <1>15,
       <1>16, <1>17, <1>18 DEF Next
  <1> QED BY <1>1, <1>18

-----------------------------------------------------------------------------
(* The theorems.                                                           *)

\* Every reachable state satisfies the inductive invariant.
THEOREM Invariance == Spec => []IInv
  <1>1. Init => IInv
    BY InitHolds
  <1>2. IInv /\ [Next]_vars => IInv'
    BY NextKeeps
  <1> QED BY <1>1, <1>2, PTL DEF Spec

\* The ownership check, its result and the requests built from it keep their
\* types; a share accepted on the chain is committed there.
THEOREM TypeCorrect == Spec => []TypeOK
  <1>1. IInv => TypeOK
    BY DEF IInv
  <1> QED BY <1>1, Invariance, PTL

\* The check of share-ownership.ts calls a share the user's only when the user's
\* key accepted a share of this very dWallet, for any attestations signed by
\* anyone, whatever the endpoints serve, cross-checked or not.
THEOREM EncryptedIsAccepted == Spec => []EncryptedMeansAccepted
  <1>1. IInv => EncryptedMeansAccepted
    <2> SUFFICES ASSUME IInv, result # NoResult, result.share = "encrypted"
                 PROVE  \/ HasAccepted(result.holder, result.dwallet)
                        \/ result.migrated /\ <<result.dwallet, result.holder>> \in ClassicShares
      BY DEF EncryptedMeansAccepted
    <2>1. result \in Results /\ ResultOf(result, signatures, liar)
      BY DEF IInv, TypeOK
    <2> QED BY <2>1, NowIn DEF ResultOf
  <1> QED BY <1>1, Invariance, PTL

\* With a cross-checked read of the public share, one endpoint alone, whatever it
\* serves and whenever each endpoint is read, cannot make the check report a public
\* share as encrypted: the other one must have been behind the chain.
THEOREM PublicShown == Spec => []PublicIsNotHidden
  <1>1. IInv => PublicIsNotHidden
    <2> SUFFICES ASSUME IInv, CrossCheck \/ liar # "first",
                        result # NoResult, result.share = "encrypted", result.wasPublic
                 PROVE  result.lagged
      BY DEF PublicIsNotHidden
    <2>1. result \in Results /\ ResultOf(result, signatures, liar)
      BY DEF IInv, TypeOK
    <2> QED BY <2>1 DEF ResultOf
  <1> QED BY <1>1, Invariance, PTL

\* A request of requests.ts that signs with a dWallet is signed only for a share
\* that is the user's, whether it was built from a result, which may have aged
\* since, or with a reader.
THEOREM SignsForUsable == Spec => []SignsOnlyForUsable
  <1>1. IInv => SignsOnlyForUsable
    <2> SUFFICES ASSUME IInv, request # NoRequest
                 PROVE  Usable(request.user, request.dwallet)
      BY DEF SignsOnlyForUsable
    <2>1. request \in Requests /\ RequestOK(request, signatures)
      BY DEF IInv, TypeOK
    <2> QED BY <2>1, NowIn DEF RequestOK
  <1> QED BY <1>1, Invariance, PTL

\* Every acceptance signed by dwallet-share-acceptance.ts goes back, through any
\* chain of re-encryptions, to the acceptance of the creator, who asked for this
\* output, or to a migrated dWallet.
THEOREM CustodyFromCreator == Spec => []CustodyStartsWithCreator
  <1>1. IInv => CustodyStartsWithCreator
    <2> SUFFICES ASSUME IInv PROVE CustodyStartsWithCreator
      OBVIOUS
    <2>1. \A s \in signatures : CustodyIn(DWalletOf(s.digest), signatures)
      BY DEF IInv, CustodyOf
    <2> QED BY <2>1 DEF CustodyIn, DWalletOf, CustodyStartsWithCreator
  <1> QED BY <1>1, Invariance, PTL

=============================================================================
