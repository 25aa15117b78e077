----------------------- MODULE RequestSubmissionProofs -----------------------
(***************************************************************************)
(* For any number of calls, sessions, targets and epochs: a call's request *)
(* runs at most once, an expired presign or a "neverRan" means nothing     *)
(* ran, a rebuilt request names a later epoch, and a submission keeps the  *)
(* promise of RequestPromise.                                              *)
(***************************************************************************)
EXTENDS RequestSubmission, TLAPS

\* A session that has not run and never will: refused for free, or not started
\* before the chain showed that its epoch was over.
Dead(s) ==
    \/ fate[s] = "free"
    \/ fate[s] = "none" /\ request[s].epoch < chainEpoch

\* The chain is at most one epoch ahead, and only past the cutoff.
EpochsInv ==
    chainEpoch = netEpoch \/ (chainEpoch = netEpoch + 1 /\ phase = "cutoff")

\* What the chain holds about a session that was started.
SettlementInv ==
    \A s \in Sessions :
        /\ fate[s] = "sequenced" /\ request[s].epoch < chainEpoch =>
              /\ request[s].kind = "reEncryptShare"
              /\ request[s].epoch + 1 = chainEpoch
        /\ fate[s] = "delivered" /\ request[s].kind \in TargetKinds =>
              record[request[s].target][request[s].kind] # NoSession
        /\ fate[s] = "hidden" =>
              /\ request[s].kind \in HiddenChargeKinds
              /\ request[s].kind = "futureSignStepOne" => request[s].target \in closed

\* A session nobody opened was not sent; the others have an owner, and all
\* that an owner replaced are dead.
SessionsInv ==
    \A s \in Sessions :
        /\ owner[s] = NoCall => s \notin handed /\ fate[s] = "none"
        /\ \A c \in Calls : owner[s] = c /\ s # current[c] => Dead(s)

\* The steps at which a call has an open session.
SessionSteps == {"signing", "sending", "resending", "waiting", "lookup",
                 "chargesElseNotRun", "chargesElseUnknown"}
LookupSteps == {"lookup", "chargesElseNotRun", "chargesElseUnknown"}

\* Where a call is, against the session it opened last.
CallInv(c) ==
    /\ current[c] # NoSession => owner[current[c]] = c
    /\ pc[c] \in SessionSteps => current[c] # NoSession
    /\ result[c] = "epochClosed" => current[c] # NoSession
    /\ pc[c] = "idle" => current[c] = NoSession
    /\ pc[c] \in {"idle", "takingPresign", "reading"} =>
          /\ result[c] = "none"
          /\ current[c] # NoSession => Dead(current[c])
    /\ pc[c] \in {"takingPresign", "reading"} /\ current[c] # NoSession =>
          fate[current[c]] = "free" \/ request[current[c]].epoch < epoch
    /\ pc[c] \in LookupSteps =>
          /\ SettledAt(current[c]) <= chainEpoch
          /\ result[c] \in {"none", "epochClosed"}
          /\ result[c] = "none" => SettledAt(current[c]) <= epoch
          /\ verdict[c] # "neverRan"
    /\ pc[c] = "chargesElseNotRun" =>
          /\ fate[current[c]] # "hidden"
          /\ fate[current[c]] = "delivered" => request[current[c]].kind = "presign"
    /\ pc[c] \in SessionSteps \ LookupSteps => result[c] = "none"
    /\ result[c] = "presignExpired" /\ current[c] # NoSession => Dead(current[c])
    /\ verdict[c] # "none" => result[c] = "epochClosed"
    /\ verdict[c] = "neverRan" => Dead(current[c])

IInv ==
    /\ TypeOK
    /\ EpochsInv
    /\ epoch <= chainEpoch
    /\ SettlementInv
    /\ SessionsInv
    /\ \A c \in Calls : CallInv(c)

-----------------------------------------------------------------------------
(* Type correctness.                                                       *)

\* A step of the network keeps the types of its state.
LEMMA NetTypes ==
    ASSUME NetTypeOK, NetNext PROVE NetTypeOK'
<1> USE DEF NetTypeOK
<1>1. ASSUME NEW s \in Sessions, Sequence(s) PROVE NetTypeOK'
  BY <1>1 DEF Sequence, Fates
<1>2. ASSUME NEW s \in Sessions, RefuseFree(s) PROVE NetTypeOK'
  BY <1>2 DEF RefuseFree, Fates
<1>3. ASSUME NEW s \in Sessions, Drop(s) PROVE NetTypeOK'
  BY <1>3 DEF Drop
<1>4. ASSUME NEW s \in Sessions, Deliver(s) PROVE NetTypeOK'
  <2>1. request[s].target \in Targets \cup {NoTarget}
    BY DEF Request
  <2>2. fate' \in [Sessions -> Fates]
    BY <1>4 DEF Deliver, Fates
  <2>3. record' \in [Targets \cup {NoTarget} -> [TargetKinds -> Sessions \cup {NoSession}]]
    <3>1. CASE request[s].kind \in TargetKinds
      <4>1. [record[request[s].target] EXCEPT ![request[s].kind] = s]
               \in [TargetKinds -> Sessions \cup {NoSession}]
        BY <2>1, <3>1
      <4> QED BY <1>4, <2>1, <3>1, <4>1 DEF Deliver
    <3>2. CASE request[s].kind \notin TargetKinds
      BY <1>4, <3>2 DEF Deliver
    <3> QED BY <3>1, <3>2
  <2> QED BY <1>4, <2>2, <2>3 DEF Deliver
<1>5. ASSUME NEW s \in Sessions, Charge(s) PROVE NetTypeOK'
  BY <1>5 DEF Charge, Fates
<1>6. ASSUME NEW s \in Sessions, GiveUpHidden(s) PROVE NetTypeOK'
  BY <1>6 DEF GiveUpHidden, Fates, Request
<1>7. ASSUME BeginClose PROVE NetTypeOK'
  BY <1>7 DEF BeginClose
<1>8. ASSUME Cutoff PROVE NetTypeOK'
  BY <1>8 DEF Cutoff
<1>9. ASSUME ShowEpoch PROVE NetTypeOK'
  BY <1>9 DEF ShowEpoch
<1>10. ASSUME EnterEpoch PROVE NetTypeOK'
  BY <1>10 DEF EnterEpoch
<1> QED
  BY <1>1, <1>2, <1>3, <1>4, <1>5, <1>6, <1>7, <1>8, <1>9, <1>10 DEF NetNext

\* The initial state has the types of both modules.
LEMMA TypeInit == Init => TypeOK
<1> SUFFICES ASSUME Init PROVE TypeOK
  OBVIOUS
<1>1. NetTypeOK
  <2>1. NotSigned \in Request
    BY DEF NotSigned, Request, Kinds
  <2> QED BY <2>1 DEF Init, NetInit, NetTypeOK, Fates
<1>2. NotCalled \in Args
  BY DEF NotCalled, Args, Kinds, Modes
<1> QED BY <1>1, <1>2 DEF Init, TypeOK, Steps, Results

\* A read of the chain's epoch keeps a natural number.
LEMMA LaterOfType ==
    ASSUME TypeOK, NEW read \in 1 .. chainEpoch
    PROVE  LaterOf(read) \in Nat /\ LaterOf(read) >= epoch
BY DEF LaterOf, TypeOK, NetTypeOK

\* A step of a call keeps the types: what it sends is a session it opened.
LEMMA CallTypes ==
    ASSUME TypeOK, NEW c \in Calls, CallNext(c),
           pc[c] \in SessionSteps => current[c] # NoSession
    PROVE  TypeOK'
<1> USE DEF TypeOK
<1>0. ASSUME UNCHANGED netVars PROVE NetTypeOK'
  BY <1>0 DEF netVars, NetTypeOK
<1>h. ASSUME current[c] \in Sessions, handed' = handed \cup {current[c]},
             UNCHANGED <<netEpoch, phase, chainEpoch, request, fate, record, closed>>
      PROVE  NetTypeOK'
  BY <1>h DEF NetTypeOK
<1>1. CASE Start(c)
  <2>0. PICK k \in AppKinds : \E m \in ModesOf(k), t \in TargetsOf(k) :
          /\ args' = [args EXCEPT ![c] = [kind |-> k, target |-> t, mode |-> m]]
          /\ Goto(c, IF m = "ownPresign" THEN "takingPresign" ELSE "reading")
          /\ IF m = "presign"
             THEN \E e \in 1 .. chainEpoch :
                     presignEpoch' = [presignEpoch EXCEPT ![c] = e]
             ELSE UNCHANGED presignEpoch
    BY <1>1 DEF Start
  <2>1. PICK m \in ModesOf(k), t \in TargetsOf(k) :
          /\ args' = [args EXCEPT ![c] = [kind |-> k, target |-> t, mode |-> m]]
          /\ Goto(c, IF m = "ownPresign" THEN "takingPresign" ELSE "reading")
          /\ IF m = "presign"
             THEN \E e \in 1 .. chainEpoch :
                     presignEpoch' = [presignEpoch EXCEPT ![c] = e]
             ELSE UNCHANGED presignEpoch
    BY <2>0
  <2>2. m \in Modes
    BY DEF ModesOf, Modes
  <2>3. [kind |-> k, target |-> t, mode |-> m] \in Args
    BY <2>2, SubmissionAssumption DEF Args, TargetsOf
  <2>4. args' \in [Calls -> Args]
    BY <2>1, <2>3
  <2>5. presignEpoch' \in [Calls -> Nat]
    BY <2>1 DEF NetTypeOK
  <2>6. pc' \in [Calls -> Steps] /\ result' = result
    BY <2>1 DEF Goto, Steps
  <2> QED BY <1>0, <1>1, <2>4, <2>5, <2>6, SubmissionAssumption DEF Start
<1>2. CASE TakePresign(c)
  BY <1>0, <1>2, LaterOfType DEF TakePresign, Goto, Steps
<1>3. CASE OpenSession(c)
  <2>1. PICK read \in 1 .. chainEpoch :
          /\ epoch' = LaterOf(read)
          /\ \/ /\ Expire(c)
                /\ UNCHANGED <<request, owner, current>>
             \/ /\ \E s \in Sessions :
                      /\ owner' = [owner EXCEPT ![s] = c]
                      /\ current' = [current EXCEPT ![c] = s]
                      /\ request' = [request EXCEPT ![s] =
                            [kind |-> args[c].kind, target |-> args[c].target,
                             epoch |-> NamedEpoch(c, LaterOf(read))]]
                /\ Goto(c, "signing")
                /\ UNCHANGED attempt
    BY <1>3 DEF OpenSession
  <2>2. epoch' \in Nat
    BY <2>1, LaterOfType
  <2>3. CASE Expire(c) /\ UNCHANGED <<request, owner, current>>
    BY <1>3, <2>2, <2>3 DEF OpenSession, Expire, Goto, End, Steps, Results, NetTypeOK
  <2>4. ASSUME NEW s \in Sessions,
               owner' = [owner EXCEPT ![s] = c],
               current' = [current EXCEPT ![c] = s],
               request' = [request EXCEPT ![s] =
                            [kind |-> args[c].kind, target |-> args[c].target,
                             epoch |-> NamedEpoch(c, LaterOf(read))]],
               Goto(c, "signing"), UNCHANGED attempt
        PROVE  TypeOK'
    <3>1. NamedEpoch(c, LaterOf(read)) \in Nat
      BY LaterOfType DEF NamedEpoch
    <3>2. request' \in [Sessions -> Request]
      BY <2>4, <3>1 DEF Request, Args, NetTypeOK
    <3>3. NetTypeOK'
      BY <1>3, <3>2 DEF OpenSession, NetTypeOK
    <3> QED BY <1>3, <2>2, <2>4, <3>3 DEF OpenSession, Goto, Steps
  <2> QED BY <2>1, <2>3, <2>4
<1>4. CASE Send(c)
  <2>1. pc' \in [Calls -> Steps] /\ UNCHANGED result
    BY <1>4 DEF Send, Goto, Steps
  <2>2. current[c] \in Sessions
    BY <1>4 DEF Send, SessionSteps
  <2>3. NetTypeOK'
    BY <1>4, <1>h, <2>2 DEF Send
  <2> QED BY <1>4, <2>1, <2>3 DEF Send
<1>5. CASE Resend(c)
  <2>1. current[c] \in Sessions
    BY <1>5 DEF Resend, SessionSteps
  <2>2. NetTypeOK'
    BY <1>5, <1>h, <2>1 DEF Resend
  <2> QED BY <1>5, <2>2 DEF Resend, callVars
<1>6. CASE DepositUnread(c)
  <2>1. pc' \in [Calls -> Steps] /\ UNCHANGED result
    BY <1>6 DEF DepositUnread, Goto, Steps
  <2>2. current[c] \in Sessions
    BY <1>6 DEF DepositUnread, SessionSteps
  <2>3. NetTypeOK'
    BY <1>6, <1>h, <2>2 DEF DepositUnread
  <2> QED BY <1>6, <2>1, <2>3 DEF DepositUnread
<1>7. CASE Answered(c)
  BY <1>0, <1>7 DEF Answered, End, Steps, Results
<1>8. CASE PoolEmpty(c)
  BY <1>0, <1>8, SubmissionAssumption DEF PoolEmpty, Goto, End, Steps, Results
<1>9. CASE ClosedBeforeAnswer(c)
  BY <1>0, <1>9 DEF ClosedBeforeAnswer, Goto, Steps
<1>10. CASE SubmitFails(c)
  BY <1>0, <1>10 DEF SubmitFails, End, Steps, Results
<1>11. CASE Throws(c)
  BY <1>0, <1>11 DEF Throws, End, Steps, Results
<1>12. CASE PollEpoch(c)
  BY <1>0, <1>12, LaterOfType DEF PollEpoch
<1>13. CASE WaitEndsUnknown(c)
  BY <1>0, <1>13 DEF WaitEndsUnknown, End, Steps, Results
<1>14. CASE StartLookup(c)
  BY <1>0, <1>14 DEF StartLookup, Goto, Steps
<1>15. CASE ResolveSession(c)
  BY <1>0, <1>15 DEF ResolveSession, Goto, Steps
<1>16. CASE LookupRecord(c)
  <2>1. RecordOutcome(current[c]) \in
          {"ran", "signature", "chargesElseNotRun", "chargesElseUnknown"}
    <3>1. request[current[c]].kind \in Kinds
      BY <1>16 DEF LookupRecord, SessionSteps, NetTypeOK, Request
    <3> QED BY <3>1 DEF RecordOutcome, Kinds
  <2> QED
    BY <1>0, <1>16, <2>1 DEF LookupRecord, Found, End, Goto, Steps, Results
<1>17. CASE LookupCharges(c)
  <2>1. CASE Found(c, "ran") /\ UNCHANGED <<rebuildsLeft, attempt>>
    BY <1>0, <1>17, <2>1 DEF LookupCharges, Found, End, Steps, Results
  <2>2. CASE NotKnown(c) /\ UNCHANGED <<rebuildsLeft, attempt>>
    BY <1>0, <1>17, <2>2 DEF LookupCharges, NotKnown, End, Steps, Results
  <2>3. CASE NeverRan(c)
    BY <1>0, <1>17, <2>3
      DEF LookupCharges, NeverRan, Expire, End, Goto, Steps, Results
  <2> QED BY <1>17, <2>1, <2>2, <2>3 DEF LookupCharges
<1>18. CASE LookupFails(c)
  BY <1>0, <1>18 DEF LookupFails, End, Steps, Results
<1> QED
  BY <1>1, <1>2, <1>3, <1>4, <1>5, <1>6, <1>7, <1>8, <1>9, <1>10, <1>11,
     <1>12, <1>13, <1>14, <1>15, <1>16, <1>17, <1>18 DEF CallNext

-----------------------------------------------------------------------------
(* What a step may change.                                                 *)

\* A call's step leaves the network's sessions, the chain, the requests that
\* were signed and every other call alone, and #epoch never goes back, nor
\* past the chain.
LEMMA CallFrame ==
    ASSUME TypeOK, NEW c \in Calls, CallNext(c)
    PROVE  /\ UNCHANGED <<netEpoch, phase, chainEpoch, fate, record, closed>>
           /\ \A s \in Sessions : owner[s] # NoCall =>
                 request'[s] = request[s] /\ owner'[s] = owner[s]
           /\ \A d \in Calls \ {c} :
                 /\ pc'[d] = pc[d] /\ result'[d] = result[d]
                 /\ current'[d] = current[d] /\ verdict'[d] = verdict[d]
           /\ epoch' >= epoch
           /\ epoch <= chainEpoch => epoch' <= chainEpoch
<1>r. \A read \in 1 .. chainEpoch :
         /\ LaterOf(read) >= epoch
         /\ epoch <= chainEpoch => LaterOf(read) <= chainEpoch
  BY DEF LaterOf, TypeOK, NetTypeOK
<1>e. epoch >= epoch
  BY DEF TypeOK
<1> USE <1>r, <1>e DEF TypeOK
<1>1. CASE Start(c)
  BY <1>1 DEF Start, Goto, netVars
<1>2. CASE TakePresign(c)
  BY <1>2 DEF TakePresign, Goto, netVars
<1>3. CASE OpenSession(c)
  <2>1. UNCHANGED <<netEpoch, phase, chainEpoch, fate, record, closed, verdict>>
    BY <1>3 DEF OpenSession
  <2>2. epoch' >= epoch /\ (epoch <= chainEpoch => epoch' <= chainEpoch)
    BY <1>3 DEF OpenSession
  <2>3. \A d \in Calls \ {c} : pc'[d] = pc[d] /\ result'[d] = result[d]
    BY <1>3 DEF OpenSession, Expire, Goto, End
  <2>4. \A s \in Sessions : owner[s] # NoCall =>
                 request'[s] = request[s] /\ owner'[s] = owner[s]
    BY <1>3 DEF OpenSession, NetTypeOK
  <2>5. \A d \in Calls \ {c} : current'[d] = current[d]
    BY <1>3 DEF OpenSession
  <2> QED BY <2>1, <2>2, <2>3, <2>4, <2>5
<1>4. CASE Send(c)
  BY <1>4 DEF Send, Goto
<1>5. CASE Resend(c)
  BY <1>5 DEF Resend, callVars
<1>6. CASE DepositUnread(c)
  BY <1>6 DEF DepositUnread, Goto
<1>7. CASE Answered(c)
  BY <1>7 DEF Answered, End, netVars
<1>8. CASE PoolEmpty(c)
  BY <1>8 DEF PoolEmpty, Goto, End, netVars
<1>9. CASE ClosedBeforeAnswer(c)
  BY <1>9 DEF ClosedBeforeAnswer, Goto, netVars
<1>10. CASE SubmitFails(c)
  BY <1>10 DEF SubmitFails, End, netVars
<1>11. CASE Throws(c)
  BY <1>11 DEF Throws, End, netVars
<1>12. CASE PollEpoch(c)
  BY <1>12 DEF PollEpoch, netVars
<1>13. CASE WaitEndsUnknown(c)
  BY <1>13 DEF WaitEndsUnknown, End, netVars
<1>14. CASE StartLookup(c)
  BY <1>14 DEF StartLookup, Goto, netVars
<1>15. CASE ResolveSession(c)
  BY <1>15 DEF ResolveSession, Goto, netVars
<1>16. CASE LookupRecord(c)
  BY <1>16 DEF LookupRecord, Found, End, Goto, netVars
<1>17. CASE LookupCharges(c)
  BY <1>17 DEF LookupCharges, Found, NotKnown, NeverRan, Expire, End, Goto, netVars
<1>18. CASE LookupFails(c)
  BY <1>18 DEF LookupFails, End, netVars
<1> QED
  BY <1>1, <1>2, <1>3, <1>4, <1>5, <1>6, <1>7, <1>8, <1>9, <1>10, <1>11,
     <1>12, <1>13, <1>14, <1>15, <1>16, <1>17, <1>18 DEF CallNext

\* A network step signs nothing and hands nothing over, moves the epochs only
\* as the chain allows, and changes a session's fate only by starting it or by
\* settling one it started.
LEMMA NetFrame ==
    ASSUME TypeOK, EpochsInv, NetNext
    PROVE  /\ request' = request
           /\ handed' \subseteq handed
           /\ chainEpoch' >= chainEpoch
           /\ EpochsInv'
           /\ \A s \in Sessions :
                 \/ fate'[s] = fate[s]
                 \/ CanStart(s) /\ fate'[s] \in {"sequenced", "free"}
                 \/ fate[s] = "sequenced"
<1> USE DEF TypeOK, NetTypeOK, EpochsInv
<1> DEFINE Goal == /\ request' = request
                   /\ handed' \subseteq handed
                   /\ chainEpoch' >= chainEpoch
                   /\ EpochsInv'
                   /\ \A s \in Sessions :
                         \/ fate'[s] = fate[s]
                         \/ CanStart(s) /\ fate'[s] \in {"sequenced", "free"}
                         \/ fate[s] = "sequenced"
<1>1. ASSUME NEW r \in Sessions, Sequence(r) PROVE Goal
  BY <1>1 DEF Sequence
<1>2. ASSUME NEW r \in Sessions, RefuseFree(r) PROVE Goal
  BY <1>2 DEF RefuseFree
<1>3. ASSUME NEW r \in Sessions, Drop(r) PROVE Goal
  BY <1>3 DEF Drop
<1>4. ASSUME NEW r \in Sessions, Deliver(r) PROVE Goal
  BY <1>4 DEF Deliver
<1>5. ASSUME NEW r \in Sessions, Charge(r) PROVE Goal
  BY <1>5 DEF Charge
<1>6. ASSUME NEW r \in Sessions, GiveUpHidden(r) PROVE Goal
  BY <1>6 DEF GiveUpHidden
<1>7. CASE BeginClose \/ Cutoff \/ ShowEpoch \/ EnterEpoch
  BY <1>7 DEF BeginClose, Cutoff, ShowEpoch, EnterEpoch
<1> QED BY <1>1, <1>2, <1>3, <1>4, <1>5, <1>6, <1>7 DEF NetNext

\* A dead session stays dead, whatever the network and the calls do.
LEMMA DeadStaysDead ==
    ASSUME TypeOK, EpochsInv, Next, NEW s \in Sessions, owner[s] # NoCall, Dead(s)
    PROVE  Dead(s)'
<1>1. ASSUME NEW c \in Calls, CallNext(c) PROVE Dead(s)'
  BY <1>1, CallFrame DEF Dead
<1>2. CASE NetNext
  <2>1. request[s].epoch \in Nat /\ chainEpoch \in Nat /\ netEpoch \in Nat
    BY DEF TypeOK, NetTypeOK, Request
  <2>2. chainEpoch' \in Nat
    BY <1>2, NetTypes DEF TypeOK, NetTypeOK
  <2>3. fate[s] = "none" /\ CanStart(s) => request[s].epoch = chainEpoch
    BY <2>1 DEF CanStart, EpochsInv
  <2> QED BY <1>2, <2>1, <2>2, <2>3, NetFrame DEF Dead, CanStart
<1> QED BY <1>1, <1>2 DEF Next

-----------------------------------------------------------------------------
(* The inductive invariant.                                                *)

\* The initial state satisfies it.
LEMMA InvInit == Init => IInv
<1> SUFFICES ASSUME Init PROVE IInv
  OBVIOUS
<1>1. TypeOK
  BY TypeInit
<1>2. EpochsInv /\ epoch <= chainEpoch /\ SettlementInv
  BY DEF Init, NetInit, EpochsInv, SettlementInv
<1>3. SessionsInv
  BY SubmissionAssumption DEF Init, NetInit, SessionsInv
<1>4. \A c \in Calls : CallInv(c)
  BY DEF Init, CallInv, SessionSteps, LookupSteps
<1> QED BY <1>1, <1>2, <1>3, <1>4 DEF IInv

\* A session that the chain shows as settled is not left in the network.
LEMMA SettledMeansSettled ==
    ASSUME TypeOK, SettlementInv, NEW s \in Sessions, SettledAt(s) <= chainEpoch
    PROVE  fate[s] # "sequenced" /\ request[s].epoch < chainEpoch
<1>1. request[s].epoch \in Nat /\ chainEpoch \in Nat
  BY DEF TypeOK, NetTypeOK, Request
<1> QED BY <1>1 DEF SettledAt, SettlementInv

\* A step of the network preserves it.
LEMMA NetPreserves ==
    ASSUME IInv, NetNext, UNCHANGED callVars PROVE IInv'
<1> USE DEF IInv
<1>t. TypeOK'
  BY NetTypes DEF TypeOK, callVars
<1>0. /\ request' = request /\ chainEpoch' >= chainEpoch
      /\ UNCHANGED <<epoch, pc, args, owner, current, result, verdict>>
  BY NetFrame DEF callVars
<1>r. \A s \in Sessions : request[s].epoch \in Nat
  BY DEF TypeOK, NetTypeOK, Request
<1>d. \A s \in Sessions : owner[s] # NoCall /\ Dead(s) => Dead(s)'
  BY DeadStaysDead DEF Next
<1>1. EpochsInv' /\ epoch' <= chainEpoch'
  BY <1>0, <1>t, NetFrame DEF TypeOK, NetTypeOK
<1>2. SettlementInv'
  <2> USE <1>r DEF SettlementInv, EpochsInv, TypeOK, NetTypeOK
  <2>1. ASSUME NEW r \in Sessions, Sequence(r) PROVE SettlementInv'
    BY <2>1 DEF Sequence, CanStart
  <2>2. ASSUME NEW r \in Sessions, RefuseFree(r) PROVE SettlementInv'
    BY <2>2 DEF RefuseFree, CanStart
  <2>3. ASSUME NEW r \in Sessions, Drop(r) PROVE SettlementInv'
    BY <2>3 DEF Drop
  <2>4. ASSUME NEW r \in Sessions, Deliver(r) PROVE SettlementInv'
    <3>1. /\ request[r].target \in Targets \cup {NoTarget}
          /\ r # NoSession
      BY NetworkAssumption DEF Request
    <3>2. \A t \in Targets \cup {NoTarget}, k \in TargetKinds :
             record[t][k] # NoSession => record'[t][k] # NoSession
      BY <2>4, <3>1 DEF Deliver
    <3>3. request[r].kind \in TargetKinds =>
             record'[request[r].target][request[r].kind] # NoSession
      BY <2>4, <3>1 DEF Deliver
    <3>4. \A s \in Sessions : request[s].target \in Targets \cup {NoTarget}
      BY DEF Request
    <3> QED BY <2>4, <3>2, <3>3, <3>4 DEF Deliver
  <2>5. ASSUME NEW r \in Sessions, Charge(r) PROVE SettlementInv'
    BY <2>5 DEF Charge
  <2>6. ASSUME NEW r \in Sessions, GiveUpHidden(r) PROVE SettlementInv'
    BY <2>6 DEF GiveUpHidden
  <2>7. CASE BeginClose \/ Cutoff \/ EnterEpoch
    BY <2>7 DEF BeginClose, Cutoff, EnterEpoch
  <2>8. CASE ShowEpoch
    BY <2>8 DEF ShowEpoch, SettledForNextEpoch
  <2> QED BY <2>1, <2>2, <2>3, <2>4, <2>5, <2>6, <2>7, <2>8 DEF NetNext
<1>3. SessionsInv'
  <2>1. \A s \in Sessions : owner[s] = NoCall => s \notin handed' /\ fate'[s] = "none"
    BY NetFrame DEF SessionsInv, CanStart
  <2> QED BY <1>0, <1>d, <2>1, SubmissionAssumption DEF SessionsInv
<1>4. ASSUME NEW c \in Calls PROVE CallInv(c)'
  <2>1. CASE current[c] = NoSession
    BY <1>0, <2>1 DEF CallInv, SessionSteps, LookupSteps
  <2>2. CASE current[c] # NoSession
    <3>1. current[c] \in Sessions /\ owner[current[c]] # NoCall
      BY <2>2, SubmissionAssumption DEF CallInv, TypeOK
    <3>2. Dead(current[c]) => Dead(current[c])'
      BY <1>0, <1>d, <3>1
    <3>3. fate[current[c]] = "free" => fate'[current[c]] = "free"
      BY <3>1, NetFrame DEF CanStart
    <3>4. SettledAt(current[c])' = SettledAt(current[c])
      BY <1>0 DEF SettledAt
    <3>5. pc[c] = "chargesElseNotRun" =>
            /\ fate'[current[c]] # "hidden"
            /\ fate'[current[c]] = "delivered" => request[current[c]].kind = "presign"
      <4> SUFFICES ASSUME pc[c] = "chargesElseNotRun"
                   PROVE  /\ fate'[current[c]] # "hidden"
                          /\ fate'[current[c]] = "delivered"
                                => request[current[c]].kind = "presign"
        OBVIOUS
      <4>1. fate[current[c]] # "sequenced"
        BY <3>1, SettledMeansSettled DEF CallInv, LookupSteps
      <4> QED
        BY <3>1, <4>1, NetFrame DEF CallInv
    <3>6. SettledAt(current[c]) \in Nat /\ chainEpoch \in Nat /\ chainEpoch' \in Nat
      BY <1>r, <1>t, <3>1 DEF SettledAt, TypeOK, NetTypeOK
    <3> QED
      BY <1>0, <2>2, <3>1, <3>2, <3>3, <3>4, <3>5, <3>6
        DEF CallInv, SessionSteps, LookupSteps
  <2> QED BY <2>1, <2>2
<1> QED BY <1>t, <1>1, <1>2, <1>3, <1>4

\* Nothing found, once a session is settled, means that it is dead.
LEMMA NothingFoundIsDead ==
    ASSUME IInv, NEW c \in Calls, pc[c] = "chargesElseNotRun",
           ~ChargeRecorded(current[c])
    PROVE  current[c] \in Sessions /\ Dead(current[c])
<1>1. current[c] \in Sessions
  BY DEF IInv, CallInv, TypeOK, SessionSteps
<1>2. SettledAt(current[c]) <= chainEpoch
  BY DEF IInv, CallInv, LookupSteps
<1>3. fate[current[c]] # "sequenced" /\ request[current[c]].epoch < chainEpoch
  BY <1>1, <1>2, SettledMeansSettled DEF IInv
<1>4. fate[current[c]] \in Fates
  BY <1>1 DEF IInv, TypeOK, NetTypeOK
<1> QED BY <1>1, <1>3, <1>4 DEF IInv, CallInv, ChargeRecorded, Dead, Fates

\* A call's step keeps the invariant of every other call.
LEMMA OtherCalls ==
    ASSUME IInv, NEW c \in Calls, CallNext(c), NEW d \in Calls \ {c}, TypeOK'
    PROVE  CallInv(d)'
<1> USE DEF IInv
<1>1. /\ UNCHANGED <<chainEpoch, fate>>
      /\ pc'[d] = pc[d] /\ result'[d] = result[d]
      /\ current'[d] = current[d] /\ verdict'[d] = verdict[d]
      /\ epoch' >= epoch
  BY CallFrame
<1>2. CASE current[d] = NoSession
  BY <1>1, <1>2 DEF CallInv, SessionSteps, LookupSteps
<1>3. CASE current[d] # NoSession
  <2>1. current[d] \in Sessions /\ owner[current[d]] = d /\ d # NoCall
    BY <1>3, SubmissionAssumption DEF CallInv, TypeOK
  <2>2. request'[current[d]] = request[current[d]] /\ owner'[current[d]] = d
    BY <2>1, CallFrame
  <2>3. SettledAt(current[d])' = SettledAt(current[d])
    BY <1>1, <2>2 DEF SettledAt
  <2>4. Dead(current[d]) => Dead(current[d])'
    BY <1>1, <2>2 DEF Dead
  <2>5. /\ request[current[d]].epoch \in Nat /\ SettledAt(current[d]) \in Nat
        /\ epoch \in Nat /\ epoch' \in Nat
    BY <2>1 DEF TypeOK, NetTypeOK, Request, SettledAt
  <2> QED
    BY <1>1, <1>3, <2>1, <2>2, <2>3, <2>4, <2>5 DEF CallInv, SessionSteps, LookupSteps
<1> QED BY <1>2, <1>3

\* A call's step keeps what is known of the sessions.
LEMMA CallSessions ==
    ASSUME IInv, NEW c \in Calls, CallNext(c)
    PROVE  SettlementInv' /\ SessionsInv'
<1> USE DEF IInv
<1>c. c # NoCall
  BY SubmissionAssumption
<1>1. CASE OpenSession(c)
  <2>0. UNCHANGED <<chainEpoch, fate, record, closed, handed>>
    BY <1>1 DEF OpenSession
  <2>1. CASE UNCHANGED <<request, owner, current>>
    BY <2>0, <2>1 DEF SettlementInv, SessionsInv, Dead
  <2>2. ASSUME NEW s \in Sessions, owner[s] = NoCall,
               owner' = [owner EXCEPT ![s] = c],
               current' = [current EXCEPT ![c] = s]
        PROVE  SettlementInv' /\ SessionsInv'
    <3>1. \A r \in Sessions : r # s => owner'[r] = owner[r]
      BY <2>2 DEF TypeOK
    <3>2. \A r \in Sessions : owner[r] # NoCall => request'[r] = request[r]
      BY CallFrame
    <3>3. \A r \in Sessions : fate[r] # "none" => request'[r] = request[r]
      BY <3>2 DEF SessionsInv
    <3>4. SettlementInv'
      BY <2>0, <3>3 DEF SettlementInv
    <3>5. ASSUME NEW r \in Sessions, NEW d \in Calls, owner'[r] = d, r # current'[d]
          PROVE  Dead(r)'
      <4>1. r # s /\ owner[r] = d
        BY <2>2, <3>1, <3>5 DEF TypeOK
      <4>2. d # NoCall
        BY SubmissionAssumption
      <4>3. Dead(r)
        <5>1. CASE d = c /\ r = current[c]
          BY <1>1, <4>1, <5>1, NetworkAssumption DEF OpenSession, CallInv
        <5>2. CASE d = c /\ r # current[c]
          BY <4>1, <5>2 DEF SessionsInv
        <5>3. CASE d # c
          BY <2>2, <3>5, <4>1, <5>3 DEF SessionsInv, TypeOK
        <5> QED BY <5>1, <5>2, <5>3
      <4> QED BY <2>0, <3>2, <4>1, <4>2, <4>3 DEF Dead
    <3>6. \A r \in Sessions : owner'[r] = NoCall => owner[r] = NoCall
      BY <1>c, <2>2 DEF TypeOK
    <3> QED BY <2>0, <3>4, <3>5, <3>6 DEF SessionsInv
  <2> QED BY <1>1, <2>1, <2>2 DEF OpenSession
<1>2. CASE UNCHANGED <<request, owner, current>>
  <2>1. UNCHANGED <<chainEpoch, fate, record, closed>>
    BY CallFrame
  <2>2. \A s \in Sessions : s \in handed' => s \in handed \/ owner[s] = c
    <3>1. pc[c] \in {"signing", "sending", "resending"} =>
             current[c] \in Sessions /\ owner[current[c]] = c
      BY DEF CallInv, TypeOK, SessionSteps
    <3> QED
      BY <3>1 DEF CallNext, Start, TakePresign, OpenSession, Send, Resend,
         DepositUnread, Answered, PoolEmpty, ClosedBeforeAnswer, SubmitFails,
         Throws, PollEpoch, WaitEndsUnknown, StartLookup, ResolveSession,
         LookupRecord, LookupCharges, LookupFails, netVars
  <2> QED BY <1>2, <1>c, <2>1, <2>2 DEF SettlementInv, SessionsInv, Dead
<1>3. ~OpenSession(c) => UNCHANGED <<request, owner, current>>
  BY DEF CallNext, Start, TakePresign, Send, Resend,
         DepositUnread, Answered, PoolEmpty, ClosedBeforeAnswer, SubmitFails,
         Throws, PollEpoch, WaitEndsUnknown, StartLookup, ResolveSession,
         LookupRecord, LookupCharges, LookupFails, netVars, callVars
<1> QED BY <1>1, <1>2, <1>3

\* A call's step keeps the call's own invariant.
LEMMA OwnCall ==
    ASSUME IInv, NEW c \in Calls, CallNext(c), TypeOK'
    PROVE  CallInv(c)'
<1> USE DEF SessionSteps, LookupSteps
<1>i. TypeOK /\ CallInv(c) /\ epoch <= chainEpoch
  BY DEF IInv
<1>f. UNCHANGED <<chainEpoch, fate>> /\ epoch' >= epoch
  BY CallFrame DEF IInv
<1>k. ASSUME UNCHANGED <<request, owner, current>>
      PROVE  /\ SettledAt(current[c])' = SettledAt(current[c])
             /\ Dead(current[c])' <=> Dead(current[c])
             /\ current[c] # NoSession =>
                   request[current[c]].epoch \in Nat /\ SettledAt(current[c]) \in Nat
  BY <1>f, <1>i, <1>k DEF SettledAt, Dead, TypeOK, NetTypeOK, Request
<1>n. epoch \in Nat /\ chainEpoch \in Nat /\ epoch' \in Nat
  BY <1>i DEF TypeOK, NetTypeOK
<1> USE <1>i, <1>f, <1>n DEF TypeOK, CallInv
<1>1. CASE Start(c)
  BY <1>1, <1>k DEF Start, Goto, netVars
<1>2. CASE TakePresign(c)
  BY <1>2, <1>k DEF TakePresign, Goto, netVars
<1>3. CASE OpenSession(c)
  <2>1. CASE Expire(c) /\ UNCHANGED <<request, owner, current>>
    BY <1>3, <1>k, <2>1 DEF OpenSession, Expire, Goto, End
  <2>2. ASSUME NEW s \in Sessions,
               owner' = [owner EXCEPT ![s] = c],
               current' = [current EXCEPT ![c] = s],
               Goto(c, "signing")
        PROVE  CallInv(c)'
    BY <1>3, <2>2, NetworkAssumption DEF OpenSession, Goto
  <2> QED BY <1>3, <2>1, <2>2 DEF OpenSession
<1>4. CASE Send(c)
  BY <1>4, <1>k DEF Send, Goto
<1>5. CASE Resend(c)
  BY <1>5, <1>k DEF Resend, callVars
<1>6. CASE DepositUnread(c)
  BY <1>6, <1>k DEF DepositUnread, Goto
<1>7. CASE Answered(c)
  BY <1>7, <1>k DEF Answered, End, netVars
<1>8. CASE PoolEmpty(c)
  BY <1>8, <1>k DEF PoolEmpty, Goto, End, netVars, Dead
<1>9. CASE ClosedBeforeAnswer(c)
  BY <1>9, <1>k DEF ClosedBeforeAnswer, Goto, netVars
<1>10. CASE SubmitFails(c)
  BY <1>10, <1>k DEF SubmitFails, End, netVars
<1>11. CASE Throws(c)
  BY <1>11, <1>k DEF Throws, End, netVars
<1>12. CASE PollEpoch(c)
  BY <1>12, <1>k DEF PollEpoch, netVars
<1>13. CASE WaitEndsUnknown(c)
  BY <1>13, <1>k DEF WaitEndsUnknown, End, netVars
<1>14. CASE StartLookup(c)
  BY <1>14, <1>k DEF StartLookup, Goto, netVars
<1>15. CASE ResolveSession(c)
  <2>1. SettledAt(current[c]) <= chainEpoch
    BY <1>15, <1>k DEF ResolveSession, netVars
  <2> QED BY <1>15, <1>k, <2>1 DEF ResolveSession, Goto, netVars
<1>16. CASE LookupRecord(c)
  <2>0. current[c] \in Sessions
    BY <1>16 DEF LookupRecord
  <2>1. CASE RecordOutcome(current[c]) \in {"ran", "signature"}
    BY <1>16, <1>k, <2>1 DEF LookupRecord, Found, Resolving, End, netVars
  <2>2. CASE RecordOutcome(current[c]) = "chargesElseUnknown"
    BY <1>16, <1>k, <2>2 DEF LookupRecord, Goto, netVars
  <2>3. CASE RecordOutcome(current[c]) = "chargesElseNotRun"
    <3>1. /\ fate[current[c]] # "hidden"
          /\ fate[current[c]] = "delivered" => request[current[c]].kind = "presign"
      <4>1. request[current[c]].kind \in Kinds
        BY <2>0 DEF NetTypeOK, Request
      <4>2. SettlementInv
        BY DEF IInv
      <4> QED
        BY <2>0, <2>3, <4>1, <4>2 DEF RecordOutcome, Written, SettlementInv,
           Kinds, TargetKinds, HiddenChargeKinds
    <3> QED BY <1>16, <1>k, <2>3, <3>1 DEF LookupRecord, Goto, netVars
  <2>4. RecordOutcome(current[c]) \in
          {"ran", "signature", "chargesElseNotRun", "chargesElseUnknown"}
    <3>1. request[current[c]].kind \in Kinds
      BY <2>0 DEF NetTypeOK, Request
    <3> QED BY <3>1 DEF RecordOutcome, Kinds
  <2> QED BY <2>1, <2>2, <2>3, <2>4
<1>17. CASE LookupCharges(c)
  <2>1. CASE Found(c, "ran")
    BY <1>17, <1>k, <2>1 DEF LookupCharges, Found, Resolving, End, netVars
  <2>2. CASE NotKnown(c)
    BY <1>17, <1>k, <2>2 DEF LookupCharges, NotKnown, Resolving, End, netVars
  <2>3. CASE /\ pc[c] = "chargesElseNotRun" /\ ~ChargeRecorded(current[c])
             /\ NeverRan(c)
    <3>1. current[c] \in Sessions /\ Dead(current[c])
      BY <2>3, NothingFoundIsDead
    <3>2. UNCHANGED <<request, owner, current, epoch>>
      BY <1>17 DEF LookupCharges, netVars
    <3>3. result[c] = "none" => request[current[c]].epoch < epoch
      <4>1. request[current[c]].epoch \in Nat
        BY <3>1 DEF NetTypeOK, Request
      <4> QED BY <2>3, <4>1 DEF SettledAt
    <3>4. Resolving(c) \/ result[c] = "none"
      BY <2>3 DEF Resolving
    <3>5. CASE Resolving(c)
      BY <1>k, <2>3, <3>1, <3>2, <3>5 DEF NeverRan, Resolving
    <3>6. CASE ~Resolving(c)
      <4>1. verdict[c] = "none" /\ UNCHANGED verdict
        BY <2>3, <3>6 DEF NeverRan, Resolving
      <4>2. CASE Goto(c, "takingPresign") \/ Goto(c, "reading")
        BY <1>k, <3>1, <3>2, <3>3, <3>4, <3>6, <4>1, <4>2 DEF Goto
      <4>3. CASE End(c, "presignExpired") \/ End(c, "epochClosed")
        BY <1>k, <3>1, <3>2, <3>4, <3>6, <4>1, <4>3, NetworkAssumption DEF End
      <4> QED BY <2>3, <3>6, <4>2, <4>3 DEF NeverRan, Expire
    <3> QED BY <3>5, <3>6
  <2> QED BY <1>17, <2>1, <2>2, <2>3 DEF LookupCharges
<1>18. CASE LookupFails(c)
  BY <1>18, <1>k DEF LookupFails, End, netVars
<1> QED
  BY <1>1, <1>2, <1>3, <1>4, <1>5, <1>6, <1>7, <1>8, <1>9, <1>10, <1>11,
     <1>12, <1>13, <1>14, <1>15, <1>16, <1>17, <1>18 DEF CallNext

\* Every step of the specification preserves the invariant.
LEMMA InvStep == IInv /\ [Next]_vars => IInv'
<1> SUFFICES ASSUME IInv, [Next]_vars PROVE IInv'
  OBVIOUS
<1>1. CASE NetNext /\ UNCHANGED callVars
  BY <1>1, NetPreserves
<1>2. ASSUME NEW c \in Calls, CallNext(c) PROVE IInv'
  <2>1. TypeOK'
    BY <1>2, CallTypes DEF IInv, CallInv
  <2>2. SettlementInv' /\ SessionsInv'
    BY <1>2, CallSessions
  <2>3. \A d \in Calls : CallInv(d)'
    BY <1>2, <2>1, OwnCall, OtherCalls
  <2>4. EpochsInv' /\ epoch' <= chainEpoch'
    BY <1>2, CallFrame DEF IInv, EpochsInv
  <2> QED BY <2>1, <2>2, <2>3, <2>4 DEF IInv
<1>3. CASE UNCHANGED vars
  BY <1>3 DEF vars, netVars, callVars, IInv, TypeOK, NetTypeOK, EpochsInv,
     SettlementInv, SessionsInv, CallInv, Dead, SettledAt
<1> QED BY <1>1, <1>2, <1>3 DEF Next

\* The invariant holds in every reachable state.
THEOREM Invariance == Spec => []IInv
BY InvInit, InvStep, PTL DEF Spec

-----------------------------------------------------------------------------
(* What follows from it.                                                   *)

\* The model's state is always well typed.
THEOREM TypeCorrect == Spec => []TypeOK
<1>1. IInv => TypeOK
  BY DEF IInv
<1> QED BY <1>1, Invariance, PTL

\* A call's request runs at most once, whatever #submit, #submitWithPresign
\* and #withPresign send or build again.
THEOREM RunsAtMostOnce == Spec => []AtMostOneRun
<1>1. ASSUME IInv PROVE AtMostOneRun
  <2> SUFFICES ASSUME NEW s \in Sessions, NEW r \in Sessions,
                      owner[s] # NoCall, owner[s] = owner[r], Ran(s), Ran(r)
               PROVE  s = r
    BY DEF AtMostOneRun
  <2>1. owner[s] \in Calls
    BY <1>1 DEF IInv, TypeOK
  <2>2. ~Dead(s) /\ ~Dead(r)
    BY DEF Ran, Dead
  <2> QED BY <1>1, <2>1, <2>2 DEF IInv, SessionsInv
<1> QED BY <1>1, Invariance, PTL

\* PresignExpiredWithTheEpoch is thrown, and resolveSession answers "neverRan", only
\* when nothing of the call ran, and nothing of it runs later.
THEOREM NeverRanRanNothing == Spec => []NeverRanIsFinal
<1>1. ASSUME IInv PROVE NeverRanIsFinal
  <2> SUFFICES ASSUME NEW s \in Sessions, owner[s] # NoCall,
                      Told(owner[s]) = "neverRan"
               PROVE  ~Ran(s)
    BY DEF NeverRanIsFinal
  <2>1. owner[s] \in Calls /\ result[owner[s]] \in Results
    BY <1>1 DEF IInv, TypeOK
  <2>2. result[owner[s]] = "presignExpired" \/ verdict[owner[s]] = "neverRan"
    BY <2>1 DEF Told, Results
  <2>3. Dead(s)
    BY <1>1, <2>1, <2>2, NetworkAssumption DEF IInv, SessionsInv, CallInv
  <2> QED BY <2>3 DEF Ran, Dead
<1> QED BY <1>1, Invariance, PTL

\* A step that replaces a call's session names a later epoch, unless the
\* network refused the replaced one for free.
THEOREM RebuildsNameLaterEpochs == Spec => RebuildNamesLaterEpoch
<1> DEFINE Later(c) == current[c] # NoSession /\ current'[c] # current[c]
                         => \/ request'[current'[c]].epoch > request[current[c]].epoch
                            \/ fate[current[c]] = "free"
<1>1. ASSUME IInv, [Next]_vars PROVE \A c \in Calls : Later(c)
  <2> SUFFICES ASSUME NEW c \in Calls, current[c] # NoSession, current'[c] # current[c]
               PROVE  \/ request'[current'[c]].epoch > request[current[c]].epoch
                      \/ fate[current[c]] = "free"
    OBVIOUS
  <2>0. TypeOK /\ CallInv(c)
    BY <1>1 DEF IInv
  <2>1. Next
    BY <1>1 DEF vars, callVars
  <2>2. ~UNCHANGED callVars
    BY DEF callVars
  <2>3. CallNext(c)
    <3>1. PICK d \in Calls : CallNext(d)
      BY <2>1, <2>2 DEF Next
    <3> QED BY <2>0, <3>1, CallFrame
  <2>4. OpenSession(c)
    BY <2>3 DEF CallNext, Start, TakePresign, Send, Resend,
         DepositUnread, Answered, PoolEmpty, ClosedBeforeAnswer, SubmitFails,
         Throws, PollEpoch, WaitEndsUnknown, StartLookup, ResolveSession,
         LookupRecord, LookupCharges, LookupFails, callVars
  <2>5. PICK read \in 1 .. chainEpoch, s \in Sessions :
          /\ args[c].mode # "submit" => LaterOf(read) <= presignEpoch[c]
          /\ current' = [current EXCEPT ![c] = s]
          /\ request' = [request EXCEPT ![s] =
                [kind |-> args[c].kind, target |-> args[c].target,
                 epoch |-> NamedEpoch(c, LaterOf(read))]]
    BY <2>4 DEF OpenSession
  <2>6. request'[current'[c]].epoch = NamedEpoch(c, LaterOf(read))
    BY <2>0, <2>5 DEF TypeOK, NetTypeOK
  <2>7. /\ LaterOf(read) \in Nat /\ LaterOf(read) >= epoch
        /\ presignEpoch[c] \in Nat /\ epoch \in Nat
    BY <2>0, LaterOfType DEF TypeOK
  <2>8. NamedEpoch(c, LaterOf(read)) \in Nat /\ NamedEpoch(c, LaterOf(read)) >= epoch
    BY <2>5, <2>7 DEF NamedEpoch
  <2>9. request[current[c]].epoch \in Nat
    BY <2>0 DEF TypeOK, NetTypeOK, Request
  <2>10. fate[current[c]] = "free" \/ request[current[c]].epoch < epoch
    BY <2>0, <2>4 DEF OpenSession, CallInv
  <2> QED BY <2>6, <2>7, <2>8, <2>9, <2>10
<1>2. IInv /\ [Next]_vars => [\A c \in Calls : Later(c)]_vars
  BY <1>1
<1> QED BY <1>2, Invariance, PTL DEF Spec, RebuildNamesLaterEpoch

-----------------------------------------------------------------------------
(* How a call ends.                                                        *)

\* The session a call opened last is for the kind it was asked, and an end that
\* tells of a run is final and is about that session.
OutcomeInv(c) ==
    /\ current[c] # NoSession => request[current[c]].kind = args[c].kind
    /\ result[c] \in {"answered", "signature", "ran"} =>
          pc[c] = "ended" /\ current[c] # NoSession
    /\ result[c] = "answered" => Ran(current[c])
    /\ result[c] = "signature" =>
          args[c].kind \in TargetKinds /\ Written(current[c], args[c].kind)
    /\ result[c] = "ran" =>
          \/ Ran(current[c])
          \/ \E k \in TargetKinds : Written(current[c], k)

\* The network never takes a run or a record back.
LEMMA RunsAndRecordsStay ==
    ASSUME TypeOK, NetNext
    PROVE  /\ \A s \in Sessions : Ran(s) => Ran(s)'
           /\ \A t \in Targets \cup {NoTarget}, k \in TargetKinds :
                 record[t][k] # NoSession => record'[t][k] # NoSession
<1> USE NetworkAssumption DEF TypeOK, NetTypeOK, Ran
<1> DEFINE Goal == /\ \A s \in Sessions : Ran(s) => Ran(s)'
                   /\ \A t \in Targets \cup {NoTarget}, k \in TargetKinds :
                         record[t][k] # NoSession => record'[t][k] # NoSession
<1>1. ASSUME NEW r \in Sessions, Sequence(r) \/ RefuseFree(r) \/ Drop(r) PROVE Goal
  BY <1>1 DEF Sequence, RefuseFree, Drop, CanStart
<1>2. ASSUME NEW r \in Sessions, Deliver(r) PROVE Goal
  <2>1. request[r].target \in Targets \cup {NoTarget}
    BY DEF Request
  <2> QED BY <1>2, <2>1 DEF Deliver
<1>3. ASSUME NEW r \in Sessions, Charge(r) \/ GiveUpHidden(r) PROVE Goal
  BY <1>3 DEF Charge, GiveUpHidden
<1>4. CASE BeginClose \/ Cutoff \/ ShowEpoch \/ EnterEpoch
  BY <1>4 DEF BeginClose, Cutoff, ShowEpoch, EnterEpoch
<1> QED BY <1>1, <1>2, <1>3, <1>4 DEF NetNext

\* What findSession makes of its first read is backed by what the chain holds.
LEMMA RecordOutcomeIsReal ==
    ASSUME TypeOK, NEW s \in Sessions
    PROVE  /\ RecordOutcome(s) = "signature" =>
                 request[s].kind \in TargetKinds /\ Written(s, request[s].kind)
           /\ RecordOutcome(s) = "ran" => Ran(s) \/ \E k \in TargetKinds : Written(s, k)
<1>1. request[s].kind \in Kinds
  BY DEF TypeOK, NetTypeOK, Request
<1> QED BY <1>1 DEF RecordOutcome, Kinds, TargetKinds, Ran

\* A step keeps the ends of all other calls, and of this one once it told of a run.
LEMMA OutcomeStays ==
    ASSUME IInv, TypeOK', NEW d \in Calls, OutcomeInv(d),
           UNCHANGED <<current[d], args[d], result[d], pc[d]>>,
           current[d] # NoSession => request'[current[d]] = request[current[d]],
           NetNext \/ UNCHANGED <<fate, record>>
    PROVE  OutcomeInv(d)'
<1>1. CASE current[d] = NoSession
  BY <1>1 DEF OutcomeInv
<1>2. CASE current[d] # NoSession
  <2>1. current[d] \in Sessions /\ request'[current[d]] = request[current[d]]
    BY <1>2 DEF IInv, TypeOK
  <2>2. request[current[d]].target \in Targets \cup {NoTarget}
    BY <2>1 DEF IInv, TypeOK, NetTypeOK, Request
  <2>3. Ran(current[d]) => Ran(current[d])'
    BY <2>1, RunsAndRecordsStay DEF IInv, Ran
  <2>4. \A k \in TargetKinds : Written(current[d], k) => Written(current[d], k)'
    BY <2>1, <2>2, RunsAndRecordsStay DEF IInv, Written
  <2> QED BY <1>2, <2>1, <2>3, <2>4 DEF OutcomeInv
<1> QED BY <1>1, <1>2

\* A call's step ends it only with what the network did or the chain holds.
LEMMA OutcomeOfOwnStep ==
    ASSUME IInv, NEW c \in Calls, OutcomeInv(c), CallNext(c), TypeOK'
    PROVE  OutcomeInv(c)'
<1>i. TypeOK /\ CallInv(c) /\ UNCHANGED <<fate, record>>
  BY CallFrame DEF IInv
<1>k. ASSUME UNCHANGED <<request, current>>
      PROVE  /\ Ran(current[c])' <=> Ran(current[c])
             /\ \A k : Written(current[c], k)' <=> Written(current[c], k)
  BY <1>i, <1>k DEF Ran, Written
<1>u. ASSUME UNCHANGED <<request, current, args>>,
             result'[c] = result[c] \/ result'[c] \notin {"answered", "signature", "ran"},
             result[c] \notin {"answered", "signature", "ran"}
      PROVE  OutcomeInv(c)'
  BY <1>u DEF OutcomeInv
<1>p. pc[c] # "ended" => result[c] \notin {"answered", "signature", "ran"}
  BY DEF OutcomeInv
<1> USE <1>i DEF TypeOK
<1>1. CASE Start(c)
  BY <1>1, <1>p DEF Start, Goto, netVars, OutcomeInv, CallInv
<1>2. CASE TakePresign(c) \/ Throws(c) \/ SubmitFails(c) \/ PollEpoch(c) \/ WaitEndsUnknown(c)
           \/ StartLookup(c) \/ LookupFails(c) \/ ClosedBeforeAnswer(c) \/ PoolEmpty(c)
  BY <1>2, <1>p, <1>u DEF TakePresign, Throws, SubmitFails, PollEpoch, WaitEndsUnknown,
     StartLookup, LookupFails, ClosedBeforeAnswer, PoolEmpty, Goto, End, netVars
<1>3. CASE OpenSession(c)
  <2>1. CASE Expire(c) /\ UNCHANGED <<request, owner, current>>
    BY <1>3, <1>p, <1>u, <2>1 DEF OpenSession, Expire, Goto, End
  <2>2. ASSUME NEW s \in Sessions, NEW e \in Nat,
               current' = [current EXCEPT ![c] = s],
               request' = [request EXCEPT ![s] =
                  [kind |-> args[c].kind, target |-> args[c].target, epoch |-> e]],
               Goto(c, "signing")
        PROVE  OutcomeInv(c)'
    <3>1. current'[c] = s /\ request'[s].kind = args[c].kind
      BY <2>2 DEF NetTypeOK
    <3>2. UNCHANGED <<args, result>>
      BY <1>3, <2>2 DEF OpenSession, Goto
    <3> QED BY <1>3, <1>p, <3>1, <3>2 DEF OpenSession, OutcomeInv
  <2>3. \A read \in 1 .. chainEpoch : NamedEpoch(c, LaterOf(read)) \in Nat
    BY LaterOfType DEF NamedEpoch
  <2> QED BY <1>3, <2>1, <2>2, <2>3 DEF OpenSession
<1>4. CASE Send(c) \/ DepositUnread(c) \/ Resend(c)
  BY <1>4, <1>p, <1>u DEF Send, DepositUnread, Resend, Goto, callVars
<1>5. CASE Answered(c)
  BY <1>5, <1>k DEF Answered, End, netVars, OutcomeInv, CallInv, SessionSteps
<1>6. CASE ResolveSession(c)
  BY <1>6, <1>u DEF ResolveSession, Goto, netVars
<1>7. CASE LookupRecord(c)
  <2>0. /\ current[c] \in Sessions /\ result[c] \in {"none", "epochClosed"}
        /\ UNCHANGED <<request, current, args>>
    BY <1>7 DEF LookupRecord, CallInv, SessionSteps, LookupSteps, netVars
  <2>1. CASE ~Resolving(c) /\ RecordOutcome(current[c]) \in {"ran", "signature"}
    <3>1. End(c, RecordOutcome(current[c]))
      BY <1>7, <2>1 DEF LookupRecord, Found
    <3>2. pc'[c] = "ended" /\ result'[c] = RecordOutcome(current[c]) /\ current[c] # NoSession
      BY <2>0, <3>1, NetworkAssumption DEF End
    <3>3. request[current[c]].kind = args[c].kind
      BY <3>2 DEF OutcomeInv
    <3> QED BY <1>k, <2>0, <2>1, <3>2, <3>3, RecordOutcomeIsReal DEF OutcomeInv
  <2>2. CASE ~(~Resolving(c) /\ RecordOutcome(current[c]) \in {"ran", "signature"})
    BY <1>7, <1>u, <2>0, <2>2 DEF LookupRecord, Found, Goto
  <2> QED BY <2>1, <2>2
<1>8. CASE LookupCharges(c)
  <2>0. /\ current[c] \in Sessions /\ result[c] \in {"none", "epochClosed"}
        /\ UNCHANGED <<request, current, args>>
    BY <1>8 DEF LookupCharges, CallInv, SessionSteps, LookupSteps, netVars
  <2>1. CASE ChargeRecorded(current[c]) /\ Found(c, "ran")
    <3>1. Ran(current[c])
      BY <2>1 DEF ChargeRecorded, Ran
    <3>2. CASE Resolving(c)
      BY <1>u, <2>0, <2>1, <3>2 DEF Found
    <3>3. CASE ~Resolving(c)
      <4>1. pc'[c] = "ended" /\ result'[c] = "ran" /\ current[c] # NoSession
        BY <2>0, <2>1, <3>3, NetworkAssumption DEF Found, End
      <4> QED BY <1>k, <2>0, <3>1, <4>1 DEF OutcomeInv
    <3> QED BY <3>2, <3>3
  <2>2. CASE NotKnown(c)
    BY <1>u, <2>0, <2>2 DEF NotKnown, End
  <2>3. CASE NeverRan(c)
    BY <1>u, <2>0, <2>3 DEF NeverRan, Expire, End, Goto
  <2> QED BY <1>8, <2>1, <2>2, <2>3 DEF LookupCharges
<1> QED BY <1>1, <1>2, <1>3, <1>4, <1>5, <1>6, <1>7, <1>8 DEF CallNext

\* A call's step leaves what the other calls were asked alone.
LEMMA ArgsFrame ==
    ASSUME TypeOK, NEW c \in Calls, CallNext(c), NEW d \in Calls \ {c}
    PROVE  args'[d] = args[d]
<1>1. CASE Start(c)
  BY <1>1 DEF Start, TypeOK
<1>2. ~Start(c) => UNCHANGED args
  BY DEF CallNext, TakePresign, OpenSession, Send, Resend, DepositUnread, Answered,
         PoolEmpty, ClosedBeforeAnswer, SubmitFails, Throws, PollEpoch, WaitEndsUnknown,
         StartLookup, ResolveSession, LookupRecord, LookupCharges, LookupFails, callVars
<1> QED BY <1>1, <1>2

\* How a call ends is never invented: an answer is for a session that ran, a
\* signature is in the voucher it named, and `ran` has a record or a run behind it.
THEOREM OutcomesReal == Spec => []OutcomesAreReal
<1> DEFINE OInv == \A c \in Calls : OutcomeInv(c)
<1>1. Init => OInv
  BY DEF Init, OutcomeInv
<1>2. IInv /\ IInv' /\ OInv /\ [Next]_vars => OInv'
  <2> SUFFICES ASSUME IInv, IInv', OInv, [Next]_vars, NEW d \in Calls
               PROVE  OutcomeInv(d)'
    OBVIOUS
  <2>0. TypeOK /\ TypeOK' /\ CallInv(d) /\ OutcomeInv(d)
    BY DEF IInv
  <2>1. CASE NetNext /\ UNCHANGED callVars
    <3>1. request' = request
      BY <2>1, NetFrame DEF IInv
    <3> QED BY <2>0, <2>1, <3>1, OutcomeStays DEF callVars
  <2>2. CASE CallNext(d)
    BY <2>0, <2>2, OutcomeOfOwnStep
  <2>3. ASSUME NEW c \in Calls \ {d}, CallNext(c) PROVE OutcomeInv(d)'
    <3>1. /\ UNCHANGED <<fate, record>>
          /\ current'[d] = current[d] /\ result'[d] = result[d] /\ pc'[d] = pc[d]
      BY <2>0, <2>3, CallFrame
    <3>2. args'[d] = args[d]
      BY <2>0, <2>3, ArgsFrame
    <3>3. current[d] # NoSession => request'[current[d]] = request[current[d]]
      <4>1. current[d] # NoSession => current[d] \in Sessions /\ owner[current[d]] # NoCall
        BY <2>0, SubmissionAssumption DEF CallInv, TypeOK
      <4> QED BY <2>0, <2>3, <4>1, CallFrame
    <3> QED BY <2>0, <3>1, <3>2, <3>3, OutcomeStays
  <2>4. CASE UNCHANGED vars
    BY <2>0, <2>4, OutcomeStays DEF vars, netVars, callVars
  <2> QED BY <2>1, <2>2, <2>3, <2>4 DEF Next
<1>3. OInv => OutcomesAreReal
  BY DEF OutcomeInv, OutcomesAreReal
<1> QED BY <1>1, <1>2, <1>3, Invariance, PTL DEF Spec

-----------------------------------------------------------------------------
(* The refinement of RequestPromise.                                       *)

\* Each session is for what its call was asked, and a call that told something
\* final about its request is over: its last session ran, or is dead. A pending
\* request is looked up only until its outcome is known.
AskedInv ==
    \A s \in Sessions : owner[s] # NoCall =>
        /\ pc[owner[s]] # "idle"
        /\ request[s].kind = args[owner[s]].kind
        /\ request[s].target = args[owner[s]].target
OverInv(c) ==
    /\ Told(c) \in {"answer", "signature", "ran", "neverRan"} =>
          \/ current[c] = NoSession
          \/ Ran(current[c])
          \/ Dead(current[c])
    /\ pc[c] \in LookupSteps => verdict[c] \in {"none", "unknown"}

\* The abstract variables, as Promise maps them.
PAsked == [c \in Calls |->
             IF pc[c] = "idle" THEN [kind |-> "none", target |-> "none"]
             ELSE [kind |-> args[c].kind, target |-> args[c].target]]
PTold == [c \in Calls |-> Told(c)]

\* The first read of a lookup finds a settled session: it ran, or is dead.
LEMMA LookedUpIsOver ==
    ASSUME IInv, NEW c \in Calls, pc[c] \in LookupSteps
    PROVE  current[c] \in Sessions /\ (Ran(current[c]) \/ Dead(current[c]))
<1>1. current[c] \in Sessions
  BY DEF IInv, CallInv, TypeOK, SessionSteps, LookupSteps
<1>2. SettledAt(current[c]) <= chainEpoch
  BY DEF IInv, CallInv, LookupSteps
<1>3. request[current[c]].epoch < chainEpoch
  BY <1>1, <1>2, SettledMeansSettled DEF IInv
<1>4. fate[current[c]] \in Fates
  BY <1>1 DEF IInv, TypeOK, NetTypeOK
<1> QED BY <1>1, <1>3, <1>4 DEF Ran, Dead, Fates

\* A dead session did not run.
LEMMA DeadDidNotRun == \A s : Dead(s) => ~Ran(s)
BY DEF Dead, Ran

\* The calls that ran: by their last session, the others being dead.
LEMMA RanByTheLast ==
    ASSUME IInv, NEW c \in Calls
    PROVE  c \in RanCalls <=> current[c] # NoSession /\ Ran(current[c])
<1>1. c # NoCall
  BY SubmissionAssumption
<1>2. \A s \in Sessions : owner[s] = c /\ s # current[c] => ~Ran(s)
  BY DeadDidNotRun DEF IInv, SessionsInv
<1>3. current[c] # NoSession => current[c] \in Sessions /\ owner[current[c]] = c
  BY DEF IInv, CallInv, TypeOK
<1>4. NoSession \notin Sessions
  BY NetworkAssumption
<1> QED BY <1>2, <1>3, <1>4 DEF RanCalls, Opened

\* A call that takes a step has told nothing final.
LEMMA FinalIsFinal ==
    ASSUME IInv, NEW c \in Calls, OverInv(c), CallNext(c)
    PROVE  Told(c) = IF result[c] = "none" THEN "nothing" ELSE "pending"
<1>1. CallInv(c) /\ result[c] \in Results /\ pc[c] \in Steps
  BY DEF IInv, TypeOK
<1>2. pc[c] = "ended" => result[c] = "epochClosed" /\ verdict[c] \in {"none", "unknown"}
  BY DEF CallNext, Start, TakePresign, OpenSession, Send, Resend, DepositUnread, Answered,
         PoolEmpty, ClosedBeforeAnswer, SubmitFails, Throws, PollEpoch, WaitEndsUnknown,
         StartLookup, ResolveSession, LookupRecord, LookupCharges, LookupFails
<1>3. pc[c] \notin LookupSteps \cup {"ended"} => result[c] = "none"
  BY <1>1 DEF CallInv, Steps, SessionSteps, LookupSteps
<1>4. pc[c] \in LookupSteps => result[c] \in {"none", "epochClosed"}
  BY <1>1 DEF CallInv
<1> QED BY <1>2, <1>3, <1>4 DEF Told, OverInv

\* What a call's step may tell, in terms of its last session.
Fact(c, what) ==
    \/ what \in {"failed", "pending"}
    \/ what = "answer" /\ current[c] # NoSession /\ Ran(current[c])
    \/ what = "signature" /\ pc[c] \in LookupSteps /\ RecordOutcome(current[c]) = "signature"
    \/ what = "ran" /\ pc[c] \in LookupSteps
          /\ (ChargeRecorded(current[c]) \/ RecordOutcome(current[c]) \in {"ran", "signature"})
    \/ what = "neverRan" /\ (current[c] = NoSession \/ Dead(current[c]))
Tells(c) ==
    /\ Told(c) = "pending" => Told(c)' \in {"ran", "neverRan"}
    /\ Fact(c, Told(c)')
    /\ UNCHANGED <<current, request>>

\* A call's step tells nothing new, or a fact about its last session.
LEMMA ToldStep ==
    ASSUME IInv, NEW c \in Calls, OverInv(c), CallNext(c)
    PROVE  Told(c)' = Told(c) \/ Tells(c)
<1>i. /\ TypeOK /\ CallInv(c)
      /\ Told(c) = IF result[c] = "none" THEN "nothing" ELSE "pending"
  BY FinalIsFinal DEF IInv
<1>n. result[c] = "none" => verdict[c] = "none"
  BY <1>i DEF CallInv, TypeOK
<1>s. ASSUME result'[c] = result[c], verdict'[c] = verdict[c] PROVE Told(c)' = Told(c)
  BY <1>s DEF Told
<1>e. ASSUME NEW how, End(c, how), verdict'[c] = verdict[c], result[c] = "none"
      PROVE  /\ Told(c) = "nothing"
             /\ how = "failed" => Told(c)' = "failed"
             /\ how = "answered" => Told(c)' = "answer"
             /\ how = "presignExpired" => Told(c)' = "neverRan"
             /\ how = "epochClosed" => Told(c)' = "pending"
             /\ how = "signature" => Told(c)' = "signature"
             /\ how = "ran" => Told(c)' = "ran"
  <2>1. result'[c] = how /\ verdict'[c] = "none"
    BY <1>e, <1>i, <1>n DEF End, TypeOK
  <2> QED BY <1>e, <1>i, <2>1 DEF Told
<1>1. CASE Start(c) \/ TakePresign(c) \/ Send(c) \/ DepositUnread(c) \/ Resend(c)
           \/ ClosedBeforeAnswer(c) \/ PollEpoch(c) \/ StartLookup(c) \/ ResolveSession(c)
  BY <1>1, <1>s DEF Start, TakePresign, Send, DepositUnread, Resend, ClosedBeforeAnswer,
     PollEpoch, StartLookup, ResolveSession, Goto, callVars
<1>2. CASE Throws(c) \/ SubmitFails(c) \/ WaitEndsUnknown(c) \/ PoolEmpty(c)
  <2>1. result[c] = "none" /\ UNCHANGED <<verdict, current, request>>
    BY <1>2, <1>i DEF Throws, SubmitFails, WaitEndsUnknown, PoolEmpty, CallInv, SessionSteps,
       LookupSteps, netVars
  <2>2. UNCHANGED result \/ End(c, "failed") \/ End(c, "epochClosed")
    BY <1>2 DEF Throws, SubmitFails, WaitEndsUnknown, PoolEmpty, Goto
  <2> QED BY <1>e, <1>s, <2>1, <2>2 DEF Tells, Fact
<1>3. CASE OpenSession(c)
  <2>1. result[c] = "none" /\ UNCHANGED verdict /\ (current[c] # NoSession => Dead(current[c]))
    BY <1>3, <1>i DEF OpenSession, CallInv
  <2>2. UNCHANGED result \/ (End(c, "presignExpired") /\ UNCHANGED <<current, request>>)
    BY <1>3 DEF OpenSession, Expire, Goto
  <2> QED BY <1>e, <1>s, <2>1, <2>2 DEF Tells, Fact
<1>4. CASE Answered(c)
  <2>1. /\ result[c] = "none" /\ UNCHANGED <<verdict, current, request>>
        /\ current[c] # NoSession /\ Ran(current[c])
    BY <1>4, <1>i DEF Answered, CallInv, SessionSteps, LookupSteps, netVars
  <2> QED BY <1>4, <1>e, <2>1 DEF Answered, Tells, Fact
<1>5. CASE LookupFails(c)
  <2>1. pc[c] \in LookupSteps /\ UNCHANGED <<verdict, current, request>> /\ End(c, "epochClosed")
    BY <1>5 DEF LookupFails, LookupSteps, netVars
  <2>2. CASE result[c] = "none"
    BY <1>e, <2>1, <2>2 DEF Tells, Fact
  <2>3. CASE result[c] # "none"
    <3>1. result[c] = "epochClosed"
      BY <1>i, <2>1, <2>3 DEF CallInv
    <3> QED BY <1>i, <1>s, <2>1, <3>1 DEF End, TypeOK
  <2> QED BY <2>2, <2>3
<1>f. ASSUME NEW outcome \in {"ran", "signature"}, Found(c, outcome), pc[c] \in LookupSteps
      PROVE  IF result[c] = "none" THEN Told(c) = "nothing" /\ Told(c)' = outcome
             ELSE Told(c) = "pending" /\ Told(c)' = "ran"
  <2>1. CASE result[c] = "none"
    BY <1>e, <1>f, <2>1 DEF Found, Resolving
  <2>2. CASE result[c] # "none"
    <3>1. result[c] = "epochClosed"
      BY <1>i, <1>f, <2>2 DEF CallInv
    <3>2. result'[c] = "epochClosed" /\ verdict'[c] = "ran"
      BY <1>i, <1>f, <3>1 DEF Found, Resolving, TypeOK
    <3> QED BY <1>i, <3>1, <3>2 DEF Told
  <2> QED BY <2>1, <2>2
<1>6. CASE LookupRecord(c)
  <2>1. pc[c] \in LookupSteps /\ UNCHANGED <<current, request>>
    BY <1>6 DEF LookupRecord, LookupSteps, netVars
  <2>2. CASE RecordOutcome(current[c]) \in {"ran", "signature"}
    <3>1. Found(c, RecordOutcome(current[c]))
      BY <1>6, <2>2 DEF LookupRecord
    <3>2. CASE result[c] = "none"
      BY <1>f, <2>1, <2>2, <3>1, <3>2 DEF Tells, Fact
    <3>3. CASE result[c] # "none"
      BY <1>f, <2>1, <2>2, <3>1, <3>3 DEF Tells, Fact
    <3> QED BY <3>2, <3>3
  <2>3. CASE RecordOutcome(current[c]) \notin {"ran", "signature"}
    BY <1>6, <1>s, <2>3 DEF LookupRecord, Goto
  <2> QED BY <2>2, <2>3
<1>7. CASE LookupCharges(c)
  <2>1. pc[c] \in LookupSteps /\ UNCHANGED <<current, request>>
    BY <1>7 DEF LookupCharges, LookupSteps, netVars
  <2>2. CASE ChargeRecorded(current[c]) /\ Found(c, "ran")
    BY <1>f, <2>1, <2>2 DEF Tells, Fact
  <2>3. CASE NotKnown(c)
    <3>1. CASE result[c] = "none"
      BY <1>e, <2>1, <2>3, <3>1 DEF NotKnown, Resolving, Tells, Fact
    <3>2. CASE result[c] # "none"
      <4>1. result[c] = "epochClosed"
        BY <1>i, <2>1, <3>2 DEF CallInv
      <4>2. result'[c] = "epochClosed" /\ verdict'[c] = "unknown"
        BY <1>i, <2>3, <4>1 DEF NotKnown, Resolving, End, TypeOK
      <4> QED BY <1>i, <4>1, <4>2 DEF Told
    <3> QED BY <3>1, <3>2
  <2>4. CASE /\ ~ChargeRecorded(current[c]) /\ pc[c] = "chargesElseNotRun" /\ NeverRan(c)
    <3>1. Dead(current[c])
      BY <2>4, NothingFoundIsDead
    <3>2. CASE result[c] = "none"
      <4>1. verdict' = verdict
        BY <2>4, <3>2 DEF NeverRan, Resolving
      <4>2. UNCHANGED result \/ End(c, "presignExpired") \/ End(c, "epochClosed")
        BY <2>4, <3>2 DEF NeverRan, Resolving, Expire, Goto
      <4> QED BY <1>e, <1>s, <2>1, <3>1, <3>2, <4>1, <4>2 DEF Tells, Fact
    <3>3. CASE result[c] # "none"
      <4>1. result[c] = "epochClosed"
        BY <1>i, <2>1, <3>3 DEF CallInv
      <4>2. result'[c] = "epochClosed" /\ verdict'[c] = "neverRan"
        BY <1>i, <2>4, <4>1 DEF NeverRan, Resolving, TypeOK
      <4> QED BY <2>1, <3>1, <4>2 DEF Told, Tells, Fact
    <3> QED BY <3>2, <3>3
  <2> QED BY <1>7, <2>2, <2>3, <2>4 DEF LookupCharges
<1> QED BY <1>1, <1>2, <1>3, <1>4, <1>5, <1>6, <1>7 DEF CallNext

\* A call's step changes no session's fate and no record, and opens only a session
\* that did not run: the calls that ran and what the chain shows stay.
LEMMA RunsFrame ==
    ASSUME IInv, NEW c \in Calls, CallNext(c)
    PROVE  RanCalls' = RanCalls /\ Shown' = Shown
<1>1. UNCHANGED <<fate, record>>
  BY CallFrame DEF IInv
<1>2. \A s \in Sessions : Ran(s) => owner[s] # NoCall
  BY DEF IInv, SessionsInv, Ran
<1>3. \A s \in Sessions : Ran(s) => owner'[s] = owner[s]
  BY <1>2, CallFrame DEF IInv
<1>4. \A s \in Sessions : Ran(s)' <=> Ran(s)
  BY <1>1 DEF Ran
<1> QED BY <1>1, <1>3, <1>4 DEF RanCalls, Opened, Shown

\* The initial states are initial states of the promise.
LEMMA PromiseInitially == Init => Promise!PromiseInit
<1> SUFFICES ASSUME Init PROVE Promise!PromiseInit
  OBVIOUS
<1>1. \A c \in Calls : pc[c] = "idle" /\ Told(c) = "nothing"
  BY DEF Init, Told
<1>2. RanCalls = {}
  BY DEF RanCalls, Ran, Opened, Init, NetInit
<1>3. Shown = {}
  <2>1. \A t \in Targets \cup {NoTarget}, k \in TargetKinds : record[t][k] = NoSession
    BY DEF Init, NetInit
  <2> QED BY <2>1 DEF Shown
<1> QED BY <1>1, <1>2, <1>3 DEF Promise!PromiseInit, Promise!NotAsked

\* A call that was asked is asked for a kind.
LEMMA AskedIsAsked ==
    ASSUME TypeOK, NEW c \in Calls, pc[c] # "idle"
    PROVE  PAsked[c] # Promise!NotAsked /\ PAsked[c].kind = args[c].kind
           /\ PAsked[c].target = args[c].target
<1>1. args[c].kind \in Kinds
  BY DEF TypeOK, Args
<1>2. args[c].kind # "none"
  BY <1>1 DEF Kinds
<1> QED BY <1>2 DEF PAsked, Promise!NotAsked

\* The application's call is the abstract one.
LEMMA PromiseStart ==
    ASSUME IInv, NEW c \in Calls, Start(c)
    PROVE  Promise!PromiseNext
<1>1. TypeOK /\ result[c] = "none" /\ pc[c] = "idle"
  BY DEF IInv, CallInv, Start
<1>2. PICK k \in AppKinds : \E m \in ModesOf(k), t \in TargetsOf(k) :
         args' = [args EXCEPT ![c] = [kind |-> k, target |-> t, mode |-> m]]
  BY DEF Start
<1>3. PICK m \in ModesOf(k), t \in TargetsOf(k) :
         args' = [args EXCEPT ![c] = [kind |-> k, target |-> t, mode |-> m]]
  BY <1>2
<1>4. [kind |-> k, target |-> t] \in [kind : Kinds, target : Targets \cup {NoTarget}]
  BY SubmissionAssumption DEF TargetsOf
<1>5. pc'[c] # "idle" /\ args'[c].kind = k /\ args'[c].target = t
  BY <1>1, <1>3 DEF Start, Goto, TypeOK
<1>6. \A d \in Calls \ {c} : pc'[d] = pc[d] /\ args'[d] = args[d]
  BY <1>1, <1>3 DEF Start, Goto, TypeOK
<1>7. PAsked' = [PAsked EXCEPT ![c] = [kind |-> k, target |-> t]]
  <2>1. \A d \in Calls : PAsked'[d] = IF d = c THEN [kind |-> k, target |-> t] ELSE PAsked[d]
    BY <1>5, <1>6 DEF PAsked
  <2> QED BY <2>1 DEF PAsked
<1>8. PTold' = PTold
  BY DEF Start, Goto, PTold, Told
<1>9. PAsked[c] = Promise!NotAsked
  BY <1>1 DEF PAsked, Promise!NotAsked
<1>10. RanCalls' = RanCalls /\ Shown' = Shown
  BY RunsFrame DEF CallNext
<1>11. Promise!Ask(c)
  BY <1>4, <1>7, <1>8, <1>9, <1>10 DEF Promise!Ask, PAsked, PTold
<1> QED BY <1>11 DEF Promise!PromiseNext

\* A call is made once.
LEMMA NeverIdleAgain ==
    ASSUME IInv, NEW c \in Calls, CallNext(c), ~Start(c)
    PROVE  pc[c] # "idle" /\ pc'[c] # "idle"
<1>0. TypeOK
  BY DEF IInv
<1> USE <1>0 DEF TypeOK
<1>1. CASE TakePresign(c) \/ OpenSession(c) \/ Send(c) \/ Resend(c) \/ DepositUnread(c)
           \/ Answered(c) \/ PoolEmpty(c) \/ ClosedBeforeAnswer(c)
  BY <1>1 DEF TakePresign, OpenSession, Send, Resend, DepositUnread, Answered, PoolEmpty,
     ClosedBeforeAnswer, Expire, Goto, End, callVars
<1>2. CASE SubmitFails(c) \/ Throws(c) \/ PollEpoch(c) \/ WaitEndsUnknown(c)
           \/ StartLookup(c) \/ ResolveSession(c) \/ LookupFails(c)
  BY <1>2 DEF SubmitFails, Throws, PollEpoch, WaitEndsUnknown, StartLookup, ResolveSession,
     LookupFails, Goto, End
<1>3. CASE LookupRecord(c)
  <2>1. RecordOutcome(current[c]) \in {"ran", "signature"} =>
           Found(c, RecordOutcome(current[c]))
    BY <1>3 DEF LookupRecord
  <2>2. RecordOutcome(current[c]) \notin {"ran", "signature"} =>
           Goto(c, RecordOutcome(current[c]))
    BY <1>3 DEF LookupRecord
  <2>3. RecordOutcome(current[c]) # "idle"
    <3>1. current[c] \in Sessions
      BY <1>3, LookedUpIsOver DEF LookupRecord, LookupSteps
    <3>2. request[current[c]].kind \in Kinds
      BY <3>1 DEF NetTypeOK, Request
    <3> QED BY <3>2 DEF RecordOutcome, Kinds
  <2> QED BY <1>3, <2>1, <2>2, <2>3 DEF LookupRecord, Found, Goto, End
<1>4. CASE LookupCharges(c)
  BY <1>4 DEF LookupCharges, Found, NotKnown, NeverRan, Expire, Goto, End
<1> QED BY <1>1, <1>2, <1>3, <1>4 DEF CallNext

\* A call's step keeps what the sessions are for: a session it opens is for what
\* the call was asked, and what it was asked is set before any session is opened.
LEMMA AskedOwnStep ==
    ASSUME IInv, AskedInv, NEW c \in Calls, CallNext(c)
    PROVE  AskedInv'
<1>0. TypeOK /\ c # NoCall
  BY SubmissionAssumption DEF IInv
<1>1. \A s \in Sessions : owner[s] # NoCall => request'[s] = request[s] /\ owner'[s] = owner[s]
  BY <1>0, CallFrame
<1>2. \A d \in Calls \ {c} : pc'[d] = pc[d] /\ args'[d] = args[d]
  BY <1>0, CallFrame, ArgsFrame
<1>3. \A s \in Sessions : owner[s] \in Calls \cup {NoCall}
  BY <1>0 DEF TypeOK
<1>4. CASE Start(c)
  <2>1. UNCHANGED owner /\ pc[c] = "idle"
    BY <1>4 DEF Start
  <2>2. \A s \in Sessions : owner[s] # c
    BY <1>0, <2>1 DEF AskedInv
  <2> QED BY <1>1, <1>2, <1>3, <2>1, <2>2 DEF AskedInv
<1>5. CASE ~Start(c)
  <2>1. UNCHANGED args
    BY <1>5 DEF CallNext, TakePresign, OpenSession, Send, Resend, DepositUnread, Answered,
         PoolEmpty, ClosedBeforeAnswer, SubmitFails, Throws, PollEpoch, WaitEndsUnknown,
         StartLookup, ResolveSession, LookupRecord, LookupCharges, LookupFails, callVars
  <2>2. pc[c] # "idle" /\ pc'[c] # "idle"
    BY <1>5, NeverIdleAgain
  <2>3. \A s \in Sessions : owner[s] # NoCall =>
           /\ pc'[owner'[s]] # "idle"
           /\ request'[s].kind = args'[owner'[s]].kind
           /\ request'[s].target = args'[owner'[s]].target
    BY <1>1, <1>2, <1>3, <2>1, <2>2 DEF AskedInv
  <2>4. ASSUME NEW s \in Sessions, owner[s] = NoCall, owner'[s] # NoCall
        PROVE  /\ owner'[s] = c
               /\ request'[s].kind = args[c].kind
               /\ request'[s].target = args[c].target
    <3>1. OpenSession(c)
      BY <2>4, <1>5 DEF CallNext, TakePresign, Send, Resend, DepositUnread, Answered,
         PoolEmpty, ClosedBeforeAnswer, SubmitFails, Throws, PollEpoch, WaitEndsUnknown,
         StartLookup, ResolveSession, LookupRecord, LookupCharges, LookupFails, callVars
    <3>2. PICK read \in 1 .. chainEpoch, r \in Sessions :
             /\ owner' = [owner EXCEPT ![r] = c]
             /\ request' = [request EXCEPT ![r] =
                   [kind |-> args[c].kind, target |-> args[c].target,
                    epoch |-> NamedEpoch(c, LaterOf(read))]]
      BY <2>4, <3>1 DEF OpenSession
    <3>3. r = s
      BY <1>0, <2>4, <3>2 DEF TypeOK
    <3> QED BY <1>0, <3>2, <3>3 DEF TypeOK, NetTypeOK
  <2> QED BY <2>1, <2>2, <2>3, <2>4 DEF AskedInv
<1> QED BY <1>4, <1>5

\* A call's own step: what it tells that is final is about a session that is over.
LEMMA OverOwnStep ==
    ASSUME IInv, NEW c \in Calls, OverInv(c), CallNext(c)
    PROVE  OverInv(c)'
<1>0. TypeOK /\ CallInv(c) /\ UNCHANGED <<fate, chainEpoch>>
  BY CallFrame DEF IInv
<1>1. ASSUME Told(c)' \in {"answer", "signature", "ran", "neverRan"}
      PROVE  (current[c] = NoSession \/ Ran(current[c]) \/ Dead(current[c]))'
  <2>1. Tells(c)
    BY <1>1, FinalIsFinal, ToldStep
  <2>2. current[c] = NoSession \/ Ran(current[c]) \/ Dead(current[c])
    BY <1>1, <2>1, LookedUpIsOver DEF Tells, Fact
  <2> QED BY <1>0, <2>1, <2>2 DEF Tells, Ran, Dead
<1>2. ASSUME pc'[c] \in LookupSteps PROVE verdict'[c] \in {"none", "unknown"}
  <2>1. CASE pc[c] \in LookupSteps
    <3>1. CASE UNCHANGED verdict
      BY <2>1, <3>1 DEF OverInv
    <3>2. CASE LookupRecord(c) \/ LookupCharges(c)
      <4>1. pc' = [pc EXCEPT ![c] = "ended"] \/ UNCHANGED verdict
        BY <3>2 DEF LookupRecord, LookupCharges, Found, NotKnown, NeverRan, End, Goto
      <4> QED BY <1>0, <1>2, <2>1, <4>1, <3>1 DEF TypeOK, LookupSteps
    <3>3. ~LookupRecord(c) /\ ~LookupCharges(c) => UNCHANGED verdict
      BY DEF CallNext, Start, TakePresign, OpenSession, Send, Resend, DepositUnread,
         Answered, PoolEmpty, ClosedBeforeAnswer, SubmitFails, Throws, PollEpoch,
         WaitEndsUnknown, StartLookup, ResolveSession, LookupFails, callVars
    <3> QED BY <3>1, <3>2, <3>3
  <2>2. CASE pc[c] \notin LookupSteps
    <3>1. StartLookup(c) \/ ResolveSession(c)
      BY <1>0, <1>2, <2>2 DEF CallNext, Start, TakePresign, OpenSession, Send, Resend, DepositUnread,
         Answered, PoolEmpty, ClosedBeforeAnswer, SubmitFails, Throws, PollEpoch,
         WaitEndsUnknown, LookupRecord, LookupCharges, LookupFails, Expire, Goto, End, callVars,
         LookupSteps, TypeOK
    <3>2. CASE ResolveSession(c)
      BY <3>2 DEF ResolveSession
    <3>3. CASE StartLookup(c)
      BY <1>0, <3>3 DEF StartLookup, CallInv, SessionSteps, LookupSteps
    <3> QED BY <3>1, <3>2, <3>3
  <2> QED BY <2>1, <2>2
<1> QED BY <1>1, <1>2 DEF OverInv

\* Any other step leaves what a call told alone, and a session that is over is over.
LEMMA OverStays ==
    ASSUME IInv, Next, NEW d \in Calls, OverInv(d),
           UNCHANGED <<current[d], pc[d], result[d], verdict[d]>>,
           NetNext \/ UNCHANGED fate
    PROVE  OverInv(d)'
<1>1. Told(d)' = Told(d)
  BY DEF Told
<1>2. ASSUME current[d] # NoSession
      PROVE  Ran(current[d]) \/ Dead(current[d]) => (Ran(current[d]) \/ Dead(current[d]))'
  <2>1. current[d] \in Sessions /\ owner[current[d]] # NoCall
    BY <1>2, SubmissionAssumption DEF IInv, CallInv, TypeOK
  <2>2. Ran(current[d]) => Ran(current[d])'
    BY <2>1, RunsAndRecordsStay DEF IInv, Ran
  <2>3. Dead(current[d]) => Dead(current[d])'
    <3>1. \A s \in Sessions : owner[s] # NoCall /\ Dead(s) => Dead(s)'
      BY DeadStaysDead DEF IInv
    <3> QED BY <2>1, <3>1 DEF Dead
  <2> QED BY <2>2, <2>3
<1> QED BY <1>1, <1>2 DEF OverInv

\* What the refinement needs besides the inductive invariant.
PInv == AskedInv /\ \A c \in Calls : OverInv(c)

\* It holds at first.
LEMMA PInvInit == Init => PInv
BY DEF Init, PInv, AskedInv, OverInv, Told, LookupSteps

\* Every step preserves it.
LEMMA PInvStep == IInv /\ PInv /\ [Next]_vars => PInv'
<1> SUFFICES ASSUME IInv, PInv, [Next]_vars PROVE PInv'
  OBVIOUS
<1>1. CASE NetNext /\ UNCHANGED callVars
  <2>1. request' = request /\ UNCHANGED <<owner, pc, args, current, result, verdict>>
    BY <1>1, NetFrame DEF IInv, callVars
  <2>2. AskedInv'
    BY <2>1 DEF PInv, AskedInv
  <2>3. \A d \in Calls : OverInv(d)'
    BY <1>1, <2>1, OverStays DEF PInv, Next
  <2> QED BY <2>2, <2>3 DEF PInv
<1>2. ASSUME NEW c \in Calls, CallNext(c) PROVE PInv'
  <2>1. AskedInv'
    BY <1>2, AskedOwnStep DEF PInv
  <2>2. OverInv(c)'
    BY <1>2, OverOwnStep DEF PInv
  <2>3. ASSUME NEW d \in Calls \ {c} PROVE OverInv(d)'
    <3>1. UNCHANGED <<current[d], pc[d], result[d], verdict[d], fate>>
      BY <1>2, CallFrame DEF IInv
    <3> QED BY <1>2, <3>1, OverStays DEF PInv, Next
  <2> QED BY <2>1, <2>2, <2>3 DEF PInv
<1>3. CASE UNCHANGED vars
  BY <1>3 DEF vars, netVars, callVars, PInv, AskedInv, OverInv, Told, Ran, Dead
<1> QED BY <1>1, <1>2, <1>3 DEF Next

\* What a call's step tells is backed, in the abstract specification's terms.
LEMMA FactIsBacked ==
    ASSUME IInv, PInv, NEW c \in Calls, pc[c] # "idle", NEW what,
           Fact(c, what)
    PROVE  Promise!Backed(c, what)
<1>0. TypeOK /\ (c \in RanCalls <=> current[c] # NoSession /\ Ran(current[c]))
  BY RanByTheLast DEF IInv
<1>1. PAsked[c].kind = args[c].kind /\ PAsked[c].target = args[c].target
  BY <1>0, AskedIsAsked
<1>2. CASE what \in {"failed", "pending"}
  BY <1>2 DEF Promise!Backed
<1>3. CASE what = "answer" /\ current[c] # NoSession /\ Ran(current[c])
  BY <1>0, <1>3 DEF Promise!Backed
<1>4. CASE what = "neverRan" /\ (current[c] = NoSession \/ Dead(current[c]))
  BY <1>0, <1>4, DeadDidNotRun DEF Promise!Backed
<1>5. ASSUME pc[c] \in LookupSteps
      PROVE  /\ current[c] \in Sessions /\ current[c] # NoSession
             /\ request[current[c]].kind = args[c].kind
             /\ request[current[c]].target = args[c].target
             /\ args[c].target \in Targets \cup {NoTarget}
             /\ \A k \in TargetKinds :
                   Written(current[c], k) => <<args[c].target, k>> \in Shown
  <2>1. current[c] \in Sessions /\ current[c] # NoSession
    BY <1>5, LookedUpIsOver, NetworkAssumption
  <2>2. owner[current[c]] = c /\ c # NoCall
    BY <2>1, SubmissionAssumption DEF IInv, CallInv
  <2>3. /\ request[current[c]].kind = args[c].kind
        /\ request[current[c]].target = args[c].target
    BY <2>1, <2>2 DEF PInv, AskedInv
  <2>4. args[c].target \in Targets \cup {NoTarget}
    BY <1>0 DEF TypeOK, Args
  <2> QED BY <2>1, <2>3, <2>4 DEF Written, Shown
<1>6. CASE /\ what = "signature" /\ pc[c] \in LookupSteps
           /\ RecordOutcome(current[c]) = "signature"
  <2>1. <<args[c].target, args[c].kind>> \in Shown
    BY <1>0, <1>5, <1>6, RecordOutcomeIsReal
  <2> QED BY <1>1, <1>6, <2>1 DEF Promise!Backed, PAsked
<1>7. CASE /\ what = "ran" /\ pc[c] \in LookupSteps
           /\ ChargeRecorded(current[c]) \/ RecordOutcome(current[c]) \in {"ran", "signature"}
  <2>1. Ran(current[c]) \/ \E k \in TargetKinds : Written(current[c], k)
    BY <1>0, <1>5, <1>7, RecordOutcomeIsReal DEF ChargeRecorded, Ran
  <2>2. c \in RanCalls \/ \E k \in TargetKinds : <<args[c].target, k>> \in Shown
    BY <1>0, <1>5, <1>7, <2>1
  <2> QED BY <1>1, <1>7, <2>2 DEF Promise!Backed, PAsked
<1> QED BY <1>2, <1>3, <1>4, <1>6, <1>7 DEF Fact

\* Any other step of a call tells the application something, or is hidden from it.
LEMMA PromiseCall ==
    ASSUME IInv, PInv, NEW c \in Calls, CallNext(c), ~Start(c)
    PROVE  Promise!PromiseNext \/ UNCHANGED Promise!promiseVars
<1>0. TypeOK /\ OverInv(c) /\ pc[c] # "idle" /\ pc'[c] # "idle"
  BY NeverIdleAgain DEF IInv, PInv
<1>1. RanCalls' = RanCalls /\ Shown' = Shown
  BY RunsFrame
<1>2. UNCHANGED args
  BY DEF CallNext, TakePresign, OpenSession, Send, Resend, DepositUnread, Answered,
         PoolEmpty, ClosedBeforeAnswer, SubmitFails, Throws, PollEpoch, WaitEndsUnknown,
         StartLookup, ResolveSession, LookupRecord, LookupCharges, LookupFails, callVars
<1>3. \A d \in Calls \ {c} : pc'[d] = pc[d] /\ Told(d)' = Told(d)
  BY <1>0, CallFrame DEF Told
<1>4. PAsked' = PAsked
  BY <1>0, <1>2, <1>3 DEF PAsked
<1>5. CASE Told(c)' = Told(c)
  <2>1. PTold' = PTold
    BY <1>3, <1>5 DEF PTold
  <2> QED BY <1>1, <1>4, <2>1 DEF Promise!promiseVars, PAsked, PTold
<1>6. CASE Tells(c)
  <2> DEFINE what == Told(c)'
  <2>1. PTold' = [PTold EXCEPT ![c] = what]
    BY <1>3 DEF PTold
  <2>2. PTold[c] \in {"nothing", "pending"}
    BY <1>0, FinalIsFinal DEF PTold
  <2>3. what \in {"failed", "pending", "answer", "signature", "ran", "neverRan"}
    BY <1>6 DEF Tells, Fact
  <2>4. PTold[c] = "pending" => what \in {"ran", "neverRan"}
    BY <1>6 DEF Tells, PTold
  <2>5. Promise!Backed(c, what)
    BY <1>0, <1>6, FactIsBacked DEF Tells
  <2>6. PAsked[c] # Promise!NotAsked
    BY <1>0, AskedIsAsked
  <2> HIDE DEF what
  <2>7. Promise!Tell(c)
    BY <1>1, <1>4, <2>1, <2>2, <2>3, <2>4, <2>5, <2>6 DEF Promise!Tell, PAsked, PTold
  <2> QED BY <2>7 DEF Promise!PromiseNext
<1> QED BY <1>0, <1>5, <1>6, ToldStep

\* A network step is the run of a request, its writing, or is hidden.
LEMMA PromiseNet ==
    ASSUME IInv, PInv, NetNext, UNCHANGED callVars
    PROVE  Promise!PromiseNext \/ UNCHANGED Promise!promiseVars
<1>0. /\ TypeOK /\ request' = request
      /\ UNCHANGED <<owner, pc, args, current, result, verdict>>
  BY NetFrame DEF IInv, callVars
<1>1. PAsked' = PAsked /\ PTold' = PTold
  BY <1>0 DEF PAsked, PTold, Told
<1>s. \A s \in Sessions : fate[s] # "none" \/ s \in handed => owner[s] \in Calls
  BY <1>0 DEF IInv, SessionsInv, TypeOK
<1>a. ASSUME NEW s \in Sessions, owner[s] \in Calls
      PROVE  /\ PAsked[owner[s]] # Promise!NotAsked
             /\ PAsked[owner[s]].kind = request[s].kind
             /\ PAsked[owner[s]].target = request[s].target
  <2>1. /\ owner[s] # NoCall /\ pc[owner[s]] # "idle"
        /\ request[s].kind = args[owner[s]].kind
        /\ request[s].target = args[owner[s]].target
    BY <1>a, SubmissionAssumption DEF PInv, AskedInv
  <2> QED BY <1>0, <1>a, <2>1, AskedIsAsked
<1>h. ASSUME \A s \in Sessions : Ran(s)' <=> Ran(s), UNCHANGED record
      PROVE  UNCHANGED Promise!promiseVars
  <2>1. RanCalls' = RanCalls /\ Shown' = Shown
    BY <1>0, <1>h DEF RanCalls, Opened, Shown
  <2> QED BY <1>1, <2>1 DEF Promise!promiseVars, PAsked, PTold
<1> USE DEF TypeOK, NetTypeOK
<1>2. ASSUME NEW s \in Sessions, Sequence(s) PROVE Promise!PromiseNext
  <2> DEFINE c == owner[s]
  <2>1. c \in Calls /\ fate[s] = "none" /\ ~Dead(s) /\ ~Ran(s)
    <3>1. /\ s \in handed /\ fate[s] = "none" /\ request[s].epoch = netEpoch
          /\ phase # "cutoff"
      BY <1>2 DEF Sequence, CanStart
    <3>2. chainEpoch = netEpoch /\ chainEpoch \in Nat
      BY <1>0, <3>1 DEF IInv, EpochsInv
    <3> QED BY <1>s, <3>1, <3>2 DEF Dead, Ran
  <2>2. s = current[c] /\ s # NoSession
    BY <2>1, NetworkAssumption DEF IInv, SessionsInv
  <2>3. c \notin RanCalls
    BY <2>1, <2>2, RanByTheLast
  <2>4. PTold[c] \in Promise!Open
    <3>1. Told(c) \notin {"answer", "signature", "ran", "neverRan"}
      BY <2>1, <2>2 DEF PInv, OverInv
    <3>2. result[c] \in Results
      BY <1>0, <2>1
    <3> QED BY <2>1, <3>1, <3>2 DEF PTold, Promise!Open, Told, Results
  <2>5. \A r \in Sessions : Ran(r)' <=> Ran(r) \/ r = s
    BY <1>0, <1>2 DEF Sequence, Ran
  <2>6. RanCalls' = RanCalls \cup {c} /\ Shown' = Shown
    BY <1>0, <1>2, <2>1, <2>5 DEF Sequence, RanCalls, Opened, Shown
  <2>7. PAsked[c] # Promise!NotAsked
    BY <1>a, <2>1
  <2> HIDE DEF c
  <2>8. Promise!Run(c)
    BY <1>1, <2>3, <2>4, <2>6, <2>7 DEF Promise!Run, PAsked, PTold
  <2> QED BY <2>1, <2>8 DEF Promise!PromiseNext
<1>3. ASSUME NEW s \in Sessions, Deliver(s), request[s].kind \in TargetKinds
      PROVE  Promise!PromiseNext
  <2> DEFINE c == owner[s]
  <2> DEFINE place == <<request[s].target, request[s].kind>>
  <2>1. c \in Calls /\ Ran(s)
    BY <1>3, <1>s DEF Deliver, Ran
  <2>2. c \in RanCalls
    BY <2>1 DEF RanCalls, Opened
  <2>3. \A r \in Sessions : Ran(r)' <=> Ran(r)
    BY <1>0, <1>3 DEF Deliver, Ran
  <2>4. RanCalls' = RanCalls
    BY <1>0, <2>3 DEF RanCalls, Opened
  <2>5. request[s].target \in Targets \cup {NoTarget}
    BY <1>0 DEF Request
  <2>6. \A t \in Targets \cup {NoTarget}, k \in TargetKinds :
           record'[t][k] = IF t = request[s].target /\ k = request[s].kind THEN s
                           ELSE record[t][k]
    BY <1>0, <1>3, <2>5 DEF Deliver
  <2>7. record[request[s].target][request[s].kind] = NoSession /\ s # NoSession
    BY <1>3, NetworkAssumption DEF Deliver, TargetFree
  <2>8. place \notin Shown
    BY <2>7 DEF Shown
  <2>9. Shown' = Shown \cup {place}
    <3>1. place \in (Targets \cup {NoTarget}) \X TargetKinds
      BY <1>3, <2>5
    <3>2. ASSUME NEW p \in (Targets \cup {NoTarget}) \X TargetKinds
          PROVE  p \in Shown' <=> p \in Shown \/ p = place
      BY <2>6, <2>7, <3>2 DEF Shown
    <3> QED BY <3>1, <3>2 DEF Shown
  <2>10. PAsked[c].kind = request[s].kind /\ PAsked[c].target = request[s].target
    BY <1>a, <2>1
  <2> HIDE DEF c
  <2>11. Promise!Write(c)
    BY <1>1, <1>3, <2>2, <2>4, <2>8, <2>9, <2>10 DEF Promise!Write, PAsked, PTold
  <2> QED BY <2>1, <2>11 DEF Promise!PromiseNext
<1>4. ASSUME NEW s \in Sessions,
             \/ RefuseFree(s) \/ Drop(s) \/ Charge(s) \/ GiveUpHidden(s)
             \/ Deliver(s) /\ request[s].kind \notin TargetKinds
      PROVE  UNCHANGED Promise!promiseVars
  <2>1. \A r \in Sessions : Ran(r)' <=> Ran(r)
    BY <1>0, <1>4 DEF RefuseFree, Drop, Charge, GiveUpHidden, Deliver, CanStart, Ran
  <2> QED BY <1>4, <1>h, <2>1 DEF RefuseFree, Drop, Charge, GiveUpHidden, Deliver
<1>5. CASE BeginClose \/ Cutoff \/ ShowEpoch \/ EnterEpoch
  BY <1>5, <1>h DEF BeginClose, Cutoff, ShowEpoch, EnterEpoch, Ran
<1> QED BY <1>2, <1>3, <1>4, <1>5 DEF NetNext

\* A submission, with its resends, rebuilds, fresh presigns, lookups and a later
\* resolveSession, keeps the promise of one request: for any calls, sessions and
\* epochs, every step asks, runs, writes or tells as RequestPromise allows, or is hidden.
THEOREM SubmissionKeepsThePromise == Spec => KeepsThePromise
<1>1. Init => Promise!PromiseInit /\ PInv
  BY PromiseInitially, PInvInit
<1>2. IInv /\ PInv /\ [Next]_vars => [Promise!PromiseNext]_Promise!promiseVars
  <2> SUFFICES ASSUME IInv, PInv, [Next]_vars
               PROVE  [Promise!PromiseNext]_Promise!promiseVars
    OBVIOUS
  <2>1. CASE NetNext /\ UNCHANGED callVars
    BY <2>1, PromiseNet
  <2>2. ASSUME NEW c \in Calls, CallNext(c)
        PROVE  [Promise!PromiseNext]_Promise!promiseVars
    BY <2>2, PromiseStart, PromiseCall
  <2>3. CASE UNCHANGED vars
    BY <2>3 DEF vars, netVars, callVars, Promise!promiseVars, RanCalls, Opened, Ran, Shown, Told
  <2> QED BY <2>1, <2>2, <2>3 DEF Next
<1> QED
  BY <1>1, <1>2, PInvStep, Invariance, PTL DEF Spec, KeepsThePromise, Promise!PromiseSpec

==============================================================================
