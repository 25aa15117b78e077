-------------------------- MODULE RequestSubmission --------------------------
(***************************************************************************)
(* How the SDK submits a request, and what it does when the request's      *)
(* epoch closes before an answer: `#submit`, `#submitWithPresign`,         *)
(* `#signAndSend`, `#sendUntilAnswered`, `#resendWhileDepositUnread`,      *)
(* `#outcomeAfterEpochClose` and `#answerOrThrow` of engine.ts, the lookup *)
(* `findSession` of request-records.ts, the presign retry `#withPresign`   *)
(* and `resolveSession` of ika-client-base.ts.                             *)
(*                                                                         *)
(* Several calls run at once on one connection (`Network`), and share its  *)
(* latest chain epoch `#epoch`. Chain epoch reads may lag. An RPC's answer *)
(* is one validator's word: another copy of the same bytes may be with     *)
(* another validator. A record read is never older than the epoch read     *)
(* that preceded it (see the README for where the code relies on it).      *)
(***************************************************************************)
EXTENDS IkaNetwork

CONSTANTS
    Calls,         \* calls an application makes
    NoCall,
    AppKinds,      \* the kinds of request it makes
    Rebuilds,      \* REBUILDS_AFTER_EPOCH_CLOSE
    OwnAttempts,   \* OWN_PRESIGN_ATTEMPTS
    HasRecords     \* whether the connection was given `requestRecords`

ASSUME SubmissionAssumption ==
    /\ NoCall \notin Calls
    /\ AppKinds \subseteq Kinds
    /\ Rebuilds \in Nat
    /\ OwnAttempts \in Nat \ {0}
    /\ HasRecords \in BOOLEAN

\* How a call submits: `#submit`; `#submitWithPresign` with a presign the
\* caller passed; the same under `#withPresign`, with presigns the call takes.
Modes == {"submit", "presign", "ownPresign"}

\* The modes the public methods use for each kind. A DKG may carry a sign.
ModesOf(k) ==
    CASE k \in {"sign", "futureSignStepOne"} -> {"presign", "ownPresign"}
      [] k = "dkg" -> {"submit", "presign"}
      [] OTHER -> {"submit"}

\* What a request of each kind may name.
TargetsOf(k) == IF k \in TargetKinds THEN Targets ELSE {NoTarget}

Args == [kind : Kinds, target : Targets \cup {NoTarget}, mode : Modes]

\* Where a call is. "takingPresign", "reading" (the chain's epoch), "signing",
\* "sending" (#sendUntilAnswered), "resending" (#resendWhileDepositUnread),
\* "waiting" (for the epoch at which the session is settled), "lookup" (the
\* first read of findSession), and the read of the charges, after which
\* nothing found means "notRun" or "unknown".
Steps == {"idle", "takingPresign", "reading", "signing", "sending",
          "resending", "waiting", "lookup", "chargesElseNotRun",
          "chargesElseUnknown", "ended"}

\* How a call ended: the network's answer; the voucher's signature; or
\* RequestRanBeforeAnswer, EpochClosedBeforeAnswer,
\* PresignExpiredWithTheEpoch, or another error.
Results == {"none", "answered", "signature", "ran", "epochClosed",
            "presignExpired", "failed"}

VARIABLES
    epoch,         \* Network.#epoch: the latest epoch the chain showed
    pc,            \* where each call is
    args,          \* what each call was asked
    presignEpoch,  \* the epoch of the presign a call holds
    rebuildsLeft,  \* the argument of #submit
    attempt,       \* the loop counter of #withPresign
    owner,         \* the call that opened each session
    current,       \* the session each call opened last
    result,        \* how each call ended
    verdict        \* what resolveSession said of its pending request

callVars == <<epoch, pc, args, presignEpoch, rebuildsLeft, attempt, owner,
              current, result, verdict>>
vars == <<netVars, callVars>>

\* The arguments of a call before it starts.
NotCalled == [kind |-> "presign", target |-> NoTarget, mode |-> "submit"]

\* The types of both modules' state.
TypeOK ==
    /\ NetTypeOK
    /\ epoch \in Nat
    /\ pc \in [Calls -> Steps]
    /\ args \in [Calls -> Args]
    /\ presignEpoch \in [Calls -> Nat]
    /\ rebuildsLeft \in [Calls -> Nat]
    /\ attempt \in [Calls -> Nat]
    /\ owner \in [Sessions -> Calls \cup {NoCall}]
    /\ current \in [Calls -> Sessions \cup {NoSession}]
    /\ result \in [Calls -> Results]
    /\ verdict \in [Calls -> {"none", "ran", "neverRan", "unknown"}]

Init ==
    /\ NetInit
    /\ epoch = 1
    /\ pc = [c \in Calls |-> "idle"]
    /\ args = [c \in Calls |-> NotCalled]
    /\ presignEpoch = [c \in Calls |-> 0]
    /\ rebuildsLeft = [c \in Calls |-> 0]
    /\ attempt = [c \in Calls |-> 0]
    /\ owner = [s \in Sessions |-> NoCall]
    /\ current = [c \in Calls |-> NoSession]
    /\ result = [c \in Calls |-> "none"]
    /\ verdict = [c \in Calls |-> "none"]

\* The sessions a call opened.
Opened(c) == {s \in Sessions : owner[s] = c}

-----------------------------------------------------------------------------
(* Chain epoch.                                                            *)

\* Mutant of LaterOf: the last read is kept, not the latest epoch.
LastRead(read) == read

\* A read of the chain's epoch may lag; the latest epoch seen is kept.
LaterOf(read) == IF read > epoch THEN read ELSE epoch

\* Ways for a call to end or to move on, used by several actions.
End(c, how) ==
    /\ pc' = [pc EXCEPT ![c] = "ended"]
    /\ result' = [result EXCEPT ![c] = how]
Goto(c, step) ==
    /\ pc' = [pc EXCEPT ![c] = step]
    /\ UNCHANGED result

\* The presign expired with its epoch. `#withPresign` takes another one when
\* the call took this one itself.
Expire(c) ==
    IF args[c].mode = "ownPresign" /\ attempt[c] < OwnAttempts
    THEN Goto(c, "takingPresign") /\ attempt' = [attempt EXCEPT ![c] = @ + 1]
    ELSE End(c, "presignExpired") /\ UNCHANGED attempt

-----------------------------------------------------------------------------
(* Starting a call, taking a presign.                                      *)

\* A presign the caller passes was made in some epoch up to the chain's.
Start(c) ==
    /\ pc[c] = "idle"
    /\ \E k \in AppKinds : \E m \in ModesOf(k), t \in TargetsOf(k) :
          /\ args' = [args EXCEPT ![c] = [kind |-> k, target |-> t, mode |-> m]]
          /\ Goto(c, IF m = "ownPresign" THEN "takingPresign" ELSE "reading")
          /\ IF m = "presign"
             THEN \E e \in 1 .. chainEpoch :
                     presignEpoch' = [presignEpoch EXCEPT ![c] = e]
             ELSE UNCHANGED presignEpoch
    /\ rebuildsLeft' = [rebuildsLeft EXCEPT ![c] = Rebuilds]
    /\ attempt' = [attempt EXCEPT ![c] = 1]
    /\ UNCHANGED <<netVars, epoch, owner, current, verdict>>

\* The presign request is a call of its own: it reads the chain's epoch, and
\* its presign is made in the epoch that the request named.
TakePresign(c) ==
    /\ pc[c] = "takingPresign"
    /\ \E read \in 1 .. chainEpoch :
          /\ epoch' = LaterOf(read)
          /\ presignEpoch' = [presignEpoch EXCEPT ![c] = LaterOf(read)]
    /\ Goto(c, "reading")
    /\ UNCHANGED <<netVars, args, rebuildsLeft, attempt, owner, current, verdict>>

-----------------------------------------------------------------------------
(* Signing and sending.                                                    *)

\* The epoch the request names: the presign's, or the one the chain shows.
NamedEpoch(c, shown) ==
    IF args[c].mode = "submit" THEN shown ELSE presignEpoch[c]

\* #readChainEpoch answered: the call opens a fresh session, unless it holds a
\* presign that the chain's epoch has passed.
OpenSession(c) ==
    /\ pc[c] = "reading"
    /\ \E read \in 1 .. chainEpoch :
          /\ epoch' = LaterOf(read)
          /\ \/ /\ args[c].mode # "submit"
                /\ LaterOf(read) > presignEpoch[c]
                /\ Expire(c)
                /\ UNCHANGED <<request, owner, current>>
             \/ /\ args[c].mode # "submit" => LaterOf(read) <= presignEpoch[c]
                /\ \E s \in Sessions :
                      /\ owner[s] = NoCall
                      /\ owner' = [owner EXCEPT ![s] = c]
                      /\ current' = [current EXCEPT ![c] = s]
                      /\ request' = [request EXCEPT ![s] =
                            [kind |-> args[c].kind, target |-> args[c].target,
                             epoch |-> NamedEpoch(c, LaterOf(read))]]
                /\ Goto(c, "signing")
                /\ UNCHANGED attempt
    /\ UNCHANGED <<netEpoch, phase, chainEpoch, handed, fate, record, closed,
                   args, presignEpoch, rebuildsLeft, verdict>>

\* The request is built and signed once, and its bytes are sent.
Send(c) ==
    /\ pc[c] = "signing"
    /\ handed' = handed \cup {current[c]}
    /\ Goto(c, "sending")
    /\ UNCHANGED <<netEpoch, phase, chainEpoch, request, fate, record, closed,
                   epoch, args, presignEpoch, rebuildsLeft, attempt, owner,
                   current, verdict>>

\* No answer (UNAVAILABLE, DEADLINE_EXCEEDED, ABORTED): the same bytes again.
Resend(c) ==
    /\ pc[c] = "sending"
    /\ handed' = handed \cup {current[c]}
    /\ UNCHANGED <<netEpoch, phase, chainEpoch, request, fate, record, closed,
                   callVars>>

\* A validator has not read the gas deposit: the same bytes are sent again,
\* and from here on a transport failure is thrown.
DepositUnread(c) ==
    /\ pc[c] \in {"sending", "resending"}
    /\ request[current[c]].epoch = netEpoch
    /\ handed' = handed \cup {current[c]}
    /\ Goto(c, "resending")
    /\ UNCHANGED <<netEpoch, phase, chainEpoch, request, fate, record, closed,
                   epoch, args, presignEpoch, rebuildsLeft, attempt, owner,
                   current, verdict>>

\* A validator answers from the session's output.
Answered(c) ==
    /\ pc[c] \in {"sending", "resending"}
    /\ Ran(current[c])
    /\ End(c, "answered")
    /\ UNCHANGED <<netVars, epoch, args, presignEpoch, rebuildsLeft, attempt,
                   owner, current, verdict>>

\* The network refused a pool presign for free. requestPresign asks again,
\* under a new session, or throws the refusal.
PoolEmpty(c) ==
    /\ pc[c] \in {"sending", "resending"}
    /\ fate[current[c]] = "free"
    /\ \/ /\ Goto(c, "reading")
          /\ rebuildsLeft' = [rebuildsLeft EXCEPT ![c] = Rebuilds]
       \/ End(c, "failed") /\ UNCHANGED rebuildsLeft
    /\ UNCHANGED <<netVars, epoch, args, presignEpoch, attempt, owner, current,
                   verdict>>

\* Some validator may say that the epoch of the session is closing, or closed.
ClosedByAValidator(s) ==
    \/ request[s].epoch < netEpoch
    \/ request[s].epoch = netEpoch /\ phase # "open"

\* A closing refusal, or a refusal of the request's epoch as a past one.
ClosedBeforeAnswer(c) ==
    /\ pc[c] \in {"sending", "resending"}
    /\ ClosedByAValidator(current[c])
    /\ Goto(c, "waiting")
    /\ UNCHANGED <<netVars, epoch, args, presignEpoch, rebuildsLeft, attempt,
                   owner, current, verdict>>

\* The submit deadline passed, a resend failed in transport, the deposit is
\* still unread at its deadline, or a validator answered another error.
SubmitFails(c) ==
    /\ pc[c] \in {"sending", "resending"}
    /\ End(c, "failed")
    /\ UNCHANGED <<netVars, epoch, args, presignEpoch, rebuildsLeft, attempt,
                   owner, current, verdict>>

\* A presign, a chain read, or a computation of the user's half failed.
Throws(c) ==
    /\ pc[c] \in {"takingPresign", "reading", "signing", "waiting"}
    /\ End(c, "failed")
    /\ UNCHANGED <<netVars, epoch, args, presignEpoch, rebuildsLeft, attempt,
                   owner, current, verdict>>

-----------------------------------------------------------------------------
(* After the epoch closed: wait until the session is settled, look it up.  *)

\* Mutant of SettledAt: a re-encryption is looked up one epoch too early.
SettledAtTheNext(s) == request[s].epoch + 1

\* The epoch the chain must show before the session is settled on it.
SettledAt(s) ==
    request[s].epoch + (IF request[s].kind = "reEncryptShare" THEN 2 ELSE 1)

\* A poll of the chain's epoch. A read that fails changes nothing.
PollEpoch(c) ==
    /\ pc[c] = "waiting"
    /\ epoch < SettledAt(current[c])
    /\ \E read \in 1 .. chainEpoch : epoch' = LaterOf(read)
    /\ UNCHANGED <<netVars, pc, args, presignEpoch, rebuildsLeft, attempt,
                   owner, current, result, verdict>>

\* Mutant of WaitEndsUnknown: the wait has no deadline.
WaitEndsOnlyWithoutRecords(c) ==
    /\ pc[c] = "waiting"
    /\ ~HasRecords
    /\ End(c, "epochClosed")
    /\ UNCHANGED <<netVars, epoch, args, presignEpoch, rebuildsLeft, attempt,
                   owner, current, verdict>>

\* EPOCH_CLOSE_WAIT_MS passed before the chain got that far, or it did and
\* the connection cannot read records: the outcome is unknown.
WaitEndsUnknown(c) ==
    /\ pc[c] = "waiting"
    /\ epoch < SettledAt(current[c]) \/ ~HasRecords
    /\ End(c, "epochClosed")
    /\ UNCHANGED <<netVars, epoch, args, presignEpoch, rebuildsLeft, attempt,
                   owner, current, verdict>>

\* Mutant of StartLookup: the refusal alone starts the lookup.
LookupAtOnce(c) ==
    /\ pc[c] = "waiting"
    /\ HasRecords
    /\ Goto(c, "lookup")
    /\ UNCHANGED <<netVars, epoch, args, presignEpoch, rebuildsLeft, attempt,
                   owner, current, verdict>>

\* The chain shows the epoch at which the session is settled: look it up.
StartLookup(c) ==
    /\ pc[c] = "waiting"
    /\ epoch >= SettledAt(current[c])
    /\ HasRecords
    /\ Goto(c, "lookup")
    /\ UNCHANGED <<netVars, epoch, args, presignEpoch, rebuildsLeft, attempt,
                   owner, current, verdict>>

\* Mutant of ResolveSession: "waiting" is never answered.
ResolveAtOnce(c) ==
    /\ pc[c] = "ended"
    /\ result[c] = "epochClosed"
    /\ verdict[c] \in {"none", "unknown"}
    /\ Goto(c, "lookup")
    /\ UNCHANGED <<netVars, epoch, args, presignEpoch, rebuildsLeft, attempt,
                   owner, current, verdict>>

\* The application passes the pending request of EpochClosedBeforeAnswer to
\* resolveSession, which reads the chain's epoch itself.
ResolveSession(c) ==
    /\ pc[c] = "ended"
    /\ result[c] = "epochClosed"
    /\ verdict[c] \in {"none", "unknown"}
    /\ \E read \in 1 .. chainEpoch : read >= SettledAt(current[c])
    /\ Goto(c, "lookup")
    /\ UNCHANGED <<netVars, epoch, args, presignEpoch, rebuildsLeft, attempt,
                   owner, current, verdict>>

\* The call's own lookup, or that of a later resolveSession.
Resolving(c) == result[c] = "epochClosed"

\* `ran` and `signature` end the call; resolveSession answers `ran` for both.
Found(c, outcome) ==
    IF Resolving(c)
    THEN /\ pc' = [pc EXCEPT ![c] = "ended"]
         /\ verdict' = [verdict EXCEPT ![c] = "ran"]
         /\ UNCHANGED result
    ELSE End(c, outcome) /\ UNCHANGED verdict

\* `unknown`: EpochClosedBeforeAnswer, or resolveSession's "unknown".
NotKnown(c) ==
    /\ End(c, "epochClosed")
    /\ verdict' = IF Resolving(c) THEN [verdict EXCEPT ![c] = "unknown"] ELSE verdict

\* `notRun`: build again for a later epoch while rebuilds are left, report the
\* presign as expired, or answer "neverRan".
NeverRan(c) ==
    IF Resolving(c)
    THEN /\ pc' = [pc EXCEPT ![c] = "ended"]
         /\ verdict' = [verdict EXCEPT ![c] = "neverRan"]
         /\ UNCHANGED <<result, rebuildsLeft, attempt>>
    ELSE /\ UNCHANGED verdict
         /\ \/ /\ args[c].mode # "submit"
               /\ Expire(c)
               /\ UNCHANGED rebuildsLeft
            \/ /\ args[c].mode = "submit"
               /\ rebuildsLeft[c] > 0
               /\ rebuildsLeft' = [rebuildsLeft EXCEPT ![c] = @ - 1]
               /\ Goto(c, "reading")
               /\ UNCHANGED attempt
            \/ /\ args[c].mode = "submit"
               /\ rebuildsLeft[c] = 0
               /\ End(c, "epochClosed")
               /\ UNCHANGED <<rebuildsLeft, attempt>>

\* A voucher or a share record of the request's target is written.
Written(s, k) == record[request[s].target][k] # NoSession

\* Mutant of RecordOutcome: a closed future voucher is taken for a step 1.
OutcomeOfClosedIsRan(s) ==
    IF Written(s, request[s].kind)
    THEN IF request[s].kind \in {"sign", "futureSignCompletion"} THEN "signature" ELSE "ran"
    ELSE IF request[s].target \in closed THEN "ran"
    ELSE "chargesElseNotRun"

\* What findSession makes of its first read: an outcome, or the read of the
\* charges that follows.
RecordOutcome(s) ==
    LET k == request[s].kind IN
    CASE k = "presign" -> "chargesElseNotRun"
      [] k \in {"sign", "futureSignCompletion"} ->
            IF Written(s, k) THEN "signature" ELSE "chargesElseNotRun"
      [] k = "futureSignStepOne" ->
            IF Written(s, k) \/ Written(s, "futureSignCompletion") THEN "ran"
            ELSE IF request[s].target \in closed THEN "chargesElseUnknown"
            ELSE "chargesElseNotRun"
      [] k \in {"makeSharePublic", "reEncryptShare"} ->
            IF Written(s, k) THEN "ran" ELSE "chargesElseNotRun"
      [] k \in {"dkg", "importedKey"} ->
            IF fate[s] = "delivered" THEN "ran" ELSE "chargesElseUnknown"

\* The charge records whose ids the session gives. A completed presign is one.
ChargeRecorded(s) ==
    \/ fate[s] = "charged"
    \/ request[s].kind = "presign" /\ fate[s] = "delivered"

LookupRecord(c) ==
    /\ pc[c] = "lookup"
    /\ LET outcome == RecordOutcome(current[c]) IN
          IF outcome \in {"ran", "signature"}
          THEN Found(c, outcome)
          ELSE Goto(c, outcome) /\ UNCHANGED verdict
    /\ UNCHANGED <<netVars, epoch, args, presignEpoch, rebuildsLeft, attempt,
                   owner, current>>

LookupCharges(c) ==
    /\ pc[c] \in {"chargesElseNotRun", "chargesElseUnknown"}
    /\ \/ /\ ChargeRecorded(current[c])
          /\ Found(c, "ran")
          /\ UNCHANGED <<rebuildsLeft, attempt>>
       \/ /\ ~ChargeRecorded(current[c])
          /\ pc[c] = "chargesElseUnknown"
          /\ NotKnown(c)
          /\ UNCHANGED <<rebuildsLeft, attempt>>
       \/ /\ ~ChargeRecorded(current[c])
          /\ pc[c] = "chargesElseNotRun"
          /\ NeverRan(c)
    /\ UNCHANGED <<netVars, epoch, args, presignEpoch, owner, current>>

\* A record read fails, or the future voucher is not there: unknown.
LookupFails(c) ==
    /\ pc[c] \in {"lookup", "chargesElseNotRun", "chargesElseUnknown"}
    /\ End(c, "epochClosed")
    /\ UNCHANGED <<netVars, epoch, args, presignEpoch, rebuildsLeft, attempt,
                   owner, current, verdict>>

-----------------------------------------------------------------------------
CallNext(c) ==
    \/ Start(c) \/ TakePresign(c) \/ OpenSession(c) \/ Send(c) \/ Resend(c)
    \/ DepositUnread(c) \/ Answered(c) \/ PoolEmpty(c) \/ ClosedBeforeAnswer(c)
    \/ SubmitFails(c) \/ Throws(c) \/ PollEpoch(c) \/ WaitEndsUnknown(c)
    \/ StartLookup(c) \/ ResolveSession(c) \/ LookupRecord(c)
    \/ LookupCharges(c) \/ LookupFails(c)

Next ==
    \/ NetNext /\ UNCHANGED callVars
    \/ \E c \in Calls : CallNext(c)

Spec == Init /\ [][Next]_vars

\* What the SDK's own timers and the event loop guarantee of one call: a read,
\* a computation or a presign request ends, well or not, and a deadline passes.
\* Nothing is assumed of the network, the validators or the chain.
CallFairness(c) ==
    /\ WF_vars(/\ pc[c] # "waiting"
               /\ TakePresign(c) \/ OpenSession(c) \/ Send(c) \/ Throws(c))
    /\ WF_vars(SubmitFails(c))
    /\ WF_vars(WaitEndsUnknown(c) \/ StartLookup(c))
    /\ WF_vars(LookupRecord(c) \/ LookupCharges(c) \/ LookupFails(c))

FairSpec == Spec /\ \A c \in Calls : CallFairness(c)

-----------------------------------------------------------------------------
(* Properties.                                                             *)

\* A call's request runs, and is charged, at most once, whatever the SDK sends
\* again or builds again: no two sessions that the call opened were started.
AtMostOneRun ==
    \A s, r \in Sessions :
        owner[s] # NoCall /\ owner[s] = owner[r] /\ Ran(s) /\ Ran(r) => s = r

\* What the application knows of a call: how it ended, and what resolveSession said
\* of a request that was pending.
Told(c) ==
    IF result[c] = "none" THEN "nothing"
    ELSE IF result[c] = "answered" THEN "answer"
    ELSE IF result[c] = "presignExpired" THEN "neverRan"
    ELSE IF result[c] = "epochClosed"
    THEN IF verdict[c] \in {"ran", "neverRan"} THEN verdict[c] ELSE "pending"
    ELSE result[c]

\* PresignExpiredWithTheEpoch tells the application to sign again, and "neverRan" of
\* resolveSession that it may send the request again. Both are said only when no
\* session the call opened ran, or runs later.
NeverRanIsFinal ==
    \A s \in Sessions :
        owner[s] # NoCall /\ Told(owner[s]) = "neverRan" => ~Ran(s)

\* A step that opens another session for a call names a later epoch than the
\* session it replaces, unless the network refused that one for free: even a
\* lagging chain read never signs again for the epoch that closed.
RebuildNamesLaterEpoch ==
    [][\A c \in Calls :
         current[c] # NoSession /\ current'[c] # current[c]
           => \/ request'[current'[c]].epoch > request[current[c]].epoch
              \/ fate[current[c]] = "free"]_vars

\* How a call ends is never invented: an answer is for a session that ran, a
\* signature is in the voucher the call named, and RequestRanBeforeAnswer is
\* thrown only when the chain holds something for the session or its target.
OutcomesAreReal ==
    \A c \in Calls :
        /\ result[c] = "answered" => Ran(current[c])
        /\ result[c] = "signature" => Written(current[c], args[c].kind)
        /\ result[c] = "ran" =>
              \/ Ran(current[c])
              \/ \E k \in TargetKinds : Written(current[c], k)

\* The calls whose request the network ran, and what the chain shows.
RanCalls == {c \in Calls : \E s \in Opened(c) : Ran(s)}
Shown == {place \in (Targets \cup {NoTarget}) \X TargetKinds :
             record[place[1]][place[2]] # NoSession}

Promise == INSTANCE RequestPromise WITH
    Requests <- Calls,
    Demands <- [kind : Kinds, target : Targets \cup {NoTarget}],
    WritingKinds <- TargetKinds,
    asked <- [c \in Calls |->
                IF pc[c] = "idle" THEN [kind |-> "none", target |-> "none"]
                ELSE [kind |-> args[c].kind, target |-> args[c].target]],
    runs <- RanCalls,
    written <- Shown,
    told <- [c \in Calls |-> Told(c)]

\* A submission with its resends, rebuilds, fresh presigns, lookups and later
\* resolveSession keeps the promise of one request: it runs at most once, what is
\* told of it is backed by a run or by the chain, and after a final word (an answer,
\* "ran", an expired presign, "neverRan") no copy that a validator still holds runs.
KeepsThePromise == Promise!PromiseSpec

\* PresignExpiredWithTheEpoch means that the request was not sent, as the
\* error's class comment says.
ExpiredMeansUnsent ==
    \A c \in Calls : result[c] = "presignExpired" => Opened(c) = {}

\* The outcome `ran` means that the pending request's session ran, as the
\* comment of RequestOutcome says.
RanMeansThisSessionRan ==
    \A c \in Calls : result[c] = "ran" => Ran(current[c])

\* Every call the application makes ends, even when no validator answers and
\* the chain never shows a later epoch.
CallsEnd == \A c \in Calls : pc[c] # "idle" ~> pc[c] = "ended"
==============================================================================
