--------------------------- MODULE ValidatorCalls ---------------------------
(***************************************************************************)
(* The calls of the dWallet gRPC client (dwallet-client.ts) over any       *)
(* transport: a submission that fails over to further validators, a read,  *)
(* the repeated read of the network keys, and a submission carried across  *)
(* the close of an epoch. The calls share the record of the validators     *)
(* whose key the pinned TLS check refused, and close().                    *)
(*                                                                         *)
(* One action is one synchronous stretch between two awaits: an answer is  *)
(* handled and the next validator is asked in one step. Time passes only   *)
(* in Tick, and is kept as ages and as the time left, so that no clock     *)
(* bounds a behaviour. A request that is signed opens a session: a call    *)
(* and the number of its build. Copies of one request are one session.     *)
(***************************************************************************)
EXTENDS Integers, Sequences, FiniteSetsExt

CONSTANTS
    Calls,
    CallKinds,        \* the methods each call may be of
    ValidatorCount,   \* furtherValidatorCount + 1
    RefusalMaxAge,    \* refusalMaxAgeMs
    EpochWait,        \* epochWaitMs
    PollInterval,     \* pollIntervalMs
    Budget,           \* budgetMs of the network keys read
    Pause,            \* its pauseMs
    MaxEpoch          \* bound: the epochs of the network

ASSUME CallsAssumption ==
    /\ ValidatorCount \in Nat \ {0}
    /\ {RefusalMaxAge, EpochWait, PollInterval, Budget, Pause} \subseteq Nat \ {0}
    /\ MaxEpoch \in Nat \ {0}
    /\ CallKinds \in [Calls -> SUBSET {"submit", "read", "keys", "across"}]

VARIABLES
    closed,     \* set by close()
    refused,    \* refusedValidators: the age of the last refusal, up to the maximum
    call,       \* what each call holds
    epoch,      \* external: the epoch the validators are in
    chainEpoch, \* external: the epoch the chain shows
    closing,    \* external: the epoch is past its cutoff round
    refusalAge, \* history: how long ago the pinned check last refused each
                \* validator's key, in whichever call, up to the maximum
    ran,        \* history: the sessions the network started, with their epoch
    lost        \* history: those of them with an answer lost on the way

netVars == <<epoch, chainEpoch, closing>>
vars == <<closed, refused, call, netVars, refusalAge, ran, lost>>

Validators == 0 .. ValidatorCount - 1
Epochs == 1 .. MaxEpoch
Ages == 0 .. RefusalMaxAge

Kinds == {"submit", "read", "keys", "across"}

\* What an attempt at one validator ends in. UNAVAILABLE is told apart by its
\* details and flags: an epoch-closing refusal, a key that is not a committee
\* member's, another refused pinned setup, and everything else.
Answers == {"ok", "closing", "notMember", "setupRefused", "unavailable",
            "deadline", "closed", "failed"}
\* The errors the calls make themselves.
OwnErrors == {"everyRefused", "outOfTime", "unreachable"}

\* code === GrpcStatus.UNAVAILABLE
IsUnavailable(a) == a \in {"closing", "notMember", "setupRefused", "unavailable"}

\* isTransportFailure: a refused pinned setup, an error of `everyValidatorRefused`
\* included, is not one.
IsTransportFailure(a) == a \in {"closing", "unavailable", "deadline"}

CallRecord ==
    [kind : Kinds,
     pc : {"idle", "sent", "epochRead", "build", "resendPause", "epochPause",
           "keysPause", "done"},
     left : Seq(Validators),       \* the validators this attempt has not come to
     at : Validators,              \* the validator asked
     everyOneRefused : BOOLEAN,
     last : Answers \cup {"none"}, \* lastError
     first : BOOLEAN,              \* no closing refusal was answered yet
     signed : 0 .. MaxEpoch,       \* the epoch the request in hand names
     build : Nat,                  \* its session: how often the call signed
     refusedEpoch : 0 .. MaxEpoch,
     remaining : Int,              \* the time left of epochWaitMs, or of the budget
     wakeIn : Nat,                 \* the time left of the pause in hand
     spoiled : SUBSET Validators,  \* history: whose key was refused, in this or another
                                   \* call, less than the maximum age before this
                                   \* attempt began or since
     refusals : SUBSET Epochs,     \* recordClosingRefusal's epochs
     result : Answers \cup OwnErrors \cup {"none"}]

\* The fields keep their types; a call that ended has an outcome.
TypeOK ==
    /\ closed \in BOOLEAN
    /\ refused \in [Validators -> Ages]
    /\ call \in [Calls -> CallRecord]
    /\ epoch \in Epochs /\ chainEpoch \in Epochs
    /\ closing \in BOOLEAN
    /\ refusalAge \in [Validators -> Ages]
    /\ ran \subseteq Calls \X Nat \X Epochs
    /\ lost \subseteq ran
    /\ \A c \in Calls : call[c].pc = "done" <=> call[c].result # "none"

Init ==
    /\ closed = FALSE
    /\ refused = [v \in Validators |-> RefusalMaxAge]
    /\ call = [c \in Calls |->
          [kind |-> "submit", pc |-> "idle", left |-> <<>>, at |-> 0,
           everyOneRefused |-> TRUE, last |-> "none", first |-> TRUE, signed |-> 0, build |-> 0,
           refusedEpoch |-> 0, remaining |-> 0, wakeIn |-> 0, spoiled |-> {},
           refusals |-> {}, result |-> "none"]]
    /\ epoch = 1 /\ chainEpoch = 1
    /\ closing = FALSE
    /\ refusalAge = [v \in Validators |-> RefusalMaxAge]
    /\ ran = {}
    /\ lost = {}

-----------------------------------------------------------------------------
(* The loop over the validators: read and submitTransaction.               *)

\* isRefused, with the record `r`.
IsRefused(r, v) == r[v] < RefusalMaxAge

\* validatorIndexes
ValidatorIndexes == [i \in 1 .. ValidatorCount |-> i - 1]

\* The locals of an attempt are gone at its end.
Forget(k) == [k EXCEPT !.left = <<>>, !.at = 0, !.everyOneRefused = TRUE, !.last = "none"]

\* A call ends. Its closing refusals and the history of its last attempt are kept
\* for the properties.
Done(k, result) ==
    [Forget(k) EXCEPT !.pc = "done", !.result = result, !.first = TRUE, !.signed = 0,
                      !.build = 0, !.refusedEpoch = 0, !.remaining = 0, !.wakeIn = 0,
                      !.spoiled = IF result = "everyRefused" THEN @ ELSE {}]

\* The wait of a call that may still be answered in a later epoch: it ends at
\* the deadline before the epoch is read or the request is sent.
UnlessOutOfTime(k, next) == IF k.remaining <= 0 THEN Done(k, "outOfTime") ELSE next

\* Math.min(pollIntervalMs, Math.max(0, deadline - Date.now()))
PollWait(k) == Min({PollInterval, Max({0, k.remaining})})

\* Mutant: the read of the keys is repeated without its budget.
KeysRetriedForever(k, error) ==
    IF ~IsTransportFailure(error) \/ closed
    THEN Done(k, error)
    ELSE [k EXCEPT !.pc = "keysPause", !.wakeIn = Pause]

\* networkKeysByAgeResponse: what it does with a failed attempt.
KeysAttemptFailed(k, error) ==
    IF ~IsTransportFailure(error) \/ closed
    THEN Done(k, error)
    ELSE IF k.remaining <= Pause
    THEN Done(k, "unreachable")
    ELSE [k EXCEPT !.pc = "keysPause", !.wakeIn = Pause]

\* Mutant: a later closing refusal does not move the refused epoch.
FirstRefusalKept(k, error) ==
    IF error = "closing"
    THEN LET waiting == [k EXCEPT !.first = FALSE,
                                  !.refusedEpoch = IF k.first THEN k.signed ELSE @,
                                  !.refusals = @ \cup {k.signed},
                                  !.remaining = IF k.first THEN EpochWait ELSE @,
                                  !.pc = "epochRead"]
         IN UnlessOutOfTime(waiting, waiting)
    ELSE IF k.first
    THEN Done(k, error)
    ELSE IF error = "deadline" /\ k.remaining <= 0
    THEN Done(k, "outOfTime")
    ELSE IF ~IsUnavailable(error)
    THEN Done(k, error)
    ELSE [k EXCEPT !.pc = "resendPause",
                   !.wakeIn = PollWait(k)]

\* submitTransactionAcrossEpochClose: what it does with a failed submission.
SubmissionFailed(k, error) ==
    IF error = "closing"
    THEN LET waiting == [k EXCEPT !.first = FALSE,
                                  !.refusedEpoch = k.signed,
                                  !.refusals = @ \cup {k.signed},
                                  !.remaining = IF k.first THEN EpochWait ELSE @,
                                  !.pc = "epochRead"]
         IN UnlessOutOfTime(waiting, waiting)
    ELSE IF k.first
    THEN Done(k, error)
    ELSE IF error = "deadline" /\ k.remaining <= 0
    THEN Done(k, "outOfTime")
    ELSE IF ~IsUnavailable(error)
    THEN Done(k, error)
    ELSE [k EXCEPT !.pc = "resendPause",
                   !.wakeIn = PollWait(k)]

\* The attempt over every validator ended in `result`.
AttemptEnds(k, result) ==
    LET ended == Forget(k) IN
    IF result = "ok" THEN Done(ended, "ok")
    ELSE CASE k.kind = "across" -> SubmissionFailed(ended, result)
           [] k.kind = "keys" -> KeysAttemptFailed(ended, result)
           [] OTHER -> Done(ended, result)

\* Mutant: the record is read once, at the start of the attempt.
AskAsRecordedAtStart(k, r) ==
    LET open == {i \in 1 .. Len(k.left) :
                    k.last = "none" => ~IsRefused(r, k.left[i])} IN
    IF open = {}
    THEN AttemptEnds(k, IF k.everyOneRefused THEN "everyRefused" ELSE k.last)
    ELSE LET i == CHOOSE j \in open : \A o \in open : j <= o IN
         IF closed
         THEN AttemptEnds(k, "closed")
         ELSE [k EXCEPT !.pc = "sent", !.at = k.left[i],
                        !.left = SubSeq(k.left, i + 1, Len(k.left))]

\* The next validator left that the record `r` does not pass over is asked. A
\* closed transport starts no call. When none is left, the attempt ends in
\* everyValidatorRefused or in the last error.
AskNext(k, r) ==
    LET open == {i \in 1 .. Len(k.left) : ~IsRefused(r, k.left[i])} IN
    IF open = {}
    THEN AttemptEnds(k, IF k.everyOneRefused THEN "everyRefused" ELSE k.last)
    ELSE LET i == CHOOSE j \in open : \A o \in open : j <= o IN
         IF closed
         THEN AttemptEnds(k, "closed")
         ELSE [k EXCEPT !.pc = "sent", !.at = k.left[i],
                        !.left = SubSeq(k.left, i + 1, Len(k.left))]

\* A new attempt over every validator.
Attempt(k) ==
    AskNext([k EXCEPT !.left = ValidatorIndexes, !.everyOneRefused = TRUE,
                      !.last = "none",
                      !.spoiled = {v \in Validators : refusalAge[v] < RefusalMaxAge}],
            refused)

Set(c, k) == call' = [call EXCEPT ![c] = k]

\* submitTransaction with a request of the current epoch; a read.
Start(c, kind) ==
    /\ call[c].pc = "idle"
    /\ kind \in CallKinds[c] \ {"across"}
    /\ Set(c, Attempt([call[c] EXCEPT !.kind = kind, !.signed = epoch,
                                      !.remaining = Budget]))
    /\ UNCHANGED <<closed, refused, netVars, refusalAge, ran, lost>>

\* submitTransactionAcrossEpochClose reads the epoch first.
StartAcross(c) ==
    /\ call[c].pc = "idle"
    /\ "across" \in CallKinds[c]
    /\ Set(c, [call[c] EXCEPT !.kind = "across", !.pc = "epochRead"])
    /\ UNCHANGED <<closed, refused, netVars, refusalAge, ran, lost>>

Signs(k) == k.kind \in {"submit", "across"}
Session(c) == <<c, call[c].build, call[c].signed>>

\* External: the validator asked takes the request, and its session starts.
Takes(c) ==
    /\ Signs(call[c])
    /\ call[c].signed = epoch
    /\ ~closing
    /\ ran' = ran \cup {Session(c)}

\* External: it does, and the answer is lost on the way.
TakenAndLost(c) ==
    /\ Takes(c)
    /\ lost' = lost \cup {Session(c)}

\* The validator returns the network's result of the session. A session of the
\* epoch starts unless it ran before; the copies of one request are one session.
AnswerOk(c) ==
    LET k == call[c] IN
    /\ k.pc = "sent"
    /\ \/ ~Signs(k) /\ UNCHANGED ran
       \/ Signs(k) /\ Session(c) \in ran /\ UNCHANGED ran
       \/ Takes(c)
    /\ Set(c, AttemptEnds(k, "ok"))
    /\ UNCHANGED <<closed, refused, netVars, refusalAge, lost>>

\* History: a refusal of v's key, noted in every attempt in hand.
RefusalNoted(v) ==
    [d \in Calls |-> IF call[d].pc = "sent"
                     THEN [call[d] EXCEPT !.spoiled = @ \cup {v}] ELSE call[d]]

\* The pinned check refused the validator's key. It is recorded, and the next
\* validator is asked. Which key a validator serves is open at every setup: a member
\* may be refused at any time (the committee rotated, or someone is in between),
\* and one that was refused may be a member later.
AnswerNotMember(c) ==
    LET v == call[c].at IN
    /\ call[c].pc = "sent"
    /\ refused' = [refused EXCEPT ![v] = 0]
    /\ refusalAge' = [refusalAge EXCEPT ![v] = 0]
    /\ call' = [RefusalNoted(v) EXCEPT
          ![c] = AskNext([RefusalNoted(v)[c] EXCEPT !.last = "notMember"], refused')]
    /\ UNCHANGED <<closed, netVars, ran, lost>>

\* Mutant: every UNAVAILABLE counts as a refused key.
UnavailableCountedRefused(c, a) ==
    LET k == call[c] IN
    /\ k.pc = "sent"
    /\ a \in {"unavailable", "setupRefused"}
    /\ \/ UNCHANGED <<ran, lost>>
       \/ a = "unavailable" /\ TakenAndLost(c)
    /\ Set(c, IF Signs(k)
              THEN AskNext([k EXCEPT !.last = a], refused)
              ELSE AttemptEnds(k, a))
    /\ UNCHANGED <<closed, refused, netVars, refusalAge>>

\* An error that a submission sends on to the next validator. The connection may
\* have broken after the validator took the request and the session started.
AnswerUnavailable(c, a) ==
    LET k == call[c] IN
    /\ k.pc = "sent"
    /\ a \in {"unavailable", "setupRefused"}
    /\ \/ UNCHANGED <<ran, lost>>
       \/ a = "unavailable" /\ TakenAndLost(c)
    /\ Set(c, IF Signs(k)
              THEN AskNext([k EXCEPT !.everyOneRefused = FALSE, !.last = a], refused)
              ELSE AttemptEnds(k, a))
    /\ UNCHANGED <<closed, refused, netVars, refusalAge>>

\* An epoch-closing refusal, and every other error, ends the attempt at once. A
\* call that ran out of time, or that close() ended, may have been taken too.
AnswerError(c, a) ==
    LET k == call[c] IN
    /\ k.pc = "sent"
    /\ a \in {"closing", "deadline", "failed"}
    /\ a = "closing" => Signs(k) /\ closing /\ k.signed = epoch
    /\ \/ UNCHANGED <<ran, lost>>
       \/ a \in {"deadline", "failed"} /\ TakenAndLost(c)
    /\ Set(c, AttemptEnds(k, a))
    /\ UNCHANGED <<closed, refused, netVars, refusalAge>>

-----------------------------------------------------------------------------
(* Across the close of an epoch.                                           *)

\* A chain read answers the chain's epoch, or an earlier one from a node that
\* lags. The first read names the epoch of the first request; a later one must
\* be after every refused epoch.
ReadEpoch(c, e) ==
    LET k == call[c] IN
    /\ k.pc = "epochRead"
    /\ e <= chainEpoch
    /\ Set(c, IF k.first THEN [k EXCEPT !.pc = "build", !.signed = e]
              ELSE IF k.remaining < 0 THEN Done(k, "outOfTime")
              ELSE IF e > k.refusedEpoch THEN [k EXCEPT !.pc = "build", !.signed = e]
              ELSE [k EXCEPT !.pc = "epochPause",
                             !.wakeIn = PollWait(k)])
    /\ UNCHANGED <<closed, refused, netVars, refusalAge, ran, lost>>

\* `build` signs a new request under a new session.
Build(c) ==
    LET k == [call[c] EXCEPT !.build = @ + 1] IN
    /\ call[c].pc = "build"
    /\ Set(c, IF k.first THEN Attempt(k) ELSE UnlessOutOfTime(k, Attempt(k)))
    /\ UNCHANGED <<closed, refused, netVars, refusalAge, ran, lost>>

\* currentEpoch() or build() rejects.
CallerFails(c) ==
    /\ call[c].pc \in {"epochRead", "build"}
    /\ Set(c, Done(call[c], "failed"))
    /\ UNCHANGED <<closed, refused, netVars, refusalAge, ran, lost>>

\* The timer that the epoch read and `build` are raced against.
RaceEnds(c) ==
    /\ call[c].pc \in {"epochRead", "build"}
    /\ ~call[c].first
    /\ call[c].remaining <= 0
    /\ Set(c, Done(call[c], "outOfTime"))
    /\ UNCHANGED <<closed, refused, netVars, refusalAge, ran, lost>>

\* Mutant: an unanswered request is signed again instead of sent again.
PauseEndsSigningAgain(c) ==
    LET k == call[c] IN
    /\ \/ k.pc \in {"resendPause", "epochPause", "keysPause"} /\ k.wakeIn = 0
       \/ k.pc = "keysPause" /\ closed
    /\ Set(c, CASE k.pc = "epochPause" -> UnlessOutOfTime(k, [k EXCEPT !.pc = "epochRead"])
                [] k.pc = "resendPause" -> [k EXCEPT !.pc = "build"]
                [] OTHER -> IF closed THEN Done(k, "closed") ELSE Attempt(k))
    /\ UNCHANGED <<closed, refused, netVars, refusalAge, ran, lost>>

\* A pause ends: the epoch is read again, the same request is sent again, or the
\* network keys are read again. close() ends the pause of the keys at once.
PauseEnds(c) ==
    LET k == call[c] IN
    /\ \/ k.pc \in {"resendPause", "epochPause", "keysPause"} /\ k.wakeIn = 0
       \/ k.pc = "keysPause" /\ closed
    /\ Set(c, CASE k.pc = "epochPause" -> UnlessOutOfTime(k, [k EXCEPT !.pc = "epochRead"])
                [] k.pc = "resendPause" -> UnlessOutOfTime(k, Attempt(k))
                [] OTHER -> IF closed THEN Done(k, "closed") ELSE Attempt(k))
    /\ UNCHANGED <<closed, refused, netVars, refusalAge, ran, lost>>

\* close()
Close ==
    /\ ~closed
    /\ closed' = TRUE
    /\ UNCHANGED <<refused, call, netVars, refusalAge, ran, lost>>

-----------------------------------------------------------------------------
(* External: time and the epochs.                                          *)

\* One unit of time. What is past its end stays there: only the sign is read.
Tick ==
    /\ refused' = [v \in Validators |-> Min({refused[v] + 1, RefusalMaxAge})]
    /\ refusalAge' = [v \in Validators |-> Min({refusalAge[v] + 1, RefusalMaxAge})]
    /\ call' = [c \in Calls |->
          IF call[c].pc \in {"idle", "done"} THEN call[c]
          ELSE [call[c] EXCEPT !.remaining = Max({@ - 1, -1}), !.wakeIn = Max({@ - 1, 0})]]
    /\ UNCHANGED <<closed, netVars, ran, lost>>

\* The epoch reaches its cutoff round, the chain shows the next one, and then
\* the validators enter it.
NextEpoch ==
    /\ \/ ~closing /\ closing' = TRUE /\ UNCHANGED <<epoch, chainEpoch>>
       \/ /\ closing /\ chainEpoch = epoch /\ epoch < MaxEpoch
          /\ chainEpoch' = epoch + 1 /\ UNCHANGED <<epoch, closing>>
       \/ /\ chainEpoch > epoch
          /\ epoch' = chainEpoch /\ closing' = FALSE /\ UNCHANGED chainEpoch
    /\ UNCHANGED <<closed, refused, call, refusalAge, ran, lost>>

CallSteps(c) ==
    \/ AnswerOk(c)
    \/ AnswerNotMember(c)
    \/ \E a \in Answers : AnswerUnavailable(c, a) \/ AnswerError(c, a)
    \/ \E e \in Epochs : ReadEpoch(c, e)
    \/ Build(c)
    \/ CallerFails(c)
    \/ RaceEnds(c)
    \/ PauseEnds(c)

Next ==
    \/ \E c \in Calls :
          \/ \E kind \in Kinds : Start(c, kind)
          \/ StartAcross(c)
          \/ CallSteps(c)
    \/ Close
    \/ Tick
    \/ NextEpoch

\* Every attempt at a validator ends (at its deadline, or at the window of a
\* pinned setup), every timer fires, and the caller's functions return.
Fairness ==
    /\ WF_vars(Tick)
    /\ \A c \in Calls : WF_vars(CallSteps(c))

Spec == Init /\ [][Next]_vars
FairSpec == Spec /\ Fairness

-----------------------------------------------------------------------------
(* Properties.                                                             *)

\* FAILED_PRECONDITION with EVERY_VALIDATOR_REFUSED is only answered when the pinned
\* check refused the key of every validator, in this or in another call, less than
\* PIN_REFUSAL_MAX_AGE_MS before the attempt began or since: one refusal does not
\* shut the client out for longer, and no other failure counts as one.
EveryRefusedIsRecent ==
    \A c \in Calls : call[c].result = "everyRefused" => call[c].spoiled = Validators

\* The client never signs for an epoch at or below one that has refused the
\* request, even when a later read answers an older epoch.
SignedEpochsClimb ==
    [][\A c \in Calls :
          call'[c].pc = "build" /\ call[c].pc # "build" =>
              \A e \in call[c].refusals : call'[c].signed > e]_vars

\* A request runs a second time only when it was carried across an epoch close
\* and the answer of a copy that had started was lost before the refusal: never
\* twice in an epoch, and never after an epoch whose copies were all answered.
RunsAgainOnlyAfterLoss ==
    \A s, t \in ran : s[1] = t[1] /\ s[2] < t[2] =>
        s[3] < t[3] /\ s[3] \in call[s[1]].refusals /\ s \in lost

\* A validator whose key was refused less than the maximum age ago, by this or
\* by another call, is not set up again.
RefusedAreNotAsked ==
    [][\A c \in Calls :
          call'[c].pc = "sent" /\ (call[c].pc # "sent" \/ call'[c].at # call[c].at) =>
              refused'[call'[c].at] >= RefusalMaxAge]_vars

\* Every call ends: the failover, the wait for the next epoch, the resends and
\* the repeated read of the keys are bounded, whatever the validators answer.
CallsEnd ==
    \A c \in Calls : call[c].pc # "idle" ~> call[c].pc = "done"

=============================================================================
