------------------------- MODULE ValidatorCallsProofs -------------------------
(***************************************************************************)
(* For any number of calls, validators and epochs: a client is shut out by *)
(* recent refusals only, a refused validator is not set up again, a request*)
(* is never signed for a refused epoch, and it runs twice only after a loss.*)
(***************************************************************************)
EXTENDS ValidatorCalls, SequenceTheorems, WellFoundedInduction, TLAPS

\* What one call may hold. An attempt in hand has come to every validator but those
\* left; what it passed over or was refused by was refused recently or since it began.
Whole(k) ==
    /\ k \in CallRecord
    /\ k.pc = "done" <=> k.result # "none"
    /\ k.result = "everyRefused" => k.spoiled = Validators
    /\ k.last \in {"none", "notMember", "unavailable", "setupRefused"}
    /\ k.pc = "idle" => k.first
    /\ k.pc # "done" =>
          /\ k.first => k.refusals = {}
          /\ \A e \in k.refusals : e <= k.refusedEpoch
    /\ k.pc \in {"build", "sent", "resendPause", "keysPause"} /\ ~k.first =>
          k.refusedEpoch < k.signed
    /\ k.pc = "sent" =>
          /\ ~k.everyOneRefused => k.last # "none"
          /\ k.everyOneRefused => \A v \in Validators :
                v \in k.spoiled \/ v = k.at \/ \E i \in 1 .. Len(k.left) : v = k.left[i]

\* What was refused less than the maximum age ago was refused less than it before the
\* attempt in hand began, or since: an open attempt notes the refusals of every call.
SpoiledOf(k, ages) ==
    k.pc = "sent" => \A v \in Validators : ages[v] < RefusalMaxAge => v \in k.spoiled

\* The sessions of one call, of those that ran (R) and were lost (L): in order of their
\* epochs, each but the last refused and lost; while the call runs, all of them lost.
InOrder(c, refusals, R, L) ==
    \A s, t \in R : s[1] = c /\ t[1] = c /\ s[2] < t[2] =>
        s[3] < t[3] /\ s[3] \in refusals /\ s \in L
RanOf(c, k, R, L) ==
    /\ InOrder(c, k.refusals, R, L)
    /\ k.pc # "done" => \A s \in R : s[1] = c =>
          /\ s \in L /\ s[2] <= k.build /\ Signs(k)
          /\ \/ s[2] = k.build /\ s[3] = k.signed /\ k.pc \in {"sent", "resendPause"}
             \/ s[3] \in k.refusals

\* What the record names was refused as recently as it says.
AgesInv == \A v \in Validators : refusalAge[v] <= refused[v]

\* The inductive invariant.
IInv ==
    /\ TypeOK
    /\ AgesInv
    /\ \A c \in Calls : Whole(call[c]) /\ SpoiledOf(call[c], refusalAge) /\ RanOf(c, call[c], ran, lost)

-----------------------------------------------------------------------------
(* The operators.                                                          *)

\* The smaller and the larger of two integers.
LEMMA MinMax ==
    ASSUME NEW a \in Int, NEW b \in Int
    PROVE  /\ Min({a, b}) = IF a <= b THEN a ELSE b
           /\ Max({a, b}) = IF a >= b THEN a ELSE b
<1>1. \E x \in {a, b} : \A y \in {a, b} : x <= y
  OBVIOUS
<1>2. \E x \in {a, b} : \A y \in {a, b} : x >= y
  OBVIOUS
<1>3. Min({a, b}) \in {a, b} /\ \A y \in {a, b} : Min({a, b}) <= y
  BY <1>1 DEF Min
<1>4. Max({a, b}) \in {a, b} /\ \A y \in {a, b} : Max({a, b}) >= y
  BY <1>2 DEF Max
<1> QED
  BY <1>3, <1>4

\* A pause is never negative.
LEMMA PollWaitType ==
    ASSUME NEW k \in CallRecord
    PROVE  PollWait(k) \in Nat
<1>1. k.remaining \in Int /\ PollInterval \in Nat
  BY CallsAssumption DEF CallRecord
<1>2. PICK r \in Int : r = k.remaining
  BY <1>1
<1>3. PICK m \in Nat : m = Max({0, r})
  <2>1. Max({0, r}) = IF 0 >= r THEN 0 ELSE r
    BY MinMax
  <2> QED
    BY <2>1
<1>4. Min({PollInterval, m}) = IF PollInterval <= m THEN PollInterval ELSE m
  BY <1>1, MinMax
<1> QED
  BY <1>1, <1>2, <1>3, <1>4 DEF PollWait

\* The end of an attempt forgets only its own locals.
LEMMA ForgetIs ==
    ASSUME NEW k \in CallRecord
    PROVE  /\ Forget(k) \in CallRecord
           /\ Forget(k).last = "none"
           /\ Forget(k).kind = k.kind /\ Forget(k).pc = k.pc /\ Forget(k).first = k.first
           /\ Forget(k).signed = k.signed /\ Forget(k).build = k.build
           /\ Forget(k).refusedEpoch = k.refusedEpoch /\ Forget(k).remaining = k.remaining
           /\ Forget(k).spoiled = k.spoiled /\ Forget(k).refusals = k.refusals
           /\ Forget(k).result = k.result
<1>1. 0 \in Validators /\ <<>> \in Seq(Validators)
  BY CallsAssumption DEF Validators
<1> QED
  BY <1>1 DEF Forget, CallRecord

\* A call that ends keeps its refused epochs.
LEMMA DoneIs ==
    ASSUME NEW k \in CallRecord, NEW result \in Answers \cup OwnErrors
    PROVE  /\ Done(k, result) \in CallRecord
           /\ Done(k, result).pc = "done" /\ Done(k, result).result = result
           /\ Done(k, result).last = "none" /\ Done(k, result).refusals = k.refusals
           /\ result = "everyRefused" => Done(k, result).spoiled = k.spoiled
<1>1. PICK f \in CallRecord : f = Forget(k) /\ f.last = "none" /\ f.spoiled = k.spoiled
                              /\ f.refusals = k.refusals
  BY ForgetIs
<1>2. PICK z \in 0 .. MaxEpoch : z = 0 /\ z \in Nat /\ z \in Int
  BY CallsAssumption
<1>3. PICK spoiled \in SUBSET Validators :
         spoiled = IF result = "everyRefused" THEN k.spoiled ELSE {}
  BY DEF CallRecord
<1>4. PICK g : g = [f EXCEPT !.pc = "done", !.result = result, !.first = TRUE,
                             !.signed = z, !.build = z, !.refusedEpoch = z,
                             !.remaining = z, !.wakeIn = z, !.spoiled = spoiled]
  OBVIOUS
<1>5. Done(k, result) = g
  BY <1>1, <1>2, <1>3, <1>4 DEF Done
<1>6. /\ g \in CallRecord /\ g.pc = "done" /\ g.result = result /\ g.last = "none"
      /\ g.spoiled = spoiled /\ g.refusals = k.refusals
  BY <1>1, <1>4, z \in 0 .. MaxEpoch, z \in Nat, z \in Int, ZenonT(60) DEF CallRecord
<1> QED
  BY <1>3, <1>5, <1>6

\* What the end of an attempt leaves of a call: its end, a wait for the epoch after
\* the refused one, or a pause before the same again.
EndsWell(k, k2) ==
    /\ k2 \in CallRecord
    /\ k2.last = "none"
    /\ k2.pc = "done" <=> k2.result # "none"
    /\ k2.result = "everyRefused" => k2.spoiled = Validators
    /\ k.refusals \subseteq k2.refusals
    /\ \/ k2.pc = "done"
       \/ /\ k2.kind = k.kind /\ k2.build = k.build /\ k2.signed = k.signed
          /\ \/ /\ k2.pc = "epochRead" /\ ~k2.first
                /\ k2.refusedEpoch = k.signed /\ k2.refusals = k.refusals \cup {k.signed}
             \/ /\ k2.pc = "resendPause" \/ (k2.pc = "keysPause" /\ ~Signs(k))
                /\ k2.first = k.first
                /\ k2.refusedEpoch = k.refusedEpoch /\ k2.refusals = k.refusals

\* An attempt may end in these. A closing refusal names the epoch of the request.
MayEnd(k, result) ==
    /\ result \in Answers \cup {"everyRefused"}
    /\ result = "everyRefused" => k.spoiled = Validators
    /\ result = "closing" => k.signed \in Epochs

LEMMA DoneEndsWell ==
    ASSUME NEW k \in CallRecord, NEW result \in Answers \cup OwnErrors,
           result = "everyRefused" => k.spoiled = Validators
    PROVE  EndsWell(k, Done(k, result))
<1>1. result # "none"
  BY DEF Answers, OwnErrors
<1> QED
  BY <1>1, DoneIs DEF EndsWell

\* submitTransactionAcrossEpochClose: a closing refusal moves the refused epoch to the
\* one just refused; everything else leaves it.
LEMMA SubmissionFailedIs ==
    ASSUME NEW k \in CallRecord, k.result = "none", k.last = "none", k.kind = "across",
           NEW error \in (Answers \cup {"everyRefused"}) \ {"ok"}, MayEnd(k, error)
    PROVE  EndsWell(k, SubmissionFailed(k, error))
<1>1. error \in Answers \cup OwnErrors /\ "outOfTime" \in Answers \cup OwnErrors
  BY DEF OwnErrors
<1>2. CASE error = "closing"
  <2>1. PICK e \in 0 .. MaxEpoch : e = k.signed /\ e \in Epochs
    BY <1>2 DEF MayEnd, CallRecord
  <2>2. PICK wait \in Int : wait = IF k.first THEN EpochWait ELSE k.remaining
    BY CallsAssumption DEF CallRecord
  <2>3. PICK waiting : waiting = [k EXCEPT !.first = FALSE, !.refusedEpoch = e,
                                           !.refusals = k.refusals \cup {e},
                                           !.remaining = wait, !.pc = "epochRead"]
    OBVIOUS
  <2>4. /\ waiting \in CallRecord /\ waiting.pc = "epochRead" /\ ~waiting.first
        /\ waiting.refusedEpoch = e /\ waiting.refusals = k.refusals \cup {e}
        /\ waiting.kind = k.kind /\ waiting.build = k.build /\ waiting.signed = k.signed
        /\ waiting.last = "none" /\ waiting.result = "none"
    BY <2>1, <2>3, e \in 0 .. MaxEpoch DEF CallRecord
  <2>5. EndsWell(k, waiting)
    BY <2>1, <2>4 DEF EndsWell
  <2>6. EndsWell(waiting, Done(waiting, "outOfTime"))
    BY <1>1, <2>4, DoneEndsWell
  <2>7. EndsWell(k, Done(waiting, "outOfTime"))
    BY <1>1, <2>4, <2>6, DoneIs DEF EndsWell
  <2>8. SubmissionFailed(k, error) = UnlessOutOfTime(waiting, waiting)
    BY <1>2, <2>1, <2>2, <2>3 DEF SubmissionFailed
  <2> QED
    BY <2>5, <2>7, <2>8 DEF UnlessOutOfTime
<1>3. CASE error # "closing"
  <2>1. \/ SubmissionFailed(k, error) \in {Done(k, error), Done(k, "outOfTime")}
        \/ SubmissionFailed(k, error) =
              [k EXCEPT !.pc = "resendPause", !.wakeIn = PollWait(k)]
    BY <1>3 DEF SubmissionFailed
  <2>2. EndsWell(k, Done(k, error)) /\ EndsWell(k, Done(k, "outOfTime"))
    BY <1>1, DoneEndsWell DEF MayEnd
  <2>3. PICK wait \in Nat : wait = PollWait(k)
    BY PollWaitType
  <2>4. PICK paused : paused = [k EXCEPT !.pc = "resendPause", !.wakeIn = wait]
    OBVIOUS
  <2>5. EndsWell(k, paused)
    BY <2>4 DEF EndsWell, CallRecord
  <2> QED
    BY <2>1, <2>2, <2>3, <2>4, <2>5
<1> QED
  BY <1>2, <1>3

\* The end of an attempt, whatever the call.
LEMMA AttemptEndsIs ==
    ASSUME NEW k \in CallRecord, k.result = "none", NEW result, MayEnd(k, result)
    PROVE  EndsWell(k, AttemptEnds(k, result))
<1>1. PICK f \in CallRecord : f = Forget(k)
  BY ForgetIs
<1>2. /\ f.last = "none" /\ f.kind = k.kind /\ f.first = k.first /\ f.signed = k.signed
      /\ f.build = k.build /\ f.refusedEpoch = k.refusedEpoch /\ f.spoiled = k.spoiled
      /\ f.refusals = k.refusals /\ f.result = k.result
  BY <1>1, ForgetIs
<1>3. /\ result \in Answers \cup OwnErrors /\ MayEnd(f, result)
      /\ "unreachable" \in Answers \cup OwnErrors /\ "ok" \in Answers
  BY <1>2 DEF MayEnd, Answers, OwnErrors
<1>4. ASSUME NEW other \in Answers \cup OwnErrors,
             other = "everyRefused" => f.spoiled = Validators
      PROVE  EndsWell(f, Done(f, other))
  BY <1>4, DoneEndsWell
<1>5. k.kind = "across" /\ result # "ok" => EndsWell(f, SubmissionFailed(f, result))
  BY <1>2, <1>3, SubmissionFailedIs DEF MayEnd
<1>6. k.kind = "keys" => EndsWell(f, KeysAttemptFailed(f, result))
  <2>1. PICK pause \in Nat : pause = Pause
    BY CallsAssumption
  <2>2. PICK paused : paused = [f EXCEPT !.pc = "keysPause", !.wakeIn = pause]
    OBVIOUS
  <2>3. k.kind = "keys" => EndsWell(f, paused)
    BY <1>2, <2>2 DEF EndsWell, CallRecord, Signs
  <2>4. KeysAttemptFailed(f, result) \in {Done(f, result), Done(f, "unreachable"), paused}
    BY <2>1, <2>2 DEF KeysAttemptFailed
  <2>5. EndsWell(f, Done(f, result)) /\ EndsWell(f, Done(f, "unreachable"))
    BY <1>3, <1>4 DEF MayEnd
  <2> QED
    BY <2>3, <2>4, <2>5
<1>7. EndsWell(f, AttemptEnds(k, result))
  <2>1. EndsWell(f, Done(f, result))
    BY <1>3, <1>4 DEF MayEnd
  <2>2. CASE k.kind = "across"
    BY <1>1, <1>5, <2>1, <2>2 DEF AttemptEnds
  <2>3. CASE k.kind = "keys"
    BY <1>1, <1>6, <2>1, <2>3 DEF AttemptEnds
  <2>4. CASE k.kind \notin {"across", "keys"}
    BY <1>1, <2>1, <2>4 DEF AttemptEnds
  <2> QED
    BY <2>2, <2>3, <2>4
<1> QED
  BY <1>2, <1>7 DEF EndsWell, Signs

\* A set of numbers has a least one.
LEMMA HasLeast ==
    ASSUME NEW S \in SUBSET Nat, S # {}
    PROVE  \E j \in S : \A o \in S : j <= o
<1>1. PICK less : less = {pair \in Nat \X Nat : pair[1] < pair[2]}
  OBVIOUS
<1>2. IsWellFoundedOn(less, Nat)
  BY <1>1, NatLessThanWellFounded DEF OpToRel
<1>3. PICK j \in S : \A o \in S : ~(<<o, j>> \in less)
  BY <1>2, WFMin
<1>4. ASSUME NEW o \in S PROVE j <= o
  <2>1. o \in Nat /\ j \in Nat
    OBVIOUS
  <2>2. <<o, j>> \in Nat \X Nat => ~(o < j)
    BY <1>1, <1>3
  <2> QED
    BY <2>1, <2>2
<1> QED
  BY <1>4

\* What the next question needs: the validators come to, when none failed in another
\* way, were refused recently or since the attempt began, and so were those that the
\* record names.
MayAsk(k, r) ==
    /\ k \in CallRecord
    /\ k.result = "none"
    /\ k.last \in {"none", "notMember", "unavailable", "setupRefused"}
    /\ ~k.everyOneRefused => k.last # "none"
    /\ k.everyOneRefused => \A v \in Validators :
          v \in k.spoiled \/ \E i \in 1 .. Len(k.left) : v = k.left[i]
    /\ r \in [Validators -> Ages]
    /\ \A v \in Validators : IsRefused(r, v) => v \in k.spoiled

\* The next validator is asked, and nothing else changes.
Asks(k, k2, r) ==
    /\ k2 \in CallRecord
    /\ k2.pc = "sent" /\ k2.result = "none"
    /\ r[k2.at] >= RefusalMaxAge
    /\ k2.kind = k.kind /\ k2.first = k.first /\ k2.signed = k.signed /\ k2.build = k.build
    /\ k2.refusedEpoch = k.refusedEpoch /\ k2.refusals = k.refusals
    /\ k2.spoiled = k.spoiled /\ k2.last = k.last /\ k2.everyOneRefused = k.everyOneRefused
    /\ k2.everyOneRefused => \A v \in Validators :
          v \in k2.spoiled \/ v = k2.at \/ \E i \in 1 .. Len(k2.left) : v = k2.left[i]

\* The loop over the validators: everyValidatorRefused only when all of them were
\* refused recently or since the attempt began.
LEMMA AskNextIs ==
    ASSUME NEW k, NEW r, MayAsk(k, r)
    PROVE  EndsWell(k, AskNext(k, r)) \/ Asks(k, AskNext(k, r), r)
<1> DEFINE open == {i \in 1 .. Len(k.left) : ~IsRefused(r, k.left[i])}
<1>1. /\ k \in CallRecord /\ k.left \in Seq(Validators) /\ r \in [Validators -> Ages]
      /\ k.result = "none"
  BY DEF MayAsk, CallRecord
<1>2. CASE open = {}
  <2>1. PICK result : result = IF k.everyOneRefused THEN "everyRefused" ELSE k.last
    OBVIOUS
  <2>2. k.everyOneRefused => k.spoiled = Validators
    <3>1. \A i \in 1 .. Len(k.left) : k.left[i] \in Validators
      BY <1>1
    <3>2. \A i \in 1 .. Len(k.left) : k.left[i] \in k.spoiled
      BY <1>2, <3>1 DEF MayAsk
    <3>3. k.spoiled \subseteq Validators
      BY <1>1 DEF CallRecord
    <3> QED
      BY <3>2, <3>3, ZenonT(60) DEF MayAsk
  <2>3. MayEnd(k, result)
    BY <2>1, <2>2 DEF MayEnd, MayAsk, Answers
  <2>4. AskNext(k, r) = AttemptEnds(k, result)
    BY <1>2, <2>1 DEF AskNext
  <2> QED
    BY <1>1, <2>3, <2>4, AttemptEndsIs
<1>3. CASE open # {} /\ closed
  <2>1. MayEnd(k, "closed")
    BY DEF MayEnd, Answers
  <2>2. AskNext(k, r) = AttemptEnds(k, "closed")
    BY <1>3 DEF AskNext
  <2> QED
    BY <1>1, <2>1, <2>2, AttemptEndsIs
<1>4. CASE open # {} /\ ~closed
  <2>1. PICK i : i = CHOOSE j \in open : \A o \in open : j <= o
    OBVIOUS
  <2>2. \E j \in open : \A o \in open : j <= o
    <3>1. open \in SUBSET Nat
      OBVIOUS
    <3> QED
      BY <1>4, <3>1, HasLeast
  <2>3. i \in open /\ \A o \in open : i <= o
    BY <2>1, <2>2
  <2>4. i \in 1 .. Len(k.left) /\ k.left[i] \in Validators /\ ~IsRefused(r, k.left[i])
    BY <1>1, <2>3
  <2>5. PICK at \in Validators : at = k.left[i]
    BY <2>4
  <2>6. PICK rest : rest = SubSeq(k.left, i + 1, Len(k.left))
    OBVIOUS
  <2>7. /\ rest \in Seq(Validators)
        /\ \A j \in (i + 1) .. Len(k.left) : \E m \in 1 .. Len(rest) : rest[m] = k.left[j]
    <3>1. i + 1 \in Int /\ Len(k.left) \in Nat
          /\ \A j \in (i + 1) .. Len(k.left) : k.left[j] \in Validators
      BY <1>1, <2>4
    <3>2. /\ rest \in Seq(Validators)
          /\ Len(rest) = IF i + 1 <= Len(k.left) THEN Len(k.left) - (i + 1) + 1 ELSE 0
          /\ \A m \in 1 .. Len(k.left) - (i + 1) + 1 : rest[m] = k.left[(i + 1) + m - 1]
      BY <2>6, <3>1, SubSeqProperties
    <3>3. ASSUME NEW j \in (i + 1) .. Len(k.left)
          PROVE  \E m \in 1 .. Len(rest) : rest[m] = k.left[j]
      <4>1. j - i \in 1 .. Len(rest) /\ rest[j - i] = k.left[j]
        BY <2>4, <3>1, <3>2
      <4> QED
        BY <4>1
    <3> QED
      BY <3>2, <3>3
  <2>8. PICK k2 : k2 = [k EXCEPT !.pc = "sent", !.at = at, !.left = rest]
    OBVIOUS
  <2>9. AskNext(k, r) = k2
    BY <1>4, <2>1, <2>5, <2>6, <2>8 DEF AskNext
  <2>10. /\ k2 \in CallRecord /\ k2.pc = "sent" /\ k2.result = "none" /\ k2.at = at
         /\ k2.left = rest
         /\ k2.kind = k.kind /\ k2.first = k.first /\ k2.signed = k.signed
         /\ k2.build = k.build /\ k2.refusedEpoch = k.refusedEpoch
         /\ k2.refusals = k.refusals /\ k2.spoiled = k.spoiled /\ k2.last = k.last
         /\ k2.everyOneRefused = k.everyOneRefused
    BY <1>1, <2>7, <2>8 DEF CallRecord
  <2>11. r[at] >= RefusalMaxAge
    BY <1>1, <2>4, <2>5, CallsAssumption DEF IsRefused, Ages
  <2>12. ASSUME k.everyOneRefused, NEW v \in Validators
         PROVE  v \in k.spoiled \/ v = at \/ \E m \in 1 .. Len(rest) : v = rest[m]
    <3>1. CASE \E j \in 1 .. Len(k.left) : v = k.left[j]
      <4>1. PICK j \in 1 .. Len(k.left) : v = k.left[j]
        BY <3>1
      <4>2. CASE j = i
        BY <2>5, <4>1, <4>2
      <4>3. CASE j < i
        <5>1. j \notin open
          BY <1>1, <2>3, <2>4, <4>3
        <5> QED
          BY <4>1, <5>1 DEF MayAsk
      <4>4. CASE j > i
        <5>1. j \in (i + 1) .. Len(k.left)
          BY <1>1, <2>4, <4>4
        <5> QED
          BY <2>7, <4>1, <5>1
      <4> QED
        BY <1>1, <2>4, <4>2, <4>3, <4>4
    <3> QED
      BY <2>12, <3>1 DEF MayAsk
  <2> QED
    BY <2>9, <2>10, <2>11, <2>12 DEF Asks
<1> QED
  BY <1>2, <1>3, <1>4

-----------------------------------------------------------------------------
(* What the ends and the questions keep.                                   *)

\* A call in the middle of a step: it has not ended, and what it signed is after
\* every epoch that refused it.
Base(k) ==
    /\ k \in CallRecord
    /\ k.result = "none"
    /\ k.last \in {"none", "notMember", "unavailable", "setupRefused"}
    /\ k.first => k.refusals = {}
    /\ \A e \in k.refusals : e <= k.refusedEpoch
    /\ ~k.first => k.refusedEpoch < k.signed

LEMMA EndKeeps ==
    ASSUME NEW k, NEW k2, Base(k), EndsWell(k, k2)
    PROVE  Whole(k2) /\ k2.pc \notin {"sent", "build"}
<1>1. /\ k.signed \in 0 .. MaxEpoch /\ k.refusedEpoch \in 0 .. MaxEpoch
      /\ k.refusals \subseteq Epochs /\ MaxEpoch \in Nat /\ k.first \in BOOLEAN
  BY CallsAssumption DEF Base, CallRecord
<1>2. \A e \in k.refusals : e <= k.signed /\ e \in Int
  BY <1>1 DEF Base, Epochs
<1>3. CASE k2.pc = "done"
  BY <1>3 DEF EndsWell, Whole
<1>4. CASE k2.pc = "epochRead" /\ ~k2.first /\ k2.refusedEpoch = k.signed
           /\ k2.refusals = k.refusals \cup {k.signed}
  <2>1. \A e \in k2.refusals : e <= k2.refusedEpoch
    BY <1>1, <1>2, <1>4
  <2> QED
    BY <1>4, <2>1 DEF EndsWell, Whole
<1>5. CASE k2.pc \in {"resendPause", "keysPause"} /\ k2.first = k.first
           /\ k2.refusedEpoch = k.refusedEpoch /\ k2.refusals = k.refusals
           /\ k2.signed = k.signed
  BY <1>5 DEF EndsWell, Whole, Base
<1> QED
  BY <1>3, <1>4, <1>5 DEF EndsWell

\* One change of a call, as far as its sessions go.
Moves(k, k2) ==
    /\ k.refusals \subseteq k2.refusals
    /\ \/ k2.pc = "done"
       \/ /\ k.pc \notin {"sent", "resendPause"}
          /\ k.build <= k2.build
          /\ (Signs(k) => Signs(k2)) \/ k.refusals = {}
       \/ /\ k2.kind = k.kind /\ k2.build = k.build /\ k2.signed = k.signed
          /\ k2.pc \in {"sent", "resendPause"} \/ k.signed \in k2.refusals \/ ~Signs(k)

\* The loop keeps the call whole, asks only a validator that the record does not name,
\* and signs nothing.
LEMMA AskNextKeeps ==
    ASSUME NEW k, NEW r, Base(k), MayAsk(k, r)
    PROVE  /\ Whole(AskNext(k, r))
           /\ AskNext(k, r).pc # "build"
           /\ k.refusals \subseteq AskNext(k, r).refusals
           /\ AskNext(k, r).pc = "sent" =>
                 /\ AskNext(k, r).spoiled = k.spoiled
                 /\ r[AskNext(k, r).at] >= RefusalMaxAge
           /\ \/ AskNext(k, r).pc = "done"
              \/ /\ AskNext(k, r).kind = k.kind /\ AskNext(k, r).build = k.build
                 /\ AskNext(k, r).signed = k.signed
                 /\ \/ AskNext(k, r).pc \in {"sent", "resendPause"}
                    \/ k.signed \in AskNext(k, r).refusals \/ ~Signs(k)
<1>1. PICK k2 : k2 = AskNext(k, r)
  OBVIOUS
<1>2. EndsWell(k, k2) \/ Asks(k, k2, r)
  BY <1>1, AskNextIs
<1>3. CASE EndsWell(k, k2)
  <2>1. Whole(k2) /\ k2.pc \notin {"sent", "build"}
    BY <1>3, EndKeeps
  <2> QED
    BY <1>1, <1>3, <2>1 DEF EndsWell
<1>4. CASE Asks(k, k2, r)
  <2>1. Whole(k2)
    BY <1>4 DEF Asks, Whole, Base, MayAsk
  <2> QED
    BY <1>1, <1>4, <2>1 DEF Asks
<1> QED
  BY <1>2, <1>3, <1>4

\* A new attempt starts from the validators that were refused recently.
LEMMA AttemptKeeps ==
    ASSUME TypeOK, AgesInv, NEW k, Base(k)
    PROVE  /\ Whole(Attempt(k))
           /\ Attempt(k).pc # "build"
           /\ k.refusals \subseteq Attempt(k).refusals
           /\ Attempt(k).pc = "sent" =>
                 /\ Attempt(k).spoiled = {v \in Validators : refusalAge[v] < RefusalMaxAge}
                 /\ refused[Attempt(k).at] >= RefusalMaxAge
           /\ \/ Attempt(k).pc = "done"
              \/ /\ Attempt(k).kind = k.kind /\ Attempt(k).build = k.build
                 /\ Attempt(k).signed = k.signed
                 /\ \/ Attempt(k).pc \in {"sent", "resendPause"}
                    \/ k.signed \in Attempt(k).refusals \/ ~Signs(k)
<1>1. PICK spoiled \in SUBSET Validators :
         spoiled = {v \in Validators : refusalAge[v] < RefusalMaxAge}
  OBVIOUS
<1>2. PICK all \in Seq(Validators) :
         all = ValidatorIndexes /\ \A v \in Validators : \E i \in 1 .. Len(all) : v = all[i]
  <2>1. ValidatorCount \in Nat
    BY CallsAssumption
  <2>2. ValidatorIndexes \in Seq(Validators) /\ Len(ValidatorIndexes) = ValidatorCount
    <3>1. ValidatorIndexes \in [1 .. ValidatorCount -> Validators]
      BY <2>1 DEF ValidatorIndexes, Validators
    <3> QED
      BY <2>1, <3>1
  <2>3. ASSUME NEW v \in Validators
        PROVE  \E i \in 1 .. Len(ValidatorIndexes) : v = ValidatorIndexes[i]
    <3>1. v + 1 \in 1 .. ValidatorCount /\ ValidatorIndexes[v + 1] = v
      BY <2>1 DEF Validators, ValidatorIndexes
    <3> QED
      BY <2>2, <3>1
  <2> QED
    BY <2>2, <2>3
<1>3. PICK k1 : k1 = [k EXCEPT !.left = all, !.everyOneRefused = TRUE, !.last = "none",
                               !.spoiled = spoiled]
  OBVIOUS
<1>4. /\ k1 \in CallRecord /\ k1.left = all /\ k1.everyOneRefused /\ k1.last = "none"
      /\ k1.spoiled = spoiled /\ k1.result = "none" /\ k1.kind = k.kind
      /\ k1.build = k.build /\ k1.signed = k.signed /\ k1.refusals = k.refusals
      /\ k1.first = k.first /\ k1.refusedEpoch = k.refusedEpoch
  BY <1>3 DEF Base, CallRecord
<1>5. Base(k1) /\ Signs(k1) = Signs(k)
  BY <1>4 DEF Base, Signs
<1>6. PICK r : r = refused
  OBVIOUS
<1>7. MayAsk(k1, r)
  <2>1. r \in [Validators -> Ages] /\ refusalAge \in [Validators -> Ages] /\ RefusalMaxAge \in Nat
    BY <1>6, CallsAssumption DEF TypeOK
  <2>2. ASSUME NEW v \in Validators, IsRefused(r, v) PROVE v \in spoiled
    <3>1. refusalAge[v] <= r[v] /\ r[v] < RefusalMaxAge /\ refusalAge[v] \in Int /\ r[v] \in Int
      BY <1>6, <2>1, <2>2 DEF AgesInv, IsRefused, Ages
    <3> QED
      BY <1>1, <2>1, <3>1
  <2> QED
    BY <1>2, <1>4, <2>1, <2>2 DEF MayAsk
<1>8. Attempt(k) = AskNext(k1, r)
  BY <1>1, <1>2, <1>3, <1>6 DEF Attempt
<1> QED
  BY <1>1, <1>4, <1>5, <1>6, <1>7, <1>8, AskNextKeeps

-----------------------------------------------------------------------------
(* The sessions that ran.                                                  *)

\* A change of the call in which no session starts.
LEMMA RanMoves ==
    ASSUME NEW c \in Calls, NEW k \in CallRecord, NEW k2 \in CallRecord,
           NEW R \in SUBSET (Calls \X Nat \X Epochs), NEW L,
           RanOf(c, k, R, L), k.pc # "done", Moves(k, k2)
    PROVE  RanOf(c, k2, R, L)
<1>1. InOrder(c, k2.refusals, R, L)
  BY DEF RanOf, InOrder, Moves
<1>2. ASSUME k2.pc # "done", NEW s \in R, s[1] = c
      PROVE  /\ s \in L /\ s[2] <= k2.build /\ Signs(k2)
             /\ \/ s[2] = k2.build /\ s[3] = k2.signed /\ k2.pc \in {"sent", "resendPause"}
                \/ s[3] \in k2.refusals
  <2>1. /\ s \in L /\ s[2] <= k.build /\ Signs(k)
        /\ \/ s[2] = k.build /\ s[3] = k.signed /\ k.pc \in {"sent", "resendPause"}
           \/ s[3] \in k.refusals
    BY <1>2 DEF RanOf
  <2>2. s[2] \in Nat /\ k.build \in Nat /\ k2.build \in Nat
    BY DEF CallRecord
  <2>3. CASE /\ k.pc \notin {"sent", "resendPause"} /\ k.build <= k2.build
             /\ (Signs(k) => Signs(k2)) \/ k.refusals = {}
    BY <2>1, <2>2, <2>3 DEF Moves
  <2>4. CASE /\ k2.kind = k.kind /\ k2.build = k.build /\ k2.signed = k.signed
             /\ k2.pc \in {"sent", "resendPause"} \/ k.signed \in k2.refusals \/ ~Signs(k)
    BY <2>1, <2>4 DEF Moves, Signs
  <2> QED
    BY <1>2, <2>3, <2>4 DEF Moves
<1> QED
  BY <1>1, <1>2 DEF RanOf

\* The session of the request in hand starts: it is after all that ran before.
LEMMA RanGrows ==
    ASSUME NEW c \in Calls, NEW k, Whole(k), k.pc = "sent", Signs(k), k.signed \in Epochs,
           NEW R \in SUBSET (Calls \X Nat \X Epochs), NEW L, RanOf(c, k, R, L),
           NEW x, x = <<c, k.build, k.signed>>, NEW L2, L \subseteq L2
    PROVE  /\ InOrder(c, k.refusals, R \cup {x}, L2)
           /\ x \in L2 => RanOf(c, k, R \cup {x}, L2)
<1>0. k.build \in Nat /\ k.signed \in Int /\ x[1] = c /\ x[2] = k.build /\ x[3] = k.signed
      /\ k.refusedEpoch \in Int /\ k.first \in BOOLEAN
  BY CallsAssumption DEF Whole, CallRecord, Epochs
<1>1. \A s \in R : s[1] = c => s[2] <= k.build /\ s[2] \in Nat /\ s \in L /\ s[3] \in Int
  BY CallsAssumption DEF RanOf, Epochs
<1>2. ASSUME NEW s \in R, s[1] = c, s[2] < k.build
      PROVE  s[3] < k.signed /\ s[3] \in k.refusals
  <2>1. s[3] \in k.refusals
    BY <1>0, <1>1, <1>2 DEF RanOf
  <2>2. ~k.first /\ s[3] <= k.refusedEpoch /\ k.refusedEpoch < k.signed
    BY <2>1 DEF Whole
  <2> QED
    BY <1>0, <1>1, <1>2, <2>1, <2>2
<1>3. ASSUME NEW s \in R \cup {x}, NEW t \in R \cup {x}, s[1] = c, t[1] = c, s[2] < t[2]
      PROVE  s[3] < t[3] /\ s[3] \in k.refusals /\ s \in L2
  <2>1. CASE s \in R /\ t \in R
    BY <1>3, <2>1 DEF RanOf, InOrder
  <2>2. CASE s \in R /\ t = x
    BY <1>0, <1>1, <1>2, <1>3, <2>2
  <2>3. CASE s = x
    BY <1>0, <1>1, <1>3, <2>3
  <2> QED
    BY <2>1, <2>2, <2>3
<1>4. InOrder(c, k.refusals, R \cup {x}, L2)
  BY <1>3 DEF InOrder
<1>5. ASSUME x \in L2, NEW s \in R \cup {x}, s[1] = c
      PROVE  /\ s \in L2 /\ s[2] <= k.build /\ Signs(k)
             /\ \/ s[2] = k.build /\ s[3] = k.signed /\ k.pc \in {"sent", "resendPause"}
                \/ s[3] \in k.refusals
  <2>1. CASE s = x
    BY <1>0, <1>5, <2>1
  <2>2. CASE s \in R
    BY <1>5, <2>2 DEF RanOf
  <2> QED
    BY <2>1, <2>2
<1> QED
  BY <1>4, <1>5 DEF RanOf

\* A session of another call changes nothing.
LEMMA RanOthers ==
    ASSUME NEW c, NEW k, NEW R, NEW L, RanOf(c, k, R, L), NEW x, x[1] # c, NEW L2, L \subseteq L2
    PROVE  RanOf(c, k, R \cup {x}, L2) /\ RanOf(c, k, R, L2)
BY DEF RanOf, InOrder

-----------------------------------------------------------------------------
(* The steps.                                                              *)

\* What a step of call c leaves of it, with what the action properties say.
StepOK(c) ==
    /\ Whole(call'[c])
    /\ SpoiledOf(call'[c], refusalAge')
    /\ RanOf(c, call'[c], ran', lost')
    /\ call'[c].pc = "build" /\ call[c].pc # "build" =>
          \A e \in call[c].refusals : call'[c].signed > e
    /\ call'[c].pc = "sent" /\ (call[c].pc # "sent" \/ call'[c].at # call[c].at) =>
          refused'[call'[c].at] >= RefusalMaxAge

\* The sessions at an answer: none starts, or the one of the request in hand, whose
\* answer is lost or ends the call.
LEMMA RanStep ==
    ASSUME IInv, NEW c \in Calls, NEW k, k = call[c], k.pc = "sent",
           NEW k2 \in CallRecord, Moves(k, k2),
           \/ UNCHANGED <<ran, lost>>
           \/ TakenAndLost(c)
           \/ Takes(c) /\ UNCHANGED lost /\ k2.pc = "done"
    PROVE  RanOf(c, k2, ran', lost')
<1>1. Whole(k) /\ k \in CallRecord
  BY DEF IInv, Whole
<1>2. PICK R, L : R = ran /\ L = lost
  OBVIOUS
<1>3. R \in SUBSET (Calls \X Nat \X Epochs) /\ RanOf(c, k, R, L)
  BY <1>2 DEF IInv, TypeOK
<1>4. CASE UNCHANGED <<ran, lost>>
  <2>1. RanOf(c, k2, R, L)
    BY <1>1, <1>3, RanMoves
  <2> QED
    BY <1>2, <1>4, <2>1
<1>5. CASE Takes(c)
  <2>1. PICK x : x = <<c, k.build, k.signed>>
    OBVIOUS
  <2>2. Signs(k) /\ k.signed \in Epochs /\ ran' = R \cup {x}
    <3>1. epoch \in Epochs
      BY DEF IInv, TypeOK
    <3>2. Session(c) = x
      BY <2>1 DEF Session
    <3>3. Signs(k) /\ k.signed = epoch /\ ran' = ran \cup {Session(c)}
      BY <1>5 DEF Takes
    <3> QED
      BY <1>2, <3>1, <3>2, <3>3
  <2>3. PICK R2 \in SUBSET (Calls \X Nat \X Epochs) : R2 = R \cup {x}
    <3>1. k.build \in Nat
      BY <1>1 DEF CallRecord
    <3>2. x \in Calls \X Nat \X Epochs
      BY <2>1, <2>2, <3>1
    <3> QED
      BY <1>3, <3>2
  <2>4. CASE lost' = lost \cup {x}
    <3>1. PICK L2 : L2 = lost \cup {x}
      OBVIOUS
    <3>2. RanOf(c, k, R2, L2)
      BY <1>1, <1>2, <1>3, <2>1, <2>2, <2>3, <3>1, RanGrows
    <3>3. RanOf(c, k2, R2, L2)
      BY <1>1, <1>3, <3>2, RanMoves
    <3> QED
      BY <2>2, <2>3, <2>4, <3>1, <3>3
  <2>5. CASE lost' = lost /\ k2.pc = "done"
    <3>1. InOrder(c, k.refusals, R2, L)
      BY <1>1, <1>3, <2>1, <2>2, <2>3, RanGrows
    <3>2. k.refusals \subseteq k2.refusals
      BY DEF Moves
    <3> QED
      BY <1>2, <2>2, <2>3, <2>5, <3>1, <3>2 DEF RanOf, InOrder
  <2>6. TakenAndLost(c) => lost' = lost \cup {x}
    BY <2>1 DEF TakenAndLost, Session
  <2> QED
    BY <1>4, <2>4, <2>5, <2>6
<1> QED
  BY <1>4, <1>5 DEF TakenAndLost

\* An attempt that ends in an answer.
LEMMA EndStep ==
    ASSUME IInv, NEW c \in Calls, call[c].pc = "sent", NEW result, MayEnd(call[c], result),
           call'[c] = AttemptEnds(call[c], result),
           \/ UNCHANGED <<ran, lost>>
           \/ TakenAndLost(c)
           \/ Takes(c) /\ UNCHANGED lost /\ result = "ok"
    PROVE  StepOK(c)
<1>1. PICK k : k = call[c]
  OBVIOUS
<1>2. Whole(k) /\ k.pc = "sent" /\ MayEnd(k, result)
  BY <1>1 DEF IInv
<1>3. Base(k) /\ k \in CallRecord
  BY <1>2 DEF Whole, Base
<1>4. PICK k2 : k2 = AttemptEnds(k, result)
  OBVIOUS
<1>5. EndsWell(k, k2) /\ call'[c] = k2
  BY <1>1, <1>2, <1>3, <1>4, AttemptEndsIs DEF Base
<1>6. Whole(k2) /\ k2.pc \notin {"sent", "build"} /\ k2 \in CallRecord
  BY <1>3, <1>5, EndKeeps DEF EndsWell
<1>7. Moves(k, k2)
  BY <1>5 DEF EndsWell, Moves
<1>8. result = "ok" => k2.pc = "done"
  <2>1. PICK f \in CallRecord : f = Forget(k)
    BY <1>3, ForgetIs
  <2>2. result = "ok" => k2 = Done(f, "ok")
    BY <1>4, <2>1 DEF AttemptEnds
  <2> QED
    BY <2>2, DoneIs DEF Answers
<1>9. RanOf(c, k2, ran', lost')
  BY <1>1, <1>2, <1>6, <1>7, <1>8, RanStep
<1> QED
  BY <1>5, <1>6, <1>9 DEF StepOK, SpoiledOf

\* An answer after which the next validator is asked. k1 is the call with the answer
\* noted, r the record with it.
LEMMA AskStep ==
    ASSUME IInv, NEW c \in Calls, call[c].pc = "sent", NEW k1 \in CallRecord, NEW r,
           MayAsk(k1, r), call'[c] = AskNext(k1, r), r = refused',
           \A v \in Validators : refusalAge'[v] < RefusalMaxAge => v \in k1.spoiled,
           k1.kind = call[c].kind, k1.build = call[c].build, k1.signed = call[c].signed,
           k1.refusals = call[c].refusals, k1.first = call[c].first,
           k1.refusedEpoch = call[c].refusedEpoch,
           UNCHANGED <<ran, lost>> \/ TakenAndLost(c)
    PROVE  StepOK(c)
<1>1. PICK k : k = call[c]
  OBVIOUS
<1>2. Whole(k) /\ k.pc = "sent"
  BY <1>1 DEF IInv
<1>3. Base(k1)
  BY <1>1, <1>2 DEF Whole, Base, MayAsk
<1>4. PICK k2 : k2 = AskNext(k1, r)
  OBVIOUS
<1>5. /\ Whole(k2) /\ k2.pc # "build" /\ k1.refusals \subseteq k2.refusals
      /\ k2.pc = "sent" => k2.spoiled = k1.spoiled /\ r[k2.at] >= RefusalMaxAge
      /\ \/ k2.pc = "done"
         \/ /\ k2.kind = k1.kind /\ k2.build = k1.build /\ k2.signed = k1.signed
            /\ \/ k2.pc \in {"sent", "resendPause"}
               \/ k1.signed \in k2.refusals \/ ~Signs(k1)
  BY <1>3, <1>4, AskNextKeeps
<1>6. Moves(k, k2)
  BY <1>1, <1>5 DEF Moves, Signs
<1>7. k2 \in CallRecord
  BY <1>5 DEF Whole
<1>8. RanOf(c, k2, ran', lost')
  BY <1>1, <1>2, <1>6, <1>7, RanStep
<1>9. SpoiledOf(k2, refusalAge')
  BY <1>5 DEF SpoiledOf
<1> QED
  BY <1>4, <1>5, <1>8, <1>9 DEF StepOK

\* The answers of a validator.
LEMMA AnswerSteps ==
    ASSUME IInv, NEW c \in Calls,
           \/ AnswerOk(c) \/ AnswerNotMember(c)
           \/ \E a \in Answers : AnswerUnavailable(c, a) \/ AnswerError(c, a)
    PROVE  StepOK(c)
<1>0. TypeOK /\ AgesInv /\ call[c].pc = "sent"
  BY DEF IInv, AnswerOk, AnswerNotMember, AnswerUnavailable, AnswerError
<1>1. PICK k : k = call[c]
  OBVIOUS
<1>2. Whole(k) /\ SpoiledOf(k, refusalAge) /\ k.pc = "sent" /\ k \in CallRecord
  BY <1>0, <1>1 DEF IInv, Whole
<1>3. \A k2 : Set(c, k2) => call'[c] = k2
  BY <1>0 DEF Set, TypeOK
<1>r. /\ refused \in [Validators -> Ages] /\ refusalAge \in [Validators -> Ages]
      /\ RefusalMaxAge \in Nat \ {0}
  BY <1>0, CallsAssumption DEF TypeOK
<1>s. \A v \in Validators : IsRefused(refused, v) => v \in k.spoiled
  <2>1. ASSUME NEW v \in Validators, IsRefused(refused, v) PROVE v \in k.spoiled
    <3>1. refusalAge[v] <= refused[v] /\ refused[v] < RefusalMaxAge
          /\ refusalAge[v] \in Int /\ refused[v] \in Int
      BY <1>0, <1>r, <2>1 DEF AgesInv, IsRefused, Ages
    <3> QED
      BY <1>2, <1>r, <3>1 DEF SpoiledOf
  <2> QED
    BY <2>1
<1>4. CASE AnswerOk(c)
  <2>1. MayEnd(call[c], "ok")
    BY DEF MayEnd, Answers
  <2>2. call'[c] = AttemptEnds(call[c], "ok")
    BY <1>3, <1>4 DEF AnswerOk
  <2>3. UNCHANGED <<ran, lost>> \/ (Takes(c) /\ UNCHANGED lost)
    BY <1>4 DEF AnswerOk
  <2> QED
    BY <1>0, <2>1, <2>2, <2>3, EndStep
<1>5. CASE AnswerNotMember(c)
  <2>1. PICK r, v : r = refused' /\ v = k.at
    OBVIOUS
  <2>2. PICK spoiled \in SUBSET Validators : spoiled = k.spoiled \cup {v}
    BY <1>2, <2>1 DEF CallRecord
  <2>3. PICK noted : noted = [k EXCEPT !.spoiled = spoiled]
    OBVIOUS
  <2>4. PICK k1 : k1 = [noted EXCEPT !.last = "notMember"]
    OBVIOUS
  <2>5. "notMember" \in Answers
    BY DEF Answers
  <2>6. /\ k1 \in CallRecord /\ k1.last = "notMember" /\ k1.left = k.left
        /\ k1.everyOneRefused = k.everyOneRefused /\ k1.spoiled = spoiled
        /\ k1.kind = k.kind /\ k1.build = k.build /\ k1.signed = k.signed
        /\ k1.refusals = k.refusals /\ k1.first = k.first
        /\ k1.refusedEpoch = k.refusedEpoch /\ k1.result = k.result
    BY <1>2, <2>3, <2>4, <2>5 DEF CallRecord
  <2>7. /\ r = [refused EXCEPT ![v] = 0] /\ refusalAge' = [refusalAge EXCEPT ![v] = 0]
        /\ UNCHANGED <<ran, lost>>
    BY <1>1, <1>5, <2>1 DEF AnswerNotMember
  <2>8. call'[c] = AskNext(k1, r)
    <3>1. RefusalNoted(v)[c] = noted
      BY <1>1, <1>2, <2>2, <2>3 DEF RefusalNoted
    <3>2. call' = [RefusalNoted(v) EXCEPT
              ![c] = AskNext([RefusalNoted(v)[c] EXCEPT !.last = "notMember"], r)]
      BY <1>1, <1>5, <2>1 DEF AnswerNotMember
    <3> QED
      BY <2>4, <3>1, <3>2 DEF RefusalNoted
  <2>9. /\ r \in [Validators -> Ages]
        /\ \A u \in Validators : IsRefused(r, u) => u \in k1.spoiled
    BY <1>r, <1>s, <2>2, <2>6, <2>7 DEF IsRefused, Ages
  <2>10. k1.everyOneRefused => \A u \in Validators :
            u \in k1.spoiled \/ \E i \in 1 .. Len(k1.left) : u = k1.left[i]
    BY <1>2, <2>1, <2>2, <2>6 DEF Whole
  <2>11. MayAsk(k1, r)
    BY <1>2, <2>6, <2>9, <2>10 DEF MayAsk, Whole
  <2>12. \A u \in Validators : refusalAge'[u] < RefusalMaxAge => u \in k1.spoiled
    BY <1>2, <1>r, <2>2, <2>6, <2>7 DEF SpoiledOf
  <2> QED
    BY <1>0, <1>1, <2>1, <2>6, <2>7, <2>8, <2>11, <2>12, AskStep
<1>6. ASSUME NEW a \in Answers, AnswerUnavailable(c, a) PROVE StepOK(c)
  <2>0. UNCHANGED <<ran, lost>> \/ TakenAndLost(c)
    BY <1>6 DEF AnswerUnavailable
  <2>1. CASE Signs(k)
    <3>1. PICK r : r = refused
      OBVIOUS
    <3>2. PICK k1 : k1 = [k EXCEPT !.everyOneRefused = FALSE, !.last = a]
      OBVIOUS
    <3>3. /\ k1 \in CallRecord /\ k1.last = a /\ k1.left = k.left
          /\ ~k1.everyOneRefused /\ k1.spoiled = k.spoiled
          /\ k1.kind = k.kind /\ k1.build = k.build /\ k1.signed = k.signed
          /\ k1.refusals = k.refusals /\ k1.first = k.first
          /\ k1.refusedEpoch = k.refusedEpoch /\ k1.result = k.result
      BY <1>2, <3>2 DEF CallRecord
    <3>4. a \in {"unavailable", "setupRefused"}
      BY <1>6 DEF AnswerUnavailable
    <3>5. MayAsk(k1, r)
      BY <1>2, <1>r, <1>s, <3>1, <3>3, <3>4 DEF MayAsk, Whole
    <3>6. call'[c] = AskNext(k1, r) /\ UNCHANGED <<refused, refusalAge>>
      BY <1>1, <1>3, <1>6, <2>1, <3>1, <3>2 DEF AnswerUnavailable
    <3>7. \A v \in Validators : refusalAge'[v] < RefusalMaxAge => v \in k1.spoiled
      BY <1>2, <3>3, <3>6 DEF SpoiledOf
    <3> QED
      BY <1>0, <1>1, <2>0, <3>1, <3>3, <3>5, <3>6, <3>7, AskStep
  <2>2. CASE ~Signs(k)
    <3>1. call'[c] = AttemptEnds(call[c], a) /\ a # "closing"
      BY <1>1, <1>3, <1>6, <2>2 DEF AnswerUnavailable
    <3>2. MayEnd(call[c], a)
      BY <3>1 DEF MayEnd, Answers
    <3> QED
      BY <1>0, <2>0, <3>1, <3>2, EndStep
  <2> QED
    BY <2>1, <2>2
<1>7. ASSUME NEW a \in Answers, AnswerError(c, a) PROVE StepOK(c)
  <2>1. call'[c] = AttemptEnds(call[c], a) /\ (UNCHANGED <<ran, lost>> \/ TakenAndLost(c))
    BY <1>3, <1>7 DEF AnswerError
  <2>2. MayEnd(call[c], a)
    BY <1>0, <1>7 DEF AnswerError, MayEnd, TypeOK, Answers
  <2> QED
    BY <1>0, <2>1, <2>2, EndStep
<1> QED
  BY <1>4, <1>5, <1>6, <1>7

\* A step in which no answer comes: no session starts, and no refusal is recorded.
LEMMA QuietStep ==
    ASSUME IInv, NEW c \in Calls, NEW k, k = call[c], k.pc # "done", NEW k2, call'[c] = k2,
           UNCHANGED <<refused, refusalAge, ran, lost>>,
           Whole(k2), Moves(k, k2), SpoiledOf(k2, refusalAge),
           k2.pc = "build" => \A e \in k.refusals : k2.signed > e,
           k2.pc = "sent" => refused[k2.at] >= RefusalMaxAge
    PROVE  StepOK(c)
<1>1. PICK R, L : R = ran /\ L = lost
  OBVIOUS
<1>2. /\ R \in SUBSET (Calls \X Nat \X Epochs) /\ RanOf(c, k, R, L)
      /\ k \in CallRecord /\ k2 \in CallRecord
  BY <1>1 DEF IInv, TypeOK, Whole
<1>3. RanOf(c, k2, R, L)
  BY <1>2, RanMoves
<1> QED
  BY <1>1, <1>3 DEF StepOK

\* A call that ends without an answer.
LEMMA DoneStep ==
    ASSUME IInv, NEW c \in Calls, call[c].pc # "done", NEW k1 \in CallRecord,
           k1.refusals = call[c].refusals,
           NEW result \in (Answers \cup OwnErrors) \ {"everyRefused"},
           call'[c] = Done(k1, result), UNCHANGED <<refused, refusalAge, ran, lost>>
    PROVE  StepOK(c)
<1>1. PICK k, k2 : k = call[c] /\ k2 = Done(k1, result)
  OBVIOUS
<1>2. /\ k2 \in CallRecord /\ k2.pc = "done" /\ k2.result = result /\ k2.last = "none"
      /\ k2.refusals = k1.refusals /\ result # "none"
  BY <1>1, DoneIs DEF Answers, OwnErrors
<1>3. Whole(k2) /\ Moves(k, k2) /\ SpoiledOf(k2, refusalAge)
  BY <1>1, <1>2 DEF Whole, Moves, SpoiledOf
<1> QED
  BY <1>1, <1>2, <1>3, QuietStep

\* A call that begins an attempt with the request k1 in hand.
LEMMA AttemptStep ==
    ASSUME IInv, NEW c \in Calls, NEW k, k = call[c], k.pc \notin {"done", "sent"},
           NEW k1, Base(k1), k1.refusals = k.refusals, call'[c] = Attempt(k1),
           \/ /\ k.pc # "resendPause" /\ k.build <= k1.build
              /\ (Signs(k) => Signs(k1)) \/ k.refusals = {}
           \/ k1.kind = k.kind /\ k1.build = k.build /\ k1.signed = k.signed,
           UNCHANGED <<refused, refusalAge, ran, lost>>
    PROVE  StepOK(c)
<1>0. TypeOK /\ AgesInv
  BY DEF IInv
<1>1. PICK k2 : k2 = Attempt(k1)
  OBVIOUS
<1>2. /\ Whole(k2) /\ k2.pc # "build" /\ k1.refusals \subseteq k2.refusals
      /\ k2.pc = "sent" =>
            /\ k2.spoiled = {v \in Validators : refusalAge[v] < RefusalMaxAge}
            /\ refused[k2.at] >= RefusalMaxAge
      /\ \/ k2.pc = "done"
         \/ /\ k2.kind = k1.kind /\ k2.build = k1.build /\ k2.signed = k1.signed
            /\ \/ k2.pc \in {"sent", "resendPause"}
               \/ k1.signed \in k2.refusals \/ ~Signs(k1)
  BY <1>0, <1>1, AttemptKeeps
<1>3. Moves(k, k2)
  BY <1>2 DEF Moves, Signs
<1>4. SpoiledOf(k2, refusalAge)
  BY <1>2 DEF SpoiledOf
<1> QED
  BY <1>1, <1>2, <1>3, <1>4, QuietStep

\* Starts, and the steps between the attempts.
LEMMA OwnSteps ==
    ASSUME IInv, NEW c \in Calls,
           \/ \E kind \in Kinds : Start(c, kind)
           \/ StartAcross(c)
           \/ \E e \in Epochs : ReadEpoch(c, e)
           \/ Build(c) \/ CallerFails(c) \/ RaceEnds(c) \/ PauseEnds(c)
    PROVE  StepOK(c)
<1>0. TypeOK /\ UNCHANGED <<refused, refusalAge, ran, lost>>
  BY DEF IInv, Start, StartAcross, ReadEpoch, Build, CallerFails, RaceEnds, PauseEnds
<1>1. PICK k : k = call[c]
  OBVIOUS
<1>2. Whole(k) /\ k \in CallRecord
  BY <1>1 DEF IInv, Whole
<1>3. \A k2 : Set(c, k2) => call'[c] = k2
  BY <1>0 DEF Set, TypeOK
<1>4. {"outOfTime", "failed", "closed"} \subseteq (Answers \cup OwnErrors) \ {"everyRefused"}
  BY DEF Answers, OwnErrors
<1>5. ASSUME NEW kind \in Kinds, Start(c, kind) PROVE StepOK(c)
  <2>1. PICK e \in 0 .. MaxEpoch : e = epoch
    BY <1>0, CallsAssumption DEF TypeOK, Epochs
  <2>2. PICK budget \in Int : budget = Budget
    BY CallsAssumption
  <2>3. PICK k1 : k1 = [k EXCEPT !.kind = kind, !.signed = e, !.remaining = budget]
    OBVIOUS
  <2>4. /\ k1 \in CallRecord /\ k1.refusals = k.refusals /\ k1.first = k.first
        /\ k1.result = k.result /\ k1.last = k.last /\ k1.refusedEpoch = k.refusedEpoch
        /\ k1.build = k.build
    BY <1>2, <2>3, e \in 0 .. MaxEpoch, budget \in Int DEF CallRecord
  <2>5. k.pc = "idle" /\ call'[c] = Attempt(k1)
    BY <1>1, <1>3, <1>5, <2>1, <2>2, <2>3 DEF Start
  <2>6. Base(k1) /\ k.refusals = {}
    BY <1>2, <2>4, <2>5 DEF Base, Whole
  <2>7. k.build <= k1.build
    BY <1>2, <2>4 DEF CallRecord
  <2> QED
    BY <1>0, <1>1, <2>4, <2>5, <2>6, <2>7, AttemptStep
<1>6. CASE StartAcross(c)
  <2>1. PICK k2 : k2 = [k EXCEPT !.kind = "across", !.pc = "epochRead"]
    OBVIOUS
  <2>2. "across" \in Kinds /\ k.pc = "idle" /\ call'[c] = k2
    BY <1>1, <1>3, <1>6, <2>1 DEF StartAcross, Kinds
  <2>3. /\ k2 \in CallRecord /\ k2.refusals = k.refusals /\ k2.first = k.first
        /\ k2.result = k.result /\ k2.last = k.last /\ k2.refusedEpoch = k.refusedEpoch
        /\ k2.build = k.build /\ k2.pc = "epochRead" /\ k2.kind = "across"
    BY <1>2, <2>1, <2>2, ZenonT(60) DEF CallRecord
  <2>4. Whole(k2) /\ SpoiledOf(k2, refusalAge)
    BY <1>2, <2>2, <2>3 DEF Whole, SpoiledOf
  <2>5. Moves(k, k2)
    BY <1>2, <2>2, <2>3 DEF Moves, CallRecord, Signs
  <2> QED
    BY <1>0, <1>1, <2>2, <2>3, <2>4, <2>5, QuietStep
<1>7. ASSUME NEW e \in Epochs, ReadEpoch(c, e) PROVE StepOK(c)
  <2>0. k.pc = "epochRead" /\ e \in 0 .. MaxEpoch
    <3>1. k.pc = "epochRead"
      BY <1>1, <1>7 DEF ReadEpoch
    <3>2. e \in 0 .. MaxEpoch
      BY CallsAssumption DEF Epochs
    <3> QED
      BY <3>1, <3>2
  <2>1. PICK named : named = [k EXCEPT !.pc = "build", !.signed = e]
    OBVIOUS
  <2>2. PICK wait \in Nat : wait = PollWait(k)
    BY <1>2, PollWaitType
  <2>3. PICK paused : paused = [k EXCEPT !.pc = "epochPause", !.wakeIn = wait]
    OBVIOUS
  <2>4. \/ call'[c] = named /\ (k.first \/ e > k.refusedEpoch)
        \/ call'[c] = Done(k, "outOfTime")
        \/ call'[c] = paused
    BY <1>1, <1>3, <1>7, <2>1, <2>2, <2>3 DEF ReadEpoch
  <2>5. CASE call'[c] = named /\ (k.first \/ e > k.refusedEpoch)
    <3>1. /\ named \in CallRecord /\ named.refusals = k.refusals /\ named.first = k.first
          /\ named.result = k.result /\ named.last = k.last
          /\ named.refusedEpoch = k.refusedEpoch /\ named.build = k.build
          /\ named.pc = "build" /\ named.kind = k.kind /\ named.signed = e
      BY <1>2, <2>0, <2>1, e \in 0 .. MaxEpoch DEF CallRecord
    <3>2. k.refusedEpoch \in Int /\ e \in Int /\ k.refusals \subseteq Epochs
          /\ \A other \in k.refusals : other \in Int
      BY <1>2, <2>0, CallsAssumption DEF CallRecord, Epochs
    <3>3. \A other \in k.refusals : named.signed > other
      BY <1>2, <2>0, <2>5, <3>1, <3>2 DEF Whole
    <3>4. ~named.first => named.refusedEpoch < named.signed
      BY <2>5, <3>1, <3>2
    <3>5. Whole(named) /\ SpoiledOf(named, refusalAge)
      BY <1>2, <2>0, <3>1, <3>4 DEF Whole, SpoiledOf
    <3>6. Moves(k, named)
      BY <1>2, <2>0, <3>1 DEF Moves, CallRecord, Signs
    <3> QED
      BY <1>0, <1>1, <2>0, <2>5, <3>1, <3>3, <3>5, <3>6, QuietStep
  <2>6. CASE call'[c] = Done(k, "outOfTime")
    BY <1>0, <1>1, <1>2, <1>4, <2>0, <2>6, DoneStep
  <2>7. CASE call'[c] = paused
    <3>1. /\ paused \in CallRecord /\ paused.refusals = k.refusals
          /\ paused.first = k.first /\ paused.result = k.result /\ paused.last = k.last
          /\ paused.refusedEpoch = k.refusedEpoch /\ paused.build = k.build
          /\ paused.pc = "epochPause" /\ paused.kind = k.kind
      BY <1>2, <2>3 DEF CallRecord
    <3>2. Whole(paused) /\ SpoiledOf(paused, refusalAge)
      BY <1>2, <2>0, <3>1 DEF Whole, SpoiledOf
    <3>3. Moves(k, paused)
      BY <1>2, <2>0, <3>1 DEF Moves, CallRecord, Signs
    <3> QED
      BY <1>0, <1>1, <2>0, <2>7, <3>1, <3>2, <3>3, QuietStep
  <2> QED
    BY <2>4, <2>5, <2>6, <2>7
<1>8. CASE Build(c)
  <2>1. PICK next \in Nat : next = k.build + 1
    BY <1>2 DEF CallRecord
  <2>2. PICK k1 : k1 = [k EXCEPT !.build = next]
    OBVIOUS
  <2>3. /\ k1 \in CallRecord /\ k1.refusals = k.refusals /\ k1.first = k.first
        /\ k1.result = k.result /\ k1.last = k.last /\ k1.refusedEpoch = k.refusedEpoch
        /\ k1.build = next /\ k1.kind = k.kind /\ k1.signed = k.signed
    BY <1>2, <2>2 DEF CallRecord
  <2>4. k.pc = "build" /\ call'[c] \in {Attempt(k1), Done(k1, "outOfTime")}
    BY <1>1, <1>3, <1>8, <2>1, <2>2 DEF Build, UnlessOutOfTime
  <2>5. Base(k1)
    BY <1>2, <2>3, <2>4 DEF Base, Whole
  <2>6. k.build <= k1.build /\ Signs(k1) = Signs(k)
    BY <1>2, <2>1, <2>3 DEF CallRecord, Signs
  <2>7. call'[c] = Attempt(k1) => StepOK(c)
    BY <1>0, <1>1, <2>3, <2>4, <2>5, <2>6, AttemptStep
  <2>8. call'[c] = Done(k1, "outOfTime") => StepOK(c)
    BY <1>0, <1>1, <1>4, <2>3, <2>4, DoneStep
  <2> QED
    BY <2>4, <2>7, <2>8
<1>9. CASE CallerFails(c) \/ RaceEnds(c)
  <2>1. /\ k.pc \in {"epochRead", "build"}
        /\ call'[c] \in {Done(k, "failed"), Done(k, "outOfTime")}
    BY <1>1, <1>3, <1>9 DEF CallerFails, RaceEnds
  <2> QED
    BY <1>0, <1>1, <1>2, <1>4, <2>1, DoneStep
<1>10. CASE PauseEnds(c)
  <2>1. PICK again : again = [k EXCEPT !.pc = "epochRead"]
    OBVIOUS
  <2>2. /\ k.pc \in {"resendPause", "epochPause", "keysPause"}
        /\ \/ call'[c] \in {Done(k, "outOfTime"), Done(k, "closed")}
           \/ call'[c] = again /\ k.pc = "epochPause"
           \/ call'[c] = Attempt(k) /\ k.pc # "epochPause"
    <3>1. k.pc \in {"resendPause", "epochPause", "keysPause"}
      BY <1>1, <1>10 DEF PauseEnds
    <3>2. CASE k.pc = "epochPause"
      BY <1>1, <1>3, <1>10, <2>1, <3>2 DEF PauseEnds, UnlessOutOfTime
    <3>3. CASE k.pc = "resendPause"
      BY <1>1, <1>3, <1>10, <2>1, <3>3 DEF PauseEnds, UnlessOutOfTime
    <3>4. CASE k.pc = "keysPause"
      BY <1>1, <1>3, <1>10, <2>1, <3>4 DEF PauseEnds, UnlessOutOfTime
    <3> QED
      BY <3>1, <3>2, <3>3, <3>4
  <2>3. CASE call'[c] \in {Done(k, "outOfTime"), Done(k, "closed")}
    BY <1>0, <1>1, <1>2, <1>4, <2>2, <2>3, DoneStep
  <2>4. CASE call'[c] = again /\ k.pc = "epochPause"
    <3>1. /\ again \in CallRecord /\ again.refusals = k.refusals
          /\ again.first = k.first /\ again.result = k.result /\ again.last = k.last
          /\ again.refusedEpoch = k.refusedEpoch /\ again.build = k.build
          /\ again.pc = "epochRead" /\ again.kind = k.kind
      BY <1>2, <2>1 DEF CallRecord
    <3>2. Whole(again) /\ SpoiledOf(again, refusalAge)
      BY <1>2, <2>4, <3>1 DEF Whole, SpoiledOf
    <3>3. Moves(k, again)
      BY <1>2, <2>4, <3>1 DEF Moves, CallRecord, Signs
    <3> QED
      BY <1>0, <1>1, <2>4, <3>1, <3>2, <3>3, QuietStep
  <2>5. CASE call'[c] = Attempt(k) /\ k.pc # "epochPause"
    <3>1. Base(k)
      BY <1>2, <2>2, <2>5 DEF Base, Whole
    <3> QED
      BY <1>0, <1>1, <2>2, <2>5, <3>1, AttemptStep
  <2> QED
    BY <2>2, <2>3, <2>4, <2>5
<1> QED
  BY <1>5, <1>6, <1>7, <1>8, <1>9, <1>10

\* The steps of one call.
CallStep(c) ==
    \/ \E kind \in Kinds : Start(c, kind)
    \/ StartAcross(c)
    \/ CallSteps(c)

\* A step of a call leaves the others alone, but for the refusal that they note.
LEMMA CallStepIs ==
    ASSUME TypeOK, NEW c \in Calls, CallStep(c)
    PROVE  /\ UNCHANGED <<netVars, closed>>
           /\ \/ /\ UNCHANGED <<refused, refusalAge>>
                 /\ \E k2 : call' = [call EXCEPT ![c] = k2]
              \/ \E v \in Validators :
                    /\ refused' = [refused EXCEPT ![v] = 0]
                    /\ refusalAge' = [refusalAge EXCEPT ![v] = 0]
                    /\ \E k2 : call' = [RefusalNoted(v) EXCEPT ![c] = k2]
           /\ ran' = ran \/ (ran' = ran \cup {Session(c)} /\ call[c].signed = epoch)
           /\ lost' = lost \/ (lost' = lost \cup {Session(c)} /\ ran' = ran \cup {Session(c)})
<1>1. CASE \/ \E kind \in Kinds : Start(c, kind)
           \/ StartAcross(c) \/ \E e \in Epochs : ReadEpoch(c, e)
           \/ Build(c) \/ CallerFails(c) \/ RaceEnds(c) \/ PauseEnds(c)
  BY <1>1 DEF Start, StartAcross, ReadEpoch, Build, CallerFails, RaceEnds, PauseEnds, Set
<1>2. CASE AnswerOk(c)
  BY <1>2 DEF AnswerOk, Takes, Set
<1>3. CASE AnswerNotMember(c)
  <2>1. call[c].at \in Validators
    BY DEF TypeOK, CallRecord
  <2>2. \E k2 : call' = [RefusalNoted(call[c].at) EXCEPT ![c] = k2]
    BY <1>3 DEF AnswerNotMember
  <2> QED
    BY <1>3, <2>1, <2>2 DEF AnswerNotMember
<1>4. ASSUME NEW a \in Answers, AnswerUnavailable(c, a) \/ AnswerError(c, a)
      PROVE  /\ UNCHANGED <<netVars, closed, refused, refusalAge>>
             /\ \E k2 : call' = [call EXCEPT ![c] = k2]
             /\ UNCHANGED <<ran, lost>> \/ TakenAndLost(c)
  BY <1>4 DEF AnswerUnavailable, AnswerError, Set
<1>5. TakenAndLost(c) => /\ ran' = ran \cup {Session(c)} /\ call[c].signed = epoch
                         /\ lost' = lost \cup {Session(c)}
  BY DEF TakenAndLost, Takes
<1> QED
  BY <1>1, <1>2, <1>3, <1>4, <1>5 DEF CallStep, CallSteps

\* Time passes: what was refused too long ago is forgotten, in both records at once.
LEMMA TickKeeps ==
    ASSUME IInv, Tick
    PROVE  TypeOK' /\ AgesInv' /\ \A c \in Calls : StepOK(c)
<1>0. TypeOK /\ AgesInv
  BY DEF IInv
<1>1. RefusalMaxAge \in Nat \ {0}
  BY CallsAssumption
<1>2. ASSUME NEW n \in Ages
      PROVE  Min({n + 1, RefusalMaxAge}) = IF n + 1 <= RefusalMaxAge THEN n + 1
                                           ELSE RefusalMaxAge
  BY <1>1, MinMax DEF Ages
<1>3. ASSUME NEW v \in Validators
      PROVE  /\ refused[v] \in Ages /\ refusalAge[v] \in Ages
             /\ refused'[v] = IF refused[v] + 1 <= RefusalMaxAge THEN refused[v] + 1
                              ELSE RefusalMaxAge
             /\ refusalAge'[v] = IF refusalAge[v] + 1 <= RefusalMaxAge THEN refusalAge[v] + 1
                                 ELSE RefusalMaxAge
  <2>1. refused[v] \in Ages /\ refusalAge[v] \in Ages
    BY <1>0 DEF TypeOK
  <2>2. /\ refused'[v] = Min({refused[v] + 1, RefusalMaxAge})
        /\ refusalAge'[v] = Min({refusalAge[v] + 1, RefusalMaxAge})
    BY DEF Tick
  <2> QED
    BY <1>2, <2>1, <2>2
<1>4. UNCHANGED <<closed, epoch, chainEpoch, closing, ran, lost>>
  BY DEF Tick, netVars
<1>5. AgesInv'
  <2> SUFFICES ASSUME NEW v \in Validators
               PROVE  refusalAge'[v] <= refused'[v]
    BY DEF AgesInv
  <2>1. refusalAge[v] <= refused[v]
    BY <1>0 DEF AgesInv
  <2> QED
    BY <1>1, <1>3, <2>1 DEF Ages
<1>6. /\ refused' \in [Validators -> Ages] /\ refusalAge' \in [Validators -> Ages]
  <2>1. ASSUME NEW v \in Validators PROVE refused'[v] \in Ages /\ refusalAge'[v] \in Ages
    BY <1>1, <1>3 DEF Ages
  <2>2. /\ refused' = [v \in Validators |-> refused'[v]]
        /\ refusalAge' = [v \in Validators |-> refusalAge'[v]]
    BY DEF Tick
  <2> QED
    BY <2>1, <2>2
<1>7. ASSUME NEW c \in Calls PROVE StepOK(c)
  <2>1. PICK k, k2 : k = call[c] /\ k2 = call'[c]
    OBVIOUS
  <2>2. Whole(k) /\ SpoiledOf(k, refusalAge) /\ RanOf(c, k, ran, lost) /\ k \in CallRecord
    BY <2>1 DEF IInv, Whole
  <2>3. \/ k2 = k
        \/ \E n \in Int, m \in Nat : k2 = [k EXCEPT !.remaining = n, !.wakeIn = m]
    <3>1. PICK n : n = Max({k.remaining - 1, -1})
      OBVIOUS
    <3>2. PICK m : m = Max({k.wakeIn - 1, 0})
      OBVIOUS
    <3>3. k.remaining \in Int /\ k.wakeIn \in Nat
      BY <2>2 DEF CallRecord
    <3>4. PICK one \in Int, two \in Int : one = k.remaining - 1 /\ two = k.wakeIn - 1
      BY <3>3
    <3>5. /\ Max({one, -1}) = IF one >= -1 THEN one ELSE -1
          /\ Max({two, 0}) = IF two >= 0 THEN two ELSE 0
      BY MinMax, SMTT(30)
    <3>6. n \in Int /\ m \in Nat
      BY <3>1, <3>2, <3>4, <3>5
    <3>7. k2 = k \/ k2 = [k EXCEPT !.remaining = n, !.wakeIn = m]
      BY <2>1, <3>1, <3>2 DEF Tick
    <3> QED
      BY <3>6, <3>7
  <2>4. /\ k2 \in CallRecord /\ k2.kind = k.kind /\ k2.pc = k.pc /\ k2.left = k.left
        /\ k2.at = k.at /\ k2.everyOneRefused = k.everyOneRefused /\ k2.last = k.last
        /\ k2.first = k.first /\ k2.signed = k.signed /\ k2.build = k.build
        /\ k2.refusedEpoch = k.refusedEpoch /\ k2.spoiled = k.spoiled
        /\ k2.refusals = k.refusals /\ k2.result = k.result
    BY <2>2, <2>3, ZenonT(60) DEF CallRecord
  <2>5. Whole(k2)
    BY <2>2, <2>4 DEF Whole
  <2>6. RanOf(c, k2, ran, lost)
    BY <2>2, <2>4 DEF RanOf, InOrder, Signs
  <2>7. ASSUME NEW v \in Validators, refusalAge'[v] < RefusalMaxAge
        PROVE  refusalAge[v] < RefusalMaxAge
    BY <1>0, <1>1, <1>3, <2>7 DEF Ages, AgesInv
  <2>8. SpoiledOf(k2, refusalAge')
    BY <2>2, <2>4, <2>7 DEF SpoiledOf
  <2> QED
    BY <1>4, <2>1, <2>4, <2>5, <2>6, <2>8 DEF StepOK
<1>8. TypeOK'
  <2>1. \A c \in Calls : call'[c] \in CallRecord /\ (call'[c].pc = "done" <=> call'[c].result # "none")
    BY <1>7 DEF StepOK, Whole
  <2>2. call' = [c \in Calls |-> call'[c]]
    BY DEF Tick
  <2>3. call' \in [Calls -> CallRecord]
    BY <2>1, <2>2
  <2> QED
    BY <1>0, <1>4, <1>6, <2>1, <2>3 DEF TypeOK
<1> QED
  BY <1>5, <1>7, <1>8

\* A step of a call keeps what holds of every call.
LEMMA CallStepKeeps ==
    ASSUME IInv, NEW c \in Calls, CallStep(c)
    PROVE  TypeOK' /\ AgesInv' /\ \A d \in Calls : StepOK(d)
<1>0. TypeOK /\ AgesInv
  BY DEF IInv
<1>1. StepOK(c)
  BY AnswerSteps, OwnSteps DEF CallStep, CallSteps
<1>2. /\ UNCHANGED <<epoch, chainEpoch, closing, closed>>
      /\ \/ /\ UNCHANGED <<refused, refusalAge>>
            /\ \E k2 : call' = [call EXCEPT ![c] = k2]
         \/ \E v \in Validators :
               /\ refused' = [refused EXCEPT ![v] = 0]
               /\ refusalAge' = [refusalAge EXCEPT ![v] = 0]
               /\ \E k2 : call' = [RefusalNoted(v) EXCEPT ![c] = k2]
      /\ ran' = ran \/ (ran' = ran \cup {Session(c)} /\ call[c].signed = epoch)
      /\ lost' = lost \/ (lost' = lost \cup {Session(c)} /\ ran' = ran \cup {Session(c)})
  BY <1>0, CallStepIs DEF netVars
<1>3. /\ DOMAIN call' = Calls /\ call' = [d \in Calls |-> call'[d]]
      /\ refused \in [Validators -> Ages] /\ refusalAge \in [Validators -> Ages]
      /\ 0 \in Ages /\ RefusalMaxAge \in Nat \ {0}
  BY <1>0, <1>2, CallsAssumption DEF TypeOK, RefusalNoted, Ages
<1>4. ASSUME NEW d \in Calls \ {c} PROVE StepOK(d)
  <2>1. PICK k, k2 : k = call[d] /\ k2 = call'[d]
    OBVIOUS
  <2>2. Whole(k) /\ SpoiledOf(k, refusalAge) /\ RanOf(d, k, ran, lost) /\ k \in CallRecord
    BY <2>1 DEF IInv, Whole
  <2>3. \/ k2 = k /\ UNCHANGED refusalAge
        \/ \E v \in Validators :
              /\ refusalAge' = [refusalAge EXCEPT ![v] = 0]
              /\ \/ k2 = k /\ k.pc # "sent"
                 \/ k2 = [k EXCEPT !.spoiled = k.spoiled \cup {v}] /\ k.pc = "sent"
    <3>1. CASE UNCHANGED refusalAge /\ \E m : call' = [call EXCEPT ![c] = m]
      BY <1>0, <2>1, <3>1 DEF TypeOK
    <3>2. ASSUME NEW v \in Validators, \E m : call' = [RefusalNoted(v) EXCEPT ![c] = m]
          PROVE  \/ k2 = k /\ k.pc # "sent"
                 \/ k2 = [k EXCEPT !.spoiled = k.spoiled \cup {v}] /\ k.pc = "sent"
      <4>1. k2 = RefusalNoted(v)[d]
        BY <2>1, <3>2 DEF RefusalNoted
      <4> QED
        BY <2>1, <4>1 DEF RefusalNoted
    <3> QED
      BY <1>2, <3>1, <3>2
  <2>4. /\ Whole(k2) /\ SpoiledOf(k2, refusalAge') /\ k2.pc = k.pc /\ k2.at = k.at
        /\ k2.kind = k.kind /\ k2.build = k.build /\ k2.signed = k.signed
        /\ k2.refusals = k.refusals
    <3>1. CASE k2 = k /\ (UNCHANGED refusalAge \/ k.pc # "sent")
      BY <2>2, <3>1 DEF SpoiledOf
    <3>2. ASSUME NEW v \in Validators, refusalAge' = [refusalAge EXCEPT ![v] = 0],
                 k2 = [k EXCEPT !.spoiled = k.spoiled \cup {v}], k.pc = "sent"
          PROVE  /\ Whole(k2) /\ SpoiledOf(k2, refusalAge') /\ k2.pc = k.pc /\ k2.at = k.at
                 /\ k2.kind = k.kind /\ k2.build = k.build /\ k2.signed = k.signed
                 /\ k2.refusals = k.refusals
      <4>1. PICK spoiled \in SUBSET Validators : spoiled = k.spoiled \cup {v}
        BY <2>2 DEF CallRecord
      <4>2. k2 = [k EXCEPT !.spoiled = spoiled]
        BY <3>2, <4>1
      <4>3. /\ k2 \in CallRecord /\ k2.kind = k.kind /\ k2.pc = k.pc /\ k2.left = k.left
            /\ k2.at = k.at /\ k2.everyOneRefused = k.everyOneRefused /\ k2.last = k.last
            /\ k2.first = k.first /\ k2.signed = k.signed /\ k2.build = k.build
            /\ k2.refusedEpoch = k.refusedEpoch /\ k2.spoiled = spoiled
            /\ k2.refusals = k.refusals /\ k2.result = k.result
        BY <2>2, <4>2 DEF CallRecord
      <4>4. Whole(k2)
        BY <2>2, <3>2, <4>1, <4>3 DEF Whole, Answers
      <4>5. SpoiledOf(k2, refusalAge')
        BY <1>3, <2>2, <3>2, <4>1, <4>3 DEF SpoiledOf
      <4> QED
        BY <4>3, <4>4, <4>5
    <3> QED
      BY <2>3, <3>1, <3>2
  <2>5. PICK R, L, R2, L2, x : R = ran /\ L = lost /\ R2 = ran' /\ L2 = lost' /\ x = Session(c)
    OBVIOUS
  <2>6. x[1] # d /\ L \subseteq L2 /\ (R2 = R \/ R2 = R \cup {x})
    BY <1>2, <2>5 DEF Session
  <2>7. RanOf(d, k, R \cup {x}, L2) /\ RanOf(d, k, R, L2)
    BY <2>2, <2>5, <2>6, RanOthers
  <2>8. RanOf(d, k2, R2, L2)
    BY <2>4, <2>6, <2>7 DEF RanOf, InOrder, Signs
  <2> QED
    BY <2>1, <2>4, <2>5, <2>8 DEF StepOK
<1>5. AgesInv'
  <2>1. CASE UNCHANGED <<refused, refusalAge>>
    BY <1>0, <2>1 DEF AgesInv
  <2>2. ASSUME NEW v \in Validators, refused' = [refused EXCEPT ![v] = 0],
               refusalAge' = [refusalAge EXCEPT ![v] = 0]
        PROVE  AgesInv'
    BY <1>0, <1>3, <2>2 DEF AgesInv
  <2> QED
    BY <1>2, <2>1, <2>2
<1>6. TypeOK'
  <2>1. \A d \in Calls : StepOK(d)
    BY <1>1, <1>4
  <2>2. \A d \in Calls :
           call'[d] \in CallRecord /\ (call'[d].pc = "done" <=> call'[d].result # "none")
    BY <2>1 DEF StepOK, Whole
  <2>3. call' \in [Calls -> CallRecord]
    BY <1>3, <2>2
  <2>4. refused' \in [Validators -> Ages] /\ refusalAge' \in [Validators -> Ages]
    BY <1>2, <1>3
  <2>5. ran' \subseteq Calls \X Nat \X Epochs /\ lost' \subseteq ran'
    <3>1. call[c].build \in Nat /\ epoch \in Epochs
      <4>1. call[c] \in CallRecord /\ epoch \in Epochs
        BY <1>0 DEF TypeOK
      <4> QED
        BY <4>1 DEF CallRecord
    <3>2. call[c].signed = epoch => Session(c) \in Calls \X Nat \X Epochs
      BY <3>1 DEF Session
    <3> QED
      BY <1>0, <1>2, <3>2 DEF TypeOK
  <2> QED
    BY <1>0, <1>2, <2>2, <2>3, <2>4, <2>5 DEF TypeOK
<1> QED
  BY <1>1, <1>4, <1>5, <1>6

\* The steps in which no call moves and nothing is recorded.
LEMMA NetworkStepKeeps ==
    ASSUME IInv, UNCHANGED <<refused, refusalAge, call, ran, lost>>,
           UNCHANGED netVars \/ NextEpoch,
           closed' \in BOOLEAN
    PROVE  TypeOK' /\ AgesInv' /\ \A c \in Calls : StepOK(c)
<1>0. TypeOK /\ AgesInv
  BY DEF IInv
<1>1. AgesInv'
  BY <1>0 DEF AgesInv
<1>2. epoch' \in Epochs /\ chainEpoch' \in Epochs /\ closing' \in BOOLEAN
  <2>1. CASE NextEpoch
    <3>1. closing' \in BOOLEAN
      BY <1>0, <2>1 DEF NextEpoch, TypeOK
    <3>2. \/ UNCHANGED <<epoch, chainEpoch>>
          \/ epoch < MaxEpoch /\ chainEpoch' = epoch + 1 /\ epoch' = epoch
          \/ epoch' = chainEpoch /\ chainEpoch' = chainEpoch
      BY <2>1 DEF NextEpoch
    <3>3. epoch \in Epochs /\ chainEpoch \in Epochs /\ MaxEpoch \in Nat
      BY <1>0, CallsAssumption DEF TypeOK
    <3> QED
      BY <3>1, <3>2, <3>3 DEF Epochs
  <2>2. CASE UNCHANGED <<epoch, chainEpoch, closing>>
    BY <1>0, <2>2 DEF TypeOK
  <2> QED
    BY <2>1, <2>2 DEF netVars
<1>3. TypeOK'
  BY <1>0, <1>2 DEF TypeOK
<1>4. ASSUME NEW c \in Calls PROVE StepOK(c)
  BY DEF IInv, StepOK
<1> QED
  BY <1>1, <1>3, <1>4

\* Every step keeps the invariant, and does what the action properties say.
LEMMA StepKeeps == IInv /\ [Next]_vars => IInv' /\ \A c \in Calls : StepOK(c)
<1> SUFFICES ASSUME IInv, [Next]_vars PROVE IInv' /\ \A c \in Calls : StepOK(c)
  OBVIOUS
<1>1. TypeOK' /\ AgesInv' /\ \A c \in Calls : StepOK(c)
  <2>0. closed \in BOOLEAN
    BY DEF IInv, TypeOK
  <2>1. CASE \E c \in Calls : CallStep(c)
    BY <2>1, CallStepKeeps
  <2>2. CASE Tick
    BY <2>2, TickKeeps
  <2>3. CASE Close
    BY <2>3, NetworkStepKeeps DEF Close
  <2>4. CASE NextEpoch
    BY <2>0, <2>4, NetworkStepKeeps DEF NextEpoch
  <2>5. CASE UNCHANGED vars
    BY <2>0, <2>5, NetworkStepKeeps DEF vars
  <2> QED
    BY <2>1, <2>2, <2>3, <2>4, <2>5 DEF Next, CallStep
<1>2. \A c \in Calls : Whole(call'[c]) /\ SpoiledOf(call'[c], refusalAge')
                       /\ RanOf(c, call'[c], ran', lost')
  BY <1>1 DEF StepOK
<1>3. IInv'
  BY <1>1, <1>2 DEF IInv
<1> QED
  BY <1>1, <1>3

\* At the start no call runs, and no key was refused.
LEMMA Initially == Init => IInv
<1> SUFFICES ASSUME Init PROVE IInv
  OBVIOUS
<1>0. /\ MaxEpoch \in Nat \ {0} /\ RefusalMaxAge \in Nat \ {0}
      /\ ValidatorCount \in Nat \ {0}
  BY CallsAssumption
<1>1. ASSUME NEW c \in Calls PROVE Whole(call[c]) /\ call[c].pc = "idle"
  <2>1. PICK z \in 0 .. MaxEpoch : z = 0 /\ z \in Nat /\ z \in Int
    BY <1>0
  <2>2. PICK v \in Validators : v = 0
    BY <1>0 DEF Validators
  <2>3. PICK k : k =
          [kind |-> "submit", pc |-> "idle", left |-> <<>>, at |-> v,
           everyOneRefused |-> TRUE, last |-> "none", first |-> TRUE, signed |-> z,
           build |-> z, refusedEpoch |-> z, remaining |-> z, wakeIn |-> z,
           spoiled |-> {}, refusals |-> {}, result |-> "none"]
    OBVIOUS
  <2>4. call[c] = k
    BY <2>1, <2>2, <2>3 DEF Init
  <2>5. "submit" \in Kinds /\ <<>> \in Seq(Validators)
    BY DEF Kinds
  <2>6. k \in CallRecord
    BY <2>3, <2>5, z \in 0 .. MaxEpoch, <2>1 DEF CallRecord
  <2> QED
    BY <2>3, <2>4, <2>6 DEF Whole
<1>2. TypeOK
  <2>1. call \in [Calls -> CallRecord]
    <3>1. call = [c \in Calls |-> call[c]]
      BY DEF Init
    <3> QED
      BY <1>1, <3>1 DEF Whole
  <2>2. epoch \in Epochs /\ chainEpoch \in Epochs
    BY <1>0 DEF Init, Epochs
  <2>3. refused \in [Validators -> Ages] /\ refusalAge \in [Validators -> Ages]
    BY <1>0 DEF Init, Ages
  <2>4. \A c \in Calls : call[c].pc = "done" <=> call[c].result # "none"
    BY <1>1 DEF Whole
  <2> QED
    BY <2>1, <2>2, <2>3, <2>4 DEF Init, TypeOK
<1>3. AgesInv
  BY <1>0 DEF Init, AgesInv
<1>4. \A c \in Calls : SpoiledOf(call[c], refusalAge)
  BY <1>1 DEF SpoiledOf
<1>5. \A c \in Calls : RanOf(c, call[c], ran, lost)
  BY DEF Init, RanOf, InOrder
<1> QED
  BY <1>1, <1>2, <1>3, <1>4, <1>5 DEF IInv

-----------------------------------------------------------------------------
(* Theorems.                                                               *)

\* The invariant holds of every reachable state.
THEOREM Invariance == Spec => []IInv
<1>1. IInv /\ [Next]_vars => IInv'
  BY StepKeeps
<1> QED
  BY <1>1, Initially, PTL DEF Spec

\* The calls, the record of refusals and the sessions have their types.
THEOREM TypeCorrect == Spec => []TypeOK
<1>1. IInv => TypeOK
  BY DEF IInv
<1> QED
  BY <1>1, Invariance, PTL

\* everyValidatorRefused is answered only when the check refused the key of every
\* validator less than the maximum age before the attempt began or since, however many
\* calls share the record and whenever a key goes bad.
THEOREM RefusedIsRecent == Spec => []EveryRefusedIsRecent
<1>1. IInv => EveryRefusedIsRecent
  BY DEF IInv, Whole, EveryRefusedIsRecent
<1> QED
  BY <1>1, Invariance, PTL

\* A request runs again only in a later epoch, after a refusal of the earlier one and
\* the loss of its answer.
THEOREM RunsTwiceAfterLoss == Spec => []RunsAgainOnlyAfterLoss
<1>1. IInv => RunsAgainOnlyAfterLoss
  <2> SUFFICES ASSUME IInv, NEW s \in ran, NEW t \in ran, s[1] = t[1], s[2] < t[2]
               PROVE  s[3] < t[3] /\ s[3] \in call[s[1]].refusals /\ s \in lost
    BY DEF RunsAgainOnlyAfterLoss
  <2>1. s[1] \in Calls
    BY DEF IInv, TypeOK
  <2>2. InOrder(s[1], call[s[1]].refusals, ran, lost)
    BY <2>1 DEF IInv, RanOf
  <2> QED
    BY <2>2 DEF InOrder
<1> QED
  BY <1>1, Invariance, PTL

\* No request is signed for an epoch at or below one that refused it.
THEOREM EpochsClimb == Spec => SignedEpochsClimb
<1>1. IInv /\ [Next]_vars =>
         [\A c \in Calls : call'[c].pc = "build" /\ call[c].pc # "build" =>
             \A e \in call[c].refusals : call'[c].signed > e]_vars
  BY StepKeeps DEF StepOK
<1> QED
  BY <1>1, Invariance, PTL DEF Spec, SignedEpochsClimb

\* A validator in the record of refusals is not asked, whichever call recorded it.
THEOREM RefusedNotAsked == Spec => RefusedAreNotAsked
<1>1. IInv /\ [Next]_vars =>
         [\A c \in Calls :
             call'[c].pc = "sent" /\ (call[c].pc # "sent" \/ call'[c].at # call[c].at) =>
                 refused'[call'[c].at] >= RefusalMaxAge]_vars
  BY StepKeeps DEF StepOK
<1> QED
  BY <1>1, Invariance, PTL DEF Spec, RefusedAreNotAsked

===============================================================================
