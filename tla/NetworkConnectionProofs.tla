---------------------- MODULE NetworkConnectionProofs ----------------------
(***************************************************************************)
(* Proofs about NetworkConnection, for any number of callers and           *)
(* connections, any windows and any lag of the endpoints.                  *)
(*                                                                         *)
(* What a connection knows is proved step by step along its job: which     *)
(* answers of the endpoint that does not lie it holds, which proof it has  *)
(* checked, and whose registration it is reading. The facts are stated for *)
(* a job k at a stage s of the chain, on a network n with a liar l, so     *)
(* that they apply to the job before and after a step.                     *)
(***************************************************************************)
EXTENDS NetworkConnection, TLAPS

-----------------------------------------------------------------------------
(* The inductive invariant.                                                *)

\* Crossed, for a network.
CrossedOn(n, what) == CrossCheck /\ (what = "epoch" \/ n = "custom")

\* An answer about a key's account: the endpoint that does not lie shows an
\* account for the network's key only.
KeyAnswered(e, a, key, l) ==
    /\ a.position = 0
    /\ a.value.digest = None => a.value = NoRecord
    /\ l # e => a.value = NoRecord \/ (key = Genuine /\ a.value.digest = "dkg")

\* An answer about the epoch: not yet given, which only a first read leaves open,
\* or, of the endpoint that does not lie, an epoch the chain has shown.
EpochAnswered(e, a, read, s, n, l) ==
    \/ /\ a.position = 0
       /\ CrossedOn(n, "epoch") => e \in read.waits /\ read.target = 0
    \/ /\ a.position >= 1
       /\ a.value.digest = "epoch"
       /\ l # e => a.position <= EpochAt(s)

ReadOf(k, s, n, l) ==
    k.pc \in ReadSteps =>
        /\ k.read.what = IF k.pc = "epoch" THEN "epoch" ELSE "key"
        /\ \A e \in Endpoints :
              IF k.pc = "epoch" THEN EpochAnswered(e, k.read.answers[e], k.read, s, n, l)
              ELSE KeyAnswered(e, k.read.answers[e], k.read.key, l)

\* The reads that a lying first endpoint cannot decide alone.
Guarded(n) == CrossCheck \/ n = "listed"

DkgSigned(k, s) == k.served.dkg = "dkg" /\ s >= 2
ReshareSigned(k, s) == k.served.reshare = "reshare" /\ k.served.epoch = 2 /\ s >= 5

\* From the step that the key was found registered, it is the network's; the
\* epoch read before was shown.
KeyOf(k, s) ==
    /\ k.pc \in {"epoch", "serve", "dkg", "dkgSigner", "reshare", "reshareSigner", "up"} =>
          k.key = Genuine
    /\ /\ k.pc \in {"serve", "dkg", "dkgSigner", "reshare", "reshareSigner", "up"}
       /\ k.kind = "engine" /\ CrossCheck
       => k.epoch \in 1 .. EpochAt(s)

\* What is served is for the key. A signature of the network's key is of what the
\* network made; a signer that passes is the network's key.
ServedOf(k, s, n) ==
    /\ k.pc \in {"dkg", "dkgSigner", "reshare", "reshareSigner", "up"} =>
          k.served \in Outputs /\ k.served.key = Genuine
    /\ k.pc \in {"reshare", "reshareSigner"} => k.served.reshare # None
    /\ k.pc \in {"dkgSigner", "reshareSigner"} /\ n = "listed" => k.read.key = Genuine
    /\ k.pc = "dkgSigner" /\ k.read.key = Genuine => DkgSigned(k, s)
    /\ k.pc = "reshareSigner" /\ k.read.key = Genuine => ReshareSigned(k, s)
    /\ k.pc \in {"reshare", "reshareSigner", "up"} /\ Guarded(n) => DkgSigned(k, s)
    /\ k.pc = "up" /\ Guarded(n) /\ k.served.reshare # None => ReshareSigned(k, s)

\* Only a liar makes two answers disagree.
WhyOf(k, l) == k.why = "disagree" => l # "nobody"

Sound(k, s, n, l) ==
    /\ ReadOf(k, s, n, l)
    /\ KeyOf(k, s)
    /\ ServedOf(k, s, n)
    /\ WhyOf(k, l)

\* A connection that has not failed is the one kept for its key.
KeptInv ==
    \A j \in Jobs :
        jobs[j].kind = "engine" /\ jobs[j].pc # "failed" =>
            jobs[j].key \in Keys /\ engines[jobs[j].key] = j

IInv ==
    /\ TypeOK
    /\ \A j \in Jobs : Sound(jobs[j], stage, network, liar)
    /\ KeptInv

-----------------------------------------------------------------------------
(* Types of what is read.                                                  *)

\* The constants are of their types.
LEMMA Constants ==
    /\ NoRecord \in Records
    /\ NoRead \in Reads
    /\ NoJob \in JobRecords
    /\ Genuine \in Keys /\ Forged \in Keys
  <1>1. NoRecord \in Records
    BY DEF NoRecord, Records, Digests, Unsigned
  <1>2. Window \in Nat /\ Budget \in Nat
    BY ConnectionAssumption
  <1>3. NoRead \in Reads
    <2>1. [e \in Endpoints |-> [position |-> 0, value |-> NoRecord]]
             \in [Endpoints -> [position : Nat, value : Records]]
      BY <1>1
    <2> QED BY <1>2, <2>1 DEF NoRead, Reads
  <1>4. NoJob \in JobRecords
    <2>1. NoServed \in [key : Keys \cup {None}, dkg : Digests, reshare : Digests, epoch : Nat]
      BY DEF NoServed, Digests
    <2> QED BY <1>2, <1>3, <2>1 DEF NoJob, JobRecords
  <1> QED BY <1>1, <1>3, <1>4 DEF Keys

\* What the chain holds of a key, and of a reshare.
LEMMA ChainRecords ==
    ASSUME NEW s \in Nat, NEW key, NEW epoch
    PROVE  /\ KeyAt(s, key) \in Records
           /\ ReshareAt(s, epoch) \in Records
           /\ KeyAt(s, key) = NoRecord \/ (key = Genuine /\ KeyAt(s, key).digest = "dkg")
  <1>1. Unsigned \in [signer : Keys \cup {None},
              message : [kind : {None, "bad", "dkg", "reshare"}, epoch : Nat, digest : Digests]]
    BY DEF Unsigned, Digests
  <1>2. [signer |-> Genuine, message |-> DkgMessage("dkg")] \in [signer : Keys \cup {None},
              message : [kind : {None, "bad", "dkg", "reshare"}, epoch : Nat, digest : Digests]]
    BY DEF DkgMessage, Digests, Keys
  <1>3. [signer |-> Genuine, message |-> ReshareMessage(2, "reshare")] \in [signer : Keys \cup {None},
              message : [kind : {None, "bad", "dkg", "reshare"}, epoch : Nat, digest : Digests]]
    BY DEF ReshareMessage, Digests, Keys
  <1>4. KeyAt(s, key) \in Records
    BY <1>1, <1>2, Constants DEF KeyAt, Records, Digests
  <1>5. ReshareAt(s, epoch) \in Records
    BY <1>1, <1>3, Constants DEF ReshareAt, Records, Digests
  <1>6. KeyAt(s, key) = NoRecord \/ (key = Genuine /\ KeyAt(s, key).digest = "dkg")
    BY DEF KeyAt
  <1> QED BY <1>4, <1>5, <1>6

\* An endpoint's answer about a key's account.
LEMMA KeyAnswerFits ==
    ASSUME stage \in 0 .. LastStage, NEW e \in Endpoints, NEW key,
           NEW a \in KeyAnswers(e, key)
    PROVE  /\ a \in [position : Nat, value : Records]
           /\ KeyAnswered(e, a, key, liar)
  <1>1. PICK v \in IF liar = e
                   THEN {NoRecord, KeyAt(LastStage, Genuine), [digest |-> "fake", proof |-> Unsigned]}
                   ELSE {KeyAt(s, key) : s \in 0 .. stage} :
           a = [position |-> 0, value |-> v]
    BY DEF KeyAnswers
  <1>2. [digest |-> "fake", proof |-> Unsigned] \in Records
    BY DEF Unsigned, Records, Digests
  <1>3. v \in Records
    <2>1. CASE liar = e
      BY <1>1, <1>2, <2>1, Constants, ChainRecords DEF LastStage
    <2>2. CASE liar # e
      BY <1>1, <2>2, ChainRecords DEF LastStage
    <2> QED BY <2>1, <2>2
  <1>4. v.digest = None => v = NoRecord
    <2>1. CASE liar = e
      <3>1. KeyAt(LastStage, Genuine).digest = "dkg" \/ KeyAt(LastStage, Genuine) = NoRecord
        BY ChainRecords DEF LastStage
      <3> QED BY <1>1, <2>1, <3>1 DEF None
    <2>2. CASE liar # e
      BY <1>1, <2>2, ChainRecords DEF LastStage, None
    <2> QED BY <2>1, <2>2
  <1>5. liar # e => v = NoRecord \/ (key = Genuine /\ v.digest = "dkg")
    BY <1>1, ChainRecords DEF LastStage
  <1> QED BY <1>1, <1>3, <1>4, <1>5 DEF KeyAnswered

\* An endpoint's answer about the epoch.
LEMMA EpochAnswerFits ==
    ASSUME stage \in 0 .. LastStage, NEW e \in Endpoints, NEW a \in EpochAnswers(e)
    PROVE  /\ a \in [position : Nat, value : Records]
           /\ a.position >= 1 /\ a.value.digest = "epoch"
           /\ liar # e => a.position <= EpochAt(stage)
  <1>1. PICK p \in IF liar = e THEN 1 .. 3 ELSE {EpochAt(s) : s \in 0 .. stage} :
           a = [position |-> p, value |-> [digest |-> "epoch", proof |-> Unsigned]]
    BY DEF EpochAnswers
  <1>2. p \in Nat /\ p >= 1 /\ (liar # e => p <= EpochAt(stage))
    BY <1>1 DEF EpochAt, LastStage
  <1>3. [digest |-> "epoch", proof |-> Unsigned] \in Records
    BY DEF Unsigned, Records, Digests
  <1> QED BY <1>1, <1>2, <1>3

-----------------------------------------------------------------------------
(* The steps of a job.                                                     *)

\* A step of a job that goes on keeps its key, and what it knows is sound.
GoesOnAs(k, k2, s, n, l) ==
    /\ k2 \in JobRecords
    /\ k2.kind = k.kind /\ k2.key = k.key
    /\ k2.pc # "failed"
    /\ Sound(k2, s, n, l)

\* A step that only changes the answers, the waits, the times of a read.
LEMMA SameStep ==
    ASSUME NEW k \in JobRecords, NEW k2 \in JobRecords, NEW s, NEW n, NEW l,
           Sound(k, s, n, l), k.pc # "failed",
           k2.kind = k.kind, k2.key = k.key, k2.pc = k.pc, k2.why = k.why,
           k2.served = k.served, k2.epoch = k.epoch, k2.read.key = k.read.key,
           ReadOf(k2, s, n, l)
    PROVE  GoesOnAs(k, k2, s, n, l)
  <1>1. KeyOf(k2, s)
    BY DEF Sound, KeyOf
  <1>2. ServedOf(k2, s, n)
    BY DEF Sound, ServedOf, DkgSigned, ReshareSigned
  <1>3. WhyOf(k2, l)
    BY DEF Sound, WhyOf
  <1> QED BY <1>1, <1>2, <1>3 DEF GoesOnAs, Sound

\* ReadAnswers.
LEMMA AnswerStep ==
    ASSUME NEW k \in JobRecords, NEW s \in Nat, NEW n, NEW l, Sound(k, s, n, l),
           k.pc \in ReadSteps, NEW e \in k.read.waits,
           NEW a \in [position : Nat, value : Records],
           IF k.pc = "epoch"
           THEN a.position >= 1 /\ a.value.digest = "epoch" /\ (l # e => a.position <= EpochAt(s))
           ELSE KeyAnswered(e, a, k.read.key, l)
    PROVE  GoesOnAs(k, [k EXCEPT !.read.waits = @ \ {e},
                            !.read.answers[e] = IF a.position >= k.read.target THEN a ELSE @],
                    s, n, l)
  <1>1. PICK r : r = k.read /\ r \in Reads
    BY DEF JobRecords
  <1>2. e \in Endpoints
    BY <1>1 DEF Reads
  <1>3. PICK r2 : r2 = [r EXCEPT !.waits = @ \ {e},
                            !.answers[e] = IF a.position >= r.target THEN a ELSE @]
    OBVIOUS
  <1>4. r2 \in Reads /\ r2.what = r.what /\ r2.key = r.key /\ r2.target = r.target
          /\ r2.waits = r.waits \ {e}
    <2>1. [r.answers EXCEPT ![e] = IF a.position >= r.target THEN a ELSE @]
             \in [Endpoints -> [position : Nat, value : Records]]
      BY <1>1, <1>2 DEF Reads
    <2> QED BY <1>1, <1>2, <1>3, <2>1 DEF Reads
  <1>5. \A f \in Endpoints : r2.answers[f] =
            IF f = e /\ a.position >= r.target THEN a ELSE r.answers[f]
    BY <1>1, <1>2, <1>3 DEF Reads
  <1>6. PICK k2 : k2 = [k EXCEPT !.read = r2]
    OBVIOUS
  <1>7. k2 = [k EXCEPT !.read.waits = @ \ {e},
                  !.read.answers[e] = IF a.position >= k.read.target THEN a ELSE @]
    BY <1>1, <1>3, <1>6
  <1>8. k2 \in JobRecords /\ k2.read = r2 /\ k2.kind = k.kind /\ k2.key = k.key /\ k2.pc = k.pc
          /\ k2.why = k.why /\ k2.served = k.served /\ k2.epoch = k.epoch
    BY <1>4, <1>6 DEF JobRecords
  <1>9. ReadOf(k2, s, n, l)
    <2>1. k2.read.what = IF k2.pc = "epoch" THEN "epoch" ELSE "key"
      BY <1>1, <1>4, <1>8 DEF Sound, ReadOf
    <2>2. CASE k.pc = "epoch"
      <3> SUFFICES ASSUME NEW f \in Endpoints
                   PROVE  EpochAnswered(f, r2.answers[f], r2, s, n, l)
        BY <1>8, <2>1, <2>2 DEF ReadOf
      <3>1. EpochAnswered(f, r.answers[f], r, s, n, l)
        BY <1>1, <2>2 DEF Sound, ReadOf
      <3>2. CASE f = e /\ a.position >= r.target
        BY <1>5, <2>2, <3>2 DEF EpochAnswered
      <3>3. CASE ~(f = e /\ a.position >= r.target)
        <4>1. r2.answers[f] = r.answers[f]
          BY <1>5, <3>3
        <4>2. r.target \in Nat /\ a.position \in Nat
          BY <1>1 DEF Reads
        <4>3. f = e => r.target # 0
          BY <2>2, <3>3, <4>2
        <4> QED BY <1>4, <3>1, <4>1, <4>3 DEF EpochAnswered
      <3> QED BY <3>2, <3>3
    <2>3. CASE k.pc # "epoch"
      BY <1>1, <1>4, <1>5, <1>8, <2>1, <2>3 DEF Sound, ReadOf, KeyAnswered
    <2> QED BY <2>2, <2>3
  <1>10. k.pc # "failed"
    BY DEF ReadSteps
  <1>11. k2.read.key = k.read.key
    BY <1>1, <1>4, <1>8
  <1> QED BY <1>7, <1>8, <1>9, <1>10, <1>11, SameStep

\* A new cross-checked or single read, before any answer.
LEMMA ReadingFits ==
    ASSUME TypeOK, NEW what \in {"key", "epoch"}, NEW key \in Keys \cup {None}
    PROVE  LET r == Reading(what, key) IN
           /\ r \in Reads
           /\ r.what = what /\ r.key = key
           /\ \A e \in Endpoints :
                 /\ r.answers[e] = [position |-> 0, value |-> NoRecord]
                 /\ KeyAnswered(e, r.answers[e], key, liar)
                 /\ what = "epoch" => EpochAnswered(e, r.answers[e], r, stage, network, liar)
  <1>1. PICK r : r = Reading(what, key)
    OBVIOUS
  <1>2. Window \in Nat
    BY ConnectionAssumption
  <1>3. NoRead \in Reads
    BY Constants
  <1>4. r \in Reads /\ r.what = what /\ r.key = key /\ r.target = 0
          /\ r.answers = [e \in Endpoints |-> [position |-> 0, value |-> NoRecord]]
          /\ r.waits = IF Crossed(what) THEN Endpoints ELSE {"first"}
    <2>1. PICK no : no = NoRead
      OBVIOUS
    <2>2. no \in Reads /\ no.target = 0
            /\ no.answers = [e \in Endpoints |-> [position |-> 0, value |-> NoRecord]]
      BY <1>3, <2>1 DEF NoRead
    <2>3. PICK w : w = IF Crossed(what) THEN Endpoints ELSE {"first"}
      OBVIOUS
    <2>4. PICK d : d = IF Crossed(what) THEN Window ELSE 0
      OBVIOUS
    <2>5. w \in SUBSET Endpoints /\ d \in 0 .. Window
      BY <1>2, <2>3, <2>4 DEF Endpoints
    <2>6. r = [no EXCEPT !.what = what, !.key = key, !.waits = w, !.window = d]
      BY <1>1, <2>1, <2>3, <2>4 DEF Reading
    <2>7. /\ r \in Reads
          /\ r.what = what /\ r.key = key /\ r.waits = w
          /\ r.target = no.target /\ r.answers = no.answers
      BY <2>2, <2>5, <2>6 DEF Reads
    <2> QED BY <2>2, <2>3, <2>7
  <1>5. ASSUME NEW e \in Endpoints
        PROVE  /\ r.answers[e] = [position |-> 0, value |-> NoRecord]
               /\ KeyAnswered(e, r.answers[e], key, liar)
               /\ what = "epoch" => EpochAnswered(e, r.answers[e], r, stage, network, liar)
    BY <1>4, <1>5 DEF KeyAnswered, EpochAnswered, CrossedOn, Crossed
  <1> QED BY <1>1, <1>4, <1>5

\* Compare, when the endpoint that lags is read again.
LEMMA RereadStep ==
    ASSUME NEW k \in JobRecords, NEW s \in Nat, NEW n, NEW l, Sound(k, s, n, l),
           k.pc \in ReadSteps, k.read.waits = {}, CrossedOn(n, k.read.what),
           k.read.window >= 1, NEW lag \in Endpoints, NEW target \in Nat, NEW left \in 0 .. Budget
    PROVE  GoesOnAs(k, [k EXCEPT !.read.waits = {lag}, !.read.window = @ - 1, !.left = left,
                            !.read.target = target],
                    s, n, l)
  <1>1. PICK r : r = k.read /\ r \in Reads
    BY DEF JobRecords
  <1>2. PICK r2 : r2 = [r EXCEPT !.waits = {lag}, !.window = @ - 1, !.target = target]
    OBVIOUS
  <1>3. r.window - 1 \in 0 .. Window
    BY <1>1, ConnectionAssumption DEF Reads
  <1>4. r2 \in Reads /\ r2.what = r.what /\ r2.key = r.key /\ r2.answers = r.answers
    BY <1>1, <1>2, <1>3 DEF Reads
  <1>5. PICK k2 : k2 = [k EXCEPT !.read = r2, !.left = left]
    OBVIOUS
  <1>6. k2 = [k EXCEPT !.read.waits = {lag}, !.read.window = @ - 1, !.left = left,
                  !.read.target = target]
    BY <1>1, <1>2, <1>5 DEF JobRecords, Reads
  <1>7. k2 \in JobRecords /\ k2.read = r2 /\ k2.kind = k.kind /\ k2.key = k.key /\ k2.pc = k.pc
          /\ k2.why = k.why /\ k2.served = k.served /\ k2.epoch = k.epoch
    BY <1>4, <1>5 DEF JobRecords
  <1>8. ReadOf(k2, s, n, l)
    <2>1. k2.read.what = IF k2.pc = "epoch" THEN "epoch" ELSE "key"
      BY <1>1, <1>4, <1>7 DEF Sound, ReadOf
    <2>2. CASE k.pc = "epoch"
      <3> SUFFICES ASSUME NEW f \in Endpoints
                   PROVE  EpochAnswered(f, r2.answers[f], r2, s, n, l)
        BY <1>7, <2>1, <2>2 DEF ReadOf
      <3>1. EpochAnswered(f, r.answers[f], r, s, n, l)
        BY <1>1, <2>2 DEF Sound, ReadOf
      <3>2. CrossedOn(n, "epoch")
        BY <2>1, <2>2, <1>7, <1>4, <1>1
      <3> QED BY <1>1, <1>4, <3>1, <3>2 DEF EpochAnswered
    <2>3. CASE k.pc # "epoch"
      BY <1>1, <1>4, <1>7, <2>1, <2>3 DEF Sound, ReadOf
    <2> QED BY <2>2, <2>3
  <1>9. k.pc # "failed"
    BY DEF ReadSteps
  <1>10. k2.read.key = k.read.key
    BY <1>1, <1>4, <1>7
  <1> QED BY <1>6, <1>7, <1>8, <1>9, <1>10, SameStep

\* Both endpoints, of which one does not lie, show one account for the key that
\* is read, or no other key could sign on a listed network.
LEMMA SignerIsGenuine ==
    ASSUME NEW k \in JobRecords, NEW s, NEW n \in {"custom", "listed"}, NEW l,
           Sound(k, s, n, l), k.pc \in {"dkgSigner", "reshareSigner"}, Guarded(n),
           ~CrossedOn(n, k.read.what) \/ Same(k.read.answers["first"], k.read.answers["second"]),
           k.read.answers["first"].value # NoRecord
    PROVE  k.read.key = Genuine
  <1>1. CASE n = "listed"
    BY <1>1 DEF Sound, ServedOf
  <1>2. CASE n # "listed"
    <2>1. PICK first, second : first = k.read.answers["first"] /\ second = k.read.answers["second"]
      OBVIOUS
    <2>2. Same(first, second)
      BY <1>2, <2>1 DEF Guarded, CrossedOn
    <2>3. KeyAnswered("first", first, k.read.key, l) /\ KeyAnswered("second", second, k.read.key, l)
      BY <2>1 DEF Sound, ReadOf, ReadSteps, Endpoints
    <2>4. NoRecord.digest = None
      BY DEF NoRecord
    <2> QED BY <2>1, <2>2, <2>3, <2>4 DEF KeyAnswered, Same
  <1> QED BY <1>1, <1>2

\* An epoch that a cross-checked read returns is one the chain has shown.
LEMMA EpochIsShown ==
    ASSUME NEW k \in JobRecords, NEW s \in Nat, NEW n, NEW l,
           Sound(k, s, n, l), k.pc = "epoch", k.read.waits = {}, CrossCheck,
           Same(k.read.answers["first"], k.read.answers["second"])
    PROVE  k.read.answers["first"].position \in 1 .. EpochAt(s)
  <1>1. PICK first, second : first = k.read.answers["first"] /\ second = k.read.answers["second"]
    OBVIOUS
  <1>2. /\ EpochAnswered("first", first, k.read, s, n, l)
        /\ EpochAnswered("second", second, k.read, s, n, l)
    BY <1>1 DEF Sound, ReadOf, ReadSteps, Endpoints
  <1>3. first.position \in Nat /\ EpochAt(s) \in Nat
    BY <1>1 DEF JobRecords, Reads, Endpoints, EpochAt
  <1>4. l # "first" \/ l # "second"
    OBVIOUS
  <1> QED BY <1>1, <1>2, <1>3, <1>4 DEF EpochAnswered, CrossedOn, Same

\* Two answers disagree only when an endpoint lies.
LEMMA DisagreementIsALie ==
    ASSUME NEW k \in JobRecords, NEW s \in Nat, NEW n, NEW l,
           Sound(k, s, n, l), k.pc \in ReadSteps, k.read.waits = {}, CrossedOn(n, k.read.what),
           ~Same(k.read.answers["first"], k.read.answers["second"]),
           Lagging(k.read) = None
    PROVE  l # "nobody"
  <1> SUFFICES ASSUME l = "nobody" PROVE FALSE
    OBVIOUS
  <1>1. PICK first, second : first = k.read.answers["first"] /\ second = k.read.answers["second"]
    OBVIOUS
  <1>2. /\ first.position \in Nat /\ second.position \in Nat
    BY <1>1 DEF JobRecords, Reads, Endpoints
  <1>3. /\ first.value # NoRecord /\ second.value # NoRecord
        /\ ~(first.position < second.position) /\ ~(second.position < first.position)
    BY <1>1 DEF Lagging, None
  <1>4. CASE k.pc = "epoch"
    <2>1. /\ EpochAnswered("first", first, k.read, s, n, l)
          /\ EpochAnswered("second", second, k.read, s, n, l)
      BY <1>1, <1>4 DEF Sound, ReadOf, ReadSteps, Endpoints
    <2>2. k.read.what = "epoch"
      BY <1>4 DEF Sound, ReadOf, ReadSteps
    <2> QED BY <1>1, <1>2, <1>3, <2>1, <2>2 DEF EpochAnswered, Same
  <1>5. CASE k.pc # "epoch"
    <2>1. /\ KeyAnswered("first", first, k.read.key, l)
          /\ KeyAnswered("second", second, k.read.key, l)
      BY <1>1, <1>5 DEF Sound, ReadOf, Endpoints
    <2> QED BY <1>1, <1>3, <2>1 DEF KeyAnswered, Same
  <1> QED BY <1>4, <1>5

\* A job that holds no read.
LEMMA NoReadOf ==
    ASSUME NEW k \in JobRecords, NEW s, NEW n, NEW l, k.pc \notin ReadSteps
    PROVE  ReadOf(k, s, n, l)
  BY DEF ReadOf

\* Returns, for the epoch.
LEMMA EpochReturns ==
    ASSUME NEW k \in JobRecords, NEW s \in Nat, NEW n, NEW l,
           Sound(k, s, n, l), k.pc = "epoch", k.read.waits = {},
           ~CrossedOn(n, "epoch") \/ Same(k.read.answers["first"], k.read.answers["second"])
    PROVE  GoesOnAs(k, [k EXCEPT !.pc = "serve", !.read = NoRead,
                                 !.epoch = k.read.answers["first"].position], s, n, l)
  <1>1. PICK p : p = k.read.answers["first"].position /\ p \in Nat
    BY DEF JobRecords, Reads, Endpoints
  <1>2. PICK no : no = NoRead /\ no \in Reads
    BY Constants
  <1>3. PICK k2 : k2 = [k EXCEPT !.pc = "serve", !.read = no, !.epoch = p]
    OBVIOUS
  <1>4. k2 \in JobRecords /\ k2.kind = k.kind /\ k2.key = k.key /\ k2.pc = "serve"
          /\ k2.why = k.why /\ k2.served = k.served /\ k2.epoch = p
    BY <1>1, <1>2, <1>3 DEF JobRecords
  <1>5. CrossCheck => p \in 1 .. EpochAt(s)
    BY <1>1, EpochIsShown DEF CrossedOn
  <1>6. KeyOf(k2, s)
    BY <1>4, <1>5 DEF Sound, KeyOf
  <1>7. ReadOf(k2, s, n, l)
    BY <1>4, NoReadOf DEF ReadSteps
  <1>8. ServedOf(k2, s, n) /\ WhyOf(k2, l)
    BY <1>4 DEF Sound, ServedOf, WhyOf
  <1> QED BY <1>1, <1>2, <1>3, <1>4, <1>6, <1>7, <1>8 DEF GoesOnAs, Sound

\* Returns, for a registered key.
LEMMA RegisteredReturns ==
    ASSUME TypeOK, NEW k \in JobRecords, Sound(k, stage, network, liar), k.pc = "registered",
           k.key \in TrustedKeys
    PROVE  GoesOnAs(k, [k EXCEPT !.pc = "epoch", !.read = Reading("epoch", None)],
                    stage, network, liar)
  <1>1. PICK r : r = Reading("epoch", None) /\ r \in Reads /\ r.what = "epoch"
          /\ \A e \in Endpoints : EpochAnswered(e, r.answers[e], r, stage, network, liar)
    BY ReadingFits
  <1>2. PICK k2 : k2 = [k EXCEPT !.pc = "epoch", !.read = r]
    OBVIOUS
  <1>3. k2 \in JobRecords /\ k2.kind = k.kind /\ k2.key = k.key /\ k2.pc = "epoch"
          /\ k2.why = k.why /\ k2.read = r
    BY <1>1, <1>2 DEF JobRecords
  <1>4. ReadOf(k2, stage, network, liar)
    BY <1>1, <1>3 DEF ReadOf
  <1>5. KeyOf(k2, stage)
    BY <1>3 DEF KeyOf, TrustedKeys
  <1>6. ServedOf(k2, stage, network) /\ WhyOf(k2, liar)
    BY <1>3 DEF Sound, ServedOf, WhyOf
  <1> QED BY <1>1, <1>2, <1>3, <1>4, <1>5, <1>6 DEF GoesOnAs, Sound

\* Returns, for a signer that is registered: on to the reshare.
LEMMA DkgSignerReturns ==
    ASSUME NEW k \in JobRecords, NEW s \in Nat, NEW n \in {"custom", "listed"}, NEW l,
           Sound(k, s, n, l), k.pc = "dkgSigner", k.served.reshare # None,
           ~CrossedOn(n, k.read.what) \/ Same(k.read.answers["first"], k.read.answers["second"]),
           k.read.answers["first"].value # NoRecord
    PROVE  GoesOnAs(k, [k EXCEPT !.pc = "reshare", !.read = NoRead], s, n, l)
  <1>1. PICK no : no = NoRead /\ no \in Reads
    BY Constants
  <1>2. PICK k2 : k2 = [k EXCEPT !.pc = "reshare", !.read = no]
    OBVIOUS
  <1>3. k2 \in JobRecords /\ k2.kind = k.kind /\ k2.key = k.key /\ k2.pc = "reshare"
          /\ k2.why = k.why /\ k2.served = k.served /\ k2.epoch = k.epoch
    BY <1>1, <1>2 DEF JobRecords
  <1>4. Guarded(n) => DkgSigned(k, s)
    BY SignerIsGenuine DEF Sound, ServedOf
  <1>5. ServedOf(k2, s, n)
    BY <1>3, <1>4 DEF Sound, ServedOf, DkgSigned
  <1>6. KeyOf(k2, s) /\ WhyOf(k2, l)
    BY <1>3 DEF Sound, KeyOf, WhyOf
  <1>7. ReadOf(k2, s, n, l)
    BY <1>3, NoReadOf DEF ReadSteps
  <1> QED BY <1>1, <1>2, <1>3, <1>5, <1>6, <1>7 DEF GoesOnAs, Sound

\* Returns, for the last signer: the connection is up.
LEMMA SignerReturns ==
    ASSUME NEW k \in JobRecords, NEW s \in Nat, NEW n \in {"custom", "listed"}, NEW l,
           Sound(k, s, n, l),
           k.pc = "reshareSigner" \/ (k.pc = "dkgSigner" /\ k.served.reshare = None),
           ~CrossedOn(n, k.read.what) \/ Same(k.read.answers["first"], k.read.answers["second"]),
           k.read.answers["first"].value # NoRecord
    PROVE  GoesOnAs(k, [k EXCEPT !.pc = "up", !.read = NoRead, !.left = 0], s, n, l)
  <1>1. PICK no : no = NoRead /\ no \in Reads
    BY Constants
  <1>2. PICK z : z = 0 /\ z \in 0 .. Budget
    BY ConnectionAssumption
  <1>3. PICK k2 : k2 = [k EXCEPT !.pc = "up", !.read = no, !.left = z]
    OBVIOUS
  <1>4. k2 \in JobRecords /\ k2.kind = k.kind /\ k2.key = k.key /\ k2.pc = "up"
          /\ k2.why = k.why /\ k2.served = k.served /\ k2.epoch = k.epoch
    BY <1>1, <1>2, <1>3 DEF JobRecords
  <1>5. k.pc \in {"dkgSigner", "reshareSigner"}
    OBVIOUS
  <1>6. Guarded(n) => k.read.key = Genuine
    BY <1>5, SignerIsGenuine
  <1>7. Guarded(n) => DkgSigned(k, s) /\ (k.served.reshare # None => ReshareSigned(k, s))
    BY <1>6 DEF Sound, ServedOf
  <1>8. ServedOf(k2, s, n)
    BY <1>4, <1>5, <1>7 DEF Sound, ServedOf, DkgSigned, ReshareSigned
  <1>9. KeyOf(k2, s) /\ WhyOf(k2, l)
    BY <1>4, <1>5 DEF Sound, KeyOf, WhyOf
  <1>10. ReadOf(k2, s, n, l)
    BY <1>4, NoReadOf DEF ReadSteps
  <1> QED BY <1>1, <1>2, <1>3, <1>4, <1>8, <1>9, <1>10 DEF GoesOnAs, Sound

\* Serve, with an output for the key.
LEMMA ServeStep ==
    ASSUME NEW k \in JobRecords, NEW s, NEW n, NEW l, Sound(k, s, n, l), k.pc = "serve",
           NEW served \in Outputs, served.key = k.key
    PROVE  GoesOnAs(k, [k EXCEPT !.pc = "dkg", !.served = served, !.left = Budget], s, n, l)
  <1>1. served \in [key : Keys \cup {None}, dkg : Digests, reshare : Digests, epoch : Nat]
    BY DEF Outputs, Digests
  <1>2. Budget \in 0 .. Budget
    BY ConnectionAssumption
  <1>3. PICK k2 : k2 = [k EXCEPT !.pc = "dkg", !.served = served, !.left = Budget]
    OBVIOUS
  <1>4. k2 \in JobRecords /\ k2.kind = k.kind /\ k2.key = k.key /\ k2.pc = "dkg"
          /\ k2.why = k.why /\ k2.served = served /\ k2.epoch = k.epoch
    BY <1>1, <1>2, <1>3 DEF JobRecords
  <1>5. KeyOf(k2, s) /\ WhyOf(k2, l)
    BY <1>4 DEF Sound, KeyOf, WhyOf
  <1>6. ServedOf(k2, s, n)
    BY <1>4 DEF Sound, KeyOf, ServedOf
  <1>7. ReadOf(k2, s, n, l)
    BY <1>4, NoReadOf DEF ReadSteps
  <1> QED BY <1>3, <1>4, <1>5, <1>6, <1>7 DEF GoesOnAs, Sound

-----------------------------------------------------------------------------
(* Records and their proofs.                                               *)

\* What the network's key has signed by now.
LEMMA SignedByNow ==
    ASSUME stage \in 0 .. LastStage, NEW proof \in SignedAt(stage)
    PROVE  /\ proof.signer = Genuine
           /\ \/ proof.message = DkgMessage("dkg") /\ stage >= 2
              \/ proof.message = ReshareMessage(2, "reshare") /\ stage >= 5
  <1>1. \/ proof = [signer |-> Genuine, message |-> DkgMessage("dkg")] /\ stage >= 2
        \/ proof = [signer |-> Genuine, message |-> ReshareMessage(2, "reshare")] /\ stage >= 5
    BY DEF SignedAt, LastStage
  <1> QED BY <1>1

\* Messages that are the same are of the same record.
LEMMA MessagesTell ==
    ASSUME NEW d, NEW e, NEW d2, NEW e2
    PROVE  /\ DkgMessage(d) = DkgMessage(d2) => d = d2
           /\ ReshareMessage(e, d) = ReshareMessage(e2, d2) => d = d2 /\ e = e2
           /\ DkgMessage(d) # ReshareMessage(e, d2)
  <1>1. /\ DkgMessage(d).digest = d /\ DkgMessage(d2).digest = d2
        /\ ReshareMessage(e, d).digest = d /\ ReshareMessage(e2, d2).digest = d2
        /\ ReshareMessage(e, d).epoch = e /\ ReshareMessage(e2, d2).epoch = e2
        /\ DkgMessage(d).kind = "dkg" /\ ReshareMessage(e, d2).kind = "reshare"
    BY DEF DkgMessage, ReshareMessage
  <1> QED BY <1>1

\* A DKG record whose proof verifies, with the network's key as its signer, is
\* the one the network made.
LEMMA DkgRecordFits ==
    ASSUME stage \in 0 .. LastStage, NEW key, NEW record \in DkgRecords(key),
           record.proof \notin {Unsigned, Undecodable},
           record.proof.message = DkgMessage(record.digest)
    PROVE  /\ record.proof.signer \in Keys
           /\ record.proof.signer = Genuine => record.digest = "dkg" /\ stage >= 2
  <1>1. CASE liar # "first"
    <2>1. PICK s \in 0 .. stage : record = KeyAt(s, key)
      BY <1>1 DEF DkgRecords
    <2>2. record # NoRecord
      BY DEF NoRecord
    <2>3. s >= 2 /\ record = [digest |-> "dkg",
                    proof |-> [signer |-> Genuine, message |-> DkgMessage("dkg")]]
      BY <2>1, <2>2 DEF KeyAt, LastStage
    <2> QED BY <2>1, <2>3 DEF Keys, LastStage
  <1>2. CASE liar = "first"
    <2>1. \/ record = NoRecord
          \/ record.proof \in {Unsigned, Undecodable} \cup SignedAt(stage)
                \cup {[signer |-> Forged, message |-> DkgMessage(d)] : d \in {"dkg", "reshare", "fake"}}
      BY <1>2 DEF DkgRecords, Lies
    <2>2. record # NoRecord
      BY DEF NoRecord
    <2>3. CASE record.proof \in SignedAt(stage)
      BY <2>3, SignedByNow, MessagesTell DEF Keys
    <2>4. CASE \E d \in {"dkg", "reshare", "fake"} :
                  record.proof = [signer |-> Forged, message |-> DkgMessage(d)]
      BY <2>4, ConnectionAssumption DEF Keys
    <2> QED BY <2>1, <2>2, <2>3, <2>4
  <1> QED BY <1>1, <1>2

\* And a reshare record: made for the epoch it is read for.
LEMMA ReshareRecordFits ==
    ASSUME stage \in 0 .. LastStage, NEW epoch, NEW record \in ReshareRecords(epoch),
           record.proof \notin {Unsigned, Undecodable},
           record.proof.message = ReshareMessage(epoch, record.digest)
    PROVE  /\ record.proof.signer \in Keys
           /\ record.proof.signer = Genuine =>
                 record.digest = "reshare" /\ epoch = 2 /\ stage >= 5
  <1>1. CASE liar # "first"
    <2>1. PICK s \in 0 .. stage : record = ReshareAt(s, epoch)
      BY <1>1 DEF ReshareRecords
    <2>2. record # NoRecord
      BY DEF NoRecord
    <2>3. s >= 5 /\ epoch = 2 /\ record = [digest |-> "reshare",
                    proof |-> [signer |-> Genuine, message |-> ReshareMessage(2, "reshare")]]
      BY <2>1, <2>2 DEF ReshareAt, LastStage
    <2> QED BY <2>1, <2>3 DEF Keys, LastStage
  <1>2. CASE liar = "first"
    <2>1. \/ record = NoRecord
          \/ record.proof \in {Unsigned, Undecodable} \cup SignedAt(stage)
                \cup {[signer |-> Forged, message |-> ReshareMessage(epoch, d)] :
                         d \in {"dkg", "reshare", "fake"}}
      BY <1>2 DEF ReshareRecords, Lies
    <2>2. record # NoRecord
      BY DEF NoRecord
    <2>3. CASE record.proof \in SignedAt(stage)
      BY <2>3, SignedByNow, MessagesTell DEF Keys
    <2>4. CASE \E d \in {"dkg", "reshare", "fake"} :
                  record.proof = [signer |-> Forged, message |-> ReshareMessage(epoch, d)]
      BY <2>4, ConnectionAssumption DEF Keys
    <2> QED BY <2>1, <2>2, <2>3, <2>4
  <1> QED BY <1>1, <1>2

\* Judge, when the proof verifies: on to its signer.
LEMMA JudgeStep ==
    ASSUME TypeOK, NEW k \in JobRecords, Sound(k, stage, network, liar),
           k.pc \in {"dkg", "reshare"}, NEW signer \in Keys,
           network = "listed" => signer = Genuine,
           signer = Genuine =>
               IF k.pc = "dkg" THEN DkgSigned(k, stage) ELSE ReshareSigned(k, stage)
    PROVE  GoesOnAs(k, [k EXCEPT !.pc = IF @ = "dkg" THEN "dkgSigner" ELSE "reshareSigner",
                                 !.read = Reading("key", signer)],
                    stage, network, liar)
  <1>1. PICK r : r = Reading("key", signer) /\ r \in Reads /\ r.what = "key" /\ r.key = signer
          /\ \A e \in Endpoints : KeyAnswered(e, r.answers[e], signer, liar)
    BY ReadingFits
  <1>2. PICK next : next = IF k.pc = "dkg" THEN "dkgSigner" ELSE "reshareSigner"
    OBVIOUS
  <1>3. PICK k2 : k2 = [k EXCEPT !.pc = next, !.read = r]
    OBVIOUS
  <1>4. k2 = [k EXCEPT !.pc = IF @ = "dkg" THEN "dkgSigner" ELSE "reshareSigner", !.read = r]
    BY <1>2, <1>3
  <1>5. k2 \in JobRecords /\ k2.kind = k.kind /\ k2.key = k.key /\ k2.pc = next
          /\ k2.why = k.why /\ k2.served = k.served /\ k2.epoch = k.epoch /\ k2.read = r
    BY <1>1, <1>2, <1>3 DEF JobRecords
  <1>6. next \in {"dkgSigner", "reshareSigner"}
    BY <1>2
  <1>7. ReadOf(k2, stage, network, liar)
    BY <1>1, <1>5, <1>6 DEF ReadOf
  <1>8. KeyOf(k2, stage) /\ WhyOf(k2, liar)
    BY <1>5, <1>6 DEF Sound, KeyOf, WhyOf
  <1>9. ServedOf(k2, stage, network)
    BY <1>1, <1>2, <1>5, <1>6 DEF Sound, ServedOf, DkgSigned, ReshareSigned
  <1> QED BY <1>1, <1>4, <1>5, <1>6, <1>7, <1>8, <1>9 DEF GoesOnAs, Sound

\* Tick, and the pause of recordOnceSigned: only times change.
LEMMA TimeStep ==
    ASSUME NEW k \in JobRecords, NEW s, NEW n, NEW l, Sound(k, s, n, l), k.pc # "failed",
           NEW window \in 0 .. Window, NEW left \in 0 .. Budget
    PROVE  GoesOnAs(k, [k EXCEPT !.read.window = window, !.left = left], s, n, l)
  <1>1. PICK r : r = k.read /\ r \in Reads
    BY DEF JobRecords
  <1>2. PICK r2 : r2 = [r EXCEPT !.window = window]
    OBVIOUS
  <1>3. r2 \in Reads /\ r2.what = r.what /\ r2.key = r.key /\ r2.answers = r.answers
          /\ r2.waits = r.waits /\ r2.target = r.target
    BY <1>1, <1>2 DEF Reads
  <1>4. PICK k2 : k2 = [k EXCEPT !.read = r2, !.left = left]
    OBVIOUS
  <1>5. k2 = [k EXCEPT !.read.window = window, !.left = left]
    BY <1>1, <1>2, <1>4 DEF JobRecords, Reads
  <1>6. k2 \in JobRecords /\ k2.read = r2 /\ k2.kind = k.kind /\ k2.key = k.key /\ k2.pc = k.pc
          /\ k2.why = k.why /\ k2.served = k.served /\ k2.epoch = k.epoch
    BY <1>3, <1>4 DEF JobRecords
  <1>7. ReadOf(k2, s, n, l)
    BY <1>1, <1>3, <1>6 DEF Sound, ReadOf, EpochAnswered
  <1>8. k2.read.key = k.read.key
    BY <1>1, <1>3, <1>6
  <1> QED BY <1>5, <1>6, <1>7, <1>8, SameStep

-----------------------------------------------------------------------------
(* Every step of a job goes on soundly, or fails for a cause.              *)

StepsWell(j) ==
    \/ /\ jobs[j].pc # "failed"
       /\ \E k2 \in JobRecords : GoesOnAs(jobs[j], k2, stage, network, liar) /\ Moves(j, k2)
    \/ \E why \in {"refused", "disagree"} :
          Fails(j, why) /\ (why = "disagree" => liar # "nobody")

\* A job goes on as a record that a lemma describes.
LEMMA GoesOn ==
    ASSUME NEW j \in Jobs, jobs[j].pc # "failed", NEW k2,
           GoesOnAs(jobs[j], k2, stage, network, liar), Moves(j, k2)
    PROVE  StepsWell(j)
  <1>1. k2 \in JobRecords
    BY DEF GoesOnAs
  <1> QED BY <1>1 DEF StepsWell

LEMMA Refused ==
    ASSUME NEW j \in Jobs, Fails(j, "refused")
    PROVE  StepsWell(j)
  BY DEF StepsWell

\* Returns, after a read that is not cross-checked or whose answers agree.
LEMMA ReturnsWell ==
    ASSUME IInv, NEW j \in Jobs, IsReading(j), jobs[j].read.waits = {},
           ~Crossed(jobs[j].read.what)
              \/ Same(jobs[j].read.answers["first"], jobs[j].read.answers["second"]),
           Returns(j, jobs[j].read.answers["first"])
    PROVE  StepsWell(j)
  <1>1. PICK k : k = jobs[j] /\ k \in JobRecords
    BY DEF IInv, TypeOK
  <1>2. Sound(k, stage, network, liar)
    BY <1>1 DEF IInv
  <1>3. TypeOK /\ stage \in Nat /\ network \in {"custom", "listed"}
    BY DEF IInv, TypeOK, LastStage
  <1>4. k.pc \in ReadSteps /\ k.pc # "failed" /\ k.read.waits = {}
    BY <1>1 DEF IsReading, ReadSteps
  <1>5. ~CrossedOn(network, k.read.what)
          \/ Same(k.read.answers["first"], k.read.answers["second"])
    BY <1>1 DEF Crossed, CrossedOn
  <1>6. CASE k.pc = "epoch"
    <2>1. Moves(j, [k EXCEPT !.pc = "serve", !.read = NoRead,
                             !.epoch = k.read.answers["first"].position])
      BY <1>1, <1>6 DEF Returns
    <2>2. k.read.what = "epoch"
      BY <1>2, <1>6 DEF Sound, ReadOf, ReadSteps
    <2>3. GoesOnAs(k, [k EXCEPT !.pc = "serve", !.read = NoRead,
                             !.epoch = k.read.answers["first"].position], stage, network, liar)
      BY <1>1, <1>2, <1>3, <1>4, <1>5, <1>6, <2>2, EpochReturns
    <2> QED BY <1>1, <1>4, <2>1, <2>3, GoesOn
  <1>7. CASE k.pc # "epoch" /\ Fails(j, "refused")
    BY <1>7, Refused
  <1>8. CASE k.pc # "epoch" /\ ~Fails(j, "refused")
    <2>1. /\ k.read.answers["first"].value # NoRecord
          /\ k.pc = "registered" => network = "custom" /\ k.key \in TrustedKeys
          /\ Moves(j, Registered(j))
      BY <1>1, <1>8 DEF Returns
    <2>2. CASE k.pc = "registered"
      <3>1. Registered(j) = [k EXCEPT !.pc = "epoch", !.read = Reading("epoch", None)]
        BY <1>1, <2>2 DEF Registered
      <3>2. GoesOnAs(k, Registered(j), stage, network, liar)
        BY <1>1, <1>2, <1>3, <2>1, <2>2, <3>1, RegisteredReturns
      <3> QED BY <1>1, <1>4, <2>1, <3>2, GoesOn
    <2>3. CASE k.pc = "dkgSigner" /\ k.served.reshare # None
      <3>1. Registered(j) = [k EXCEPT !.pc = "reshare", !.read = NoRead]
        BY <1>1, <2>3 DEF Registered
      <3>2. GoesOnAs(k, [k EXCEPT !.pc = "reshare", !.read = NoRead], stage, network, liar)
        BY <1>1, <1>2, <1>3, <1>5, <2>1, <2>3, DkgSignerReturns
      <3> QED BY <1>1, <1>4, <2>1, <3>1, <3>2, GoesOn
    <2>4. CASE k.pc = "reshareSigner" \/ (k.pc = "dkgSigner" /\ k.served.reshare = None)
      <3>1. Registered(j) = [k EXCEPT !.pc = "up", !.read = NoRead, !.left = 0]
        BY <1>1, <2>4 DEF Registered
      <3>2. GoesOnAs(k, [k EXCEPT !.pc = "up", !.read = NoRead, !.left = 0],
                     stage, network, liar)
        BY <1>1, <1>2, <1>3, <1>5, <2>1, <2>4, SignerReturns
      <3> QED BY <1>1, <1>4, <2>1, <3>1, <3>2, GoesOn
    <2> QED BY <1>4, <1>8, <2>2, <2>3, <2>4 DEF ReadSteps
  <1> QED BY <1>6, <1>7, <1>8

\* Compare.
LEMMA CompareWell ==
    ASSUME IInv, NEW j \in Jobs, Compare(j)
    PROVE  StepsWell(j)
  <1>1. PICK k : k = jobs[j] /\ k \in JobRecords
    BY DEF IInv, TypeOK
  <1>2. Sound(k, stage, network, liar) /\ stage \in Nat
    BY <1>1 DEF IInv, TypeOK, LastStage
  <1>3. k.pc \in ReadSteps /\ k.pc # "failed" /\ k.read.waits = {} /\ IsReading(j)
    BY <1>1 DEF Compare, IsReading, ReadSteps
  <1>4. CASE ~Crossed(k.read.what) \/ Same(k.read.answers["first"], k.read.answers["second"])
    <2>1. Returns(j, jobs[j].read.answers["first"])
      BY <1>1, <1>4 DEF Compare
    <2> QED BY <1>1, <1>3, <1>4, <2>1, ReturnsWell
  <1>5. CASE Crossed(k.read.what) /\ ~Same(k.read.answers["first"], k.read.answers["second"])
    <2>1. CrossedOn(network, k.read.what)
      BY <1>5 DEF Crossed, CrossedOn
    <2>2. CASE Lagging(k.read) = None
      <3>1. Fails(j, "disagree")
        BY <1>1, <1>5, <2>2 DEF Compare
      <3>2. liar # "nobody"
        BY <1>1, <1>2, <1>3, <1>5, <2>1, <2>2, DisagreementIsALie
      <3> QED BY <3>1, <3>2 DEF StepsWell
    <2>3. CASE Lagging(k.read) # None /\ k.read.window < 1
      BY <1>1, <1>5, <2>3, Refused DEF Compare
    <2>4. CASE Lagging(k.read) # None /\ ~(k.read.window < 1)
      <3>1. PICK target : target = IF k.read.answers["first"].position > k.read.answers["second"].position
                                   THEN k.read.answers["first"].position
                                   ELSE k.read.answers["second"].position
        OBVIOUS
      <3>2. PICK left : left = IF Verifying(j) /\ k.left > 0 THEN k.left - 1 ELSE k.left
        OBVIOUS
      <3>3. PICK lag : lag = Lagging(k.read)
        OBVIOUS
      <3>4. target \in Nat
        BY <1>1, <3>1 DEF JobRecords, Reads, Endpoints
      <3>5. left \in 0 .. Budget
        BY <1>1, <3>2, ConnectionAssumption DEF JobRecords
      <3>6. lag \in Endpoints
        BY <2>4, <3>3 DEF Lagging, Endpoints
      <3>7. k.read.window >= 1
        <4>1. k.read.window \in Nat
          BY <1>1 DEF JobRecords, Reads
        <4> QED BY <2>4, <4>1
      <3>8. Moves(j, [k EXCEPT !.read.waits = {lag}, !.read.window = @ - 1, !.left = left,
                               !.read.target = target])
        BY <1>1, <1>5, <2>4, <3>1, <3>2, <3>3 DEF Compare
      <3>9. GoesOnAs(k, [k EXCEPT !.read.waits = {lag}, !.read.window = @ - 1, !.left = left,
                               !.read.target = target], stage, network, liar)
        BY <1>1, <1>2, <1>3, <2>1, <3>4, <3>5, <3>6, <3>7, RereadStep
      <3> QED BY <1>1, <1>3, <3>8, <3>9, GoesOn
    <2> QED BY <2>2, <2>3, <2>4
  <1> QED BY <1>4, <1>5

\* ReadAnswers.
LEMMA ReadAnswersWell ==
    ASSUME IInv, NEW j \in Jobs, NEW e \in Endpoints, ReadAnswers(j, e)
    PROVE  StepsWell(j)
  <1>1. PICK k : k = jobs[j] /\ k \in JobRecords
    BY DEF IInv, TypeOK
  <1>2. Sound(k, stage, network, liar) /\ stage \in 0 .. LastStage /\ stage \in Nat
    BY <1>1 DEF IInv, TypeOK, LastStage
  <1>3. k.pc \in ReadSteps /\ k.pc # "failed" /\ e \in k.read.waits
    BY <1>1 DEF ReadAnswers, IsReading, ReadSteps
  <1>4. PICK a \in IF k.read.what = "epoch" THEN EpochAnswers(e) ELSE KeyAnswers(e, k.read.key) :
           Moves(j, [k EXCEPT !.read.waits = @ \ {e},
                       !.read.answers[e] = IF a.position >= k.read.target THEN a ELSE @])
    BY <1>1 DEF ReadAnswers
  <1>5. k.read.what = IF k.pc = "epoch" THEN "epoch" ELSE "key"
    BY <1>2, <1>3 DEF Sound, ReadOf
  <1>6. /\ a \in [position : Nat, value : Records]
        /\ IF k.pc = "epoch"
           THEN a.position >= 1 /\ a.value.digest = "epoch" /\ (liar # e => a.position <= EpochAt(stage))
           ELSE KeyAnswered(e, a, k.read.key, liar)
    <2>1. CASE k.pc = "epoch"
      <3>1. a \in EpochAnswers(e)
        BY <1>4, <1>5, <2>1
      <3> QED BY <1>2, <2>1, <3>1, EpochAnswerFits
    <2>2. CASE k.pc # "epoch"
      <3>1. a \in KeyAnswers(e, k.read.key)
        BY <1>4, <1>5, <2>2
      <3> QED BY <1>2, <2>2, <3>1, KeyAnswerFits
    <2> QED BY <2>1, <2>2
  <1>7. GoesOnAs(k, [k EXCEPT !.read.waits = @ \ {e},
                       !.read.answers[e] = IF a.position >= k.read.target THEN a ELSE @],
                 stage, network, liar)
    BY <1>1, <1>2, <1>3, <1>6, AnswerStep
  <1> QED BY <1>1, <1>3, <1>4, <1>7, GoesOn

\* Serve.
LEMMA ServeWell ==
    ASSUME IInv, NEW j \in Jobs, Serve(j)
    PROVE  StepsWell(j)
  <1>1. PICK k : k = jobs[j] /\ k \in JobRecords
    BY DEF IInv, TypeOK
  <1>2. Sound(k, stage, network, liar) /\ k.pc = "serve" /\ k.pc # "failed"
    BY <1>1 DEF IInv, Serve
  <1>3. \/ Fails(j, "refused")
        \/ \E served \in Outputs :
              /\ served.key = k.key
              /\ Moves(j, [k EXCEPT !.pc = "dkg", !.served = served, !.left = Budget])
    BY <1>1 DEF Serve
  <1>4. CASE Fails(j, "refused")
    BY <1>4, Refused
  <1>5. ASSUME NEW served \in Outputs, served.key = k.key,
               Moves(j, [k EXCEPT !.pc = "dkg", !.served = served, !.left = Budget])
        PROVE  StepsWell(j)
    <2>1. GoesOnAs(k, [k EXCEPT !.pc = "dkg", !.served = served, !.left = Budget],
                   stage, network, liar)
      BY <1>1, <1>2, <1>5, ServeStep
    <2> QED BY <1>1, <1>2, <1>5, <2>1, GoesOn
  <1> QED BY <1>3, <1>4, <1>5

\* Judge.
LEMMA JudgeWell ==
    ASSUME IInv, NEW j \in Jobs, jobs[j].pc \in {"dkg", "reshare"},
           NEW record \in IF jobs[j].pc = "dkg" THEN DkgRecords(jobs[j].key)
                          ELSE ReshareRecords(jobs[j].served.epoch),
           Judge(j, record)
    PROVE  StepsWell(j)
  <1>1. PICK k : k = jobs[j] /\ k \in JobRecords
    BY DEF IInv, TypeOK
  <1>2. Sound(k, stage, network, liar) /\ TypeOK /\ stage \in 0 .. LastStage
    BY <1>1 DEF IInv, TypeOK
  <1>3. k.pc \in {"dkg", "reshare"} /\ k.pc # "failed"
    BY <1>1
  <1>4. CASE Fails(j, "refused")
    BY <1>4, Refused
  <1>5. CASE ~Fails(j, "refused")
    <2>1. PICK signer : signer = record.proof.signer
      OBVIOUS
    <2>2. /\ record.digest = ServedDigest(j)
          /\ ProofVerifies(j, record)
          /\ network = "listed" => signer \in TrustedKeys
          /\ Moves(j, [k EXCEPT !.pc = IF @ = "dkg" THEN "dkgSigner" ELSE "reshareSigner",
                                !.read = Reading("key", signer)])
      BY <1>1, <1>5, <2>1 DEF Judge
    <2>3. /\ signer \in Keys
          /\ signer = Genuine =>
               IF k.pc = "dkg" THEN DkgSigned(k, stage) ELSE ReshareSigned(k, stage)
      <3>1. CASE k.pc = "dkg"
        <4>1. record \in DkgRecords(k.key)
          BY <1>1, <3>1
        <4>2. record.digest = k.served.dkg
          BY <1>1, <2>2, <3>1 DEF ServedDigest
        <4>3. /\ record.proof \notin {Unsigned, Undecodable}
              /\ record.proof.message = DkgMessage(record.digest)
          BY <1>1, <2>2, <3>1 DEF ProofVerifies, MessageOf
        <4> QED BY <1>2, <2>1, <3>1, <4>1, <4>2, <4>3, DkgRecordFits DEF DkgSigned
      <3>2. CASE k.pc = "reshare"
        <4>1. record \in ReshareRecords(k.served.epoch)
          BY <1>1, <3>2
        <4>2. record.digest = k.served.reshare
          BY <1>1, <2>2, <3>2 DEF ServedDigest
        <4>3. /\ record.proof \notin {Unsigned, Undecodable}
              /\ record.proof.message = ReshareMessage(k.served.epoch, record.digest)
          BY <1>1, <2>2, <3>2 DEF ProofVerifies, MessageOf
        <4> QED BY <1>2, <2>1, <3>2, <4>1, <4>2, <4>3, ReshareRecordFits DEF ReshareSigned
      <3> QED BY <1>3, <3>1, <3>2
    <2>4. network = "listed" => signer = Genuine
      BY <2>2 DEF TrustedKeys
    <2>5. GoesOnAs(k, [k EXCEPT !.pc = IF @ = "dkg" THEN "dkgSigner" ELSE "reshareSigner",
                                !.read = Reading("key", signer)], stage, network, liar)
      BY <1>1, <1>2, <1>3, <2>3, <2>4, JudgeStep
    <2> QED BY <1>1, <1>3, <2>2, <2>5, GoesOn
  <1> QED BY <1>4, <1>5

\* RecordRead.
LEMMA RecordReadWell ==
    ASSUME IInv, NEW j \in Jobs, RecordRead(j)
    PROVE  StepsWell(j)
  <1>1. PICK k : k = jobs[j] /\ k \in JobRecords
    BY DEF IInv, TypeOK
  <1>2. Sound(k, stage, network, liar)
    BY <1>1 DEF IInv
  <1>3. jobs[j].pc \in {"dkg", "reshare"} /\ k.pc # "failed"
    BY <1>1 DEF RecordRead
  <1>4. PICK record \in IF jobs[j].pc = "dkg" THEN DkgRecords(jobs[j].key)
                        ELSE ReshareRecords(jobs[j].served.epoch) :
           \/ Fails(j, "refused")
           \/ Judge(j, record)
           \/ ~(jobs[j].left < 1) /\ Moves(j, [jobs[j] EXCEPT !.left = @ - 1])
    BY DEF RecordRead
  <1>5. CASE Fails(j, "refused")
    BY <1>5, Refused
  <1>6. CASE Judge(j, record)
    BY <1>3, <1>4, <1>6, JudgeWell
  <1>7. CASE ~(k.left < 1) /\ Moves(j, [k EXCEPT !.left = @ - 1])
    <2>1. PICK left, window : left = k.left - 1 /\ window = k.read.window
      OBVIOUS
    <2>2. left \in 0 .. Budget /\ window \in 0 .. Window
      BY <1>1, <1>7, <2>1, ConnectionAssumption DEF JobRecords, Reads
    <2>3. [k EXCEPT !.left = @ - 1] = [k EXCEPT !.read.window = window, !.left = left]
      BY <1>1, <2>1, ZenonT(60) DEF JobRecords, Reads
    <2>4. GoesOnAs(k, [k EXCEPT !.read.window = window, !.left = left], stage, network, liar)
      BY <1>1, <1>2, <1>3, <2>2, TimeStep
    <2> QED BY <1>1, <1>3, <1>7, <2>3, <2>4, GoesOn
  <1> QED BY <1>1, <1>4, <1>5, <1>6, <1>7

\* Tick.
LEMMA TickWell ==
    ASSUME IInv, NEW j \in Jobs, Tick(j)
    PROVE  StepsWell(j)
  <1>1. PICK k : k = jobs[j] /\ k \in JobRecords
    BY DEF IInv, TypeOK
  <1>2. Sound(k, stage, network, liar)
    BY <1>1 DEF IInv
  <1>3. PICK crossed : crossed = (IsReading(j) /\ Crossed(k.read.what) /\ k.read.waits # {})
    OBVIOUS
  <1>4. /\ crossed \/ Verifying(j)
        /\ crossed => k.read.window > 0
        /\ Verifying(j) => k.left > 0
        /\ Moves(j, [k EXCEPT !.read.window = IF crossed THEN @ - 1 ELSE @,
                              !.left = IF Verifying(j) THEN @ - 1 ELSE @])
    BY <1>1, <1>3 DEF Tick
  <1>5. k.pc # "failed"
    BY <1>1, <1>3, <1>4 DEF IsReading, Verifying, ReadSteps
  <1>6. PICK window, left : /\ window = IF crossed THEN k.read.window - 1 ELSE k.read.window
                            /\ left = IF Verifying(j) THEN k.left - 1 ELSE k.left
    OBVIOUS
  <1>7. window \in 0 .. Window
    BY <1>1, <1>4, <1>6, ConnectionAssumption DEF JobRecords, Reads
  <1>8. left \in 0 .. Budget
    BY <1>1, <1>4, <1>6, ConnectionAssumption DEF JobRecords
  <1>9. Moves(j, [k EXCEPT !.read.window = window, !.left = left])
    BY <1>4, <1>6
  <1>10. GoesOnAs(k, [k EXCEPT !.read.window = window, !.left = left], stage, network, liar)
    BY <1>1, <1>2, <1>5, <1>7, <1>8, TimeStep
  <1> QED BY <1>1, <1>5, <1>9, <1>10, GoesOn

LEMMA JobStepsWell ==
    ASSUME IInv, NEW j \in Jobs, JobStep(j)
    PROVE  StepsWell(j)
  <1>1. CASE \E e \in Endpoints : ReadAnswers(j, e)
    BY <1>1, ReadAnswersWell
  <1>2. CASE ReadFails(j) \/ TimesOut(j)
    <2>1. Fails(j, "refused")
      BY <1>2 DEF ReadFails, TimesOut
    <2> QED BY <2>1, Refused
  <1>3. CASE Compare(j)
    BY <1>3, CompareWell
  <1>4. CASE Serve(j)
    BY <1>4, ServeWell
  <1>5. CASE RecordRead(j)
    BY <1>5, RecordReadWell
  <1>6. CASE Tick(j)
    BY <1>6, TickWell
  <1> QED BY <1>1, <1>2, <1>3, <1>4, <1>5, <1>6 DEF JobStep

-----------------------------------------------------------------------------
(* The invariant is preserved.                                             *)

\* No job, and a job that failed.
LEMMA EmptyIsSound ==
    ASSUME NEW s, NEW n, NEW l
    PROVE  Sound(NoJob, s, n, l)
  <1>1. NoJob.pc = None /\ NoJob.why = None
    BY DEF NoJob
  <1> QED BY <1>1 DEF Sound, ReadOf, KeyOf, ServedOf, WhyOf, ReadSteps, None

LEMMA FailedIsSound ==
    ASSUME NEW kind \in {None, "engine", "read"}, NEW key \in Keys \cup {None},
           NEW why \in {"refused", "disagree"}, NEW s, NEW n, NEW l,
           why = "disagree" => l # "nobody"
    PROVE  LET k == [NoJob EXCEPT !.kind = kind, !.key = key, !.pc = "failed", !.why = why]
           IN  k \in JobRecords /\ k.pc = "failed" /\ Sound(k, s, n, l)
  <1> DEFINE k == [NoJob EXCEPT !.kind = kind, !.key = key, !.pc = "failed", !.why = why]
  <1>1. PICK no : no = NoJob /\ no \in JobRecords
    BY Constants
  <1>2. k \in JobRecords /\ k.pc = "failed" /\ k.why = why
    BY <1>1 DEF JobRecords
  <1>3. Sound(k, s, n, l)
    <2> HIDE DEF k
    <2> QED BY <1>2 DEF Sound, ReadOf, KeyOf, ServedOf, WhyOf, ReadSteps
  <1> QED BY <1>2, <1>3

\* The chain only adds to what a job knows.
LEMMA LaterIsSound ==
    ASSUME NEW k \in JobRecords, NEW s \in Nat, NEW n, NEW l, Sound(k, s, n, l)
    PROVE  Sound(k, s + 1, n, l)
  <1>1. EpochAt(s) \in Nat /\ EpochAt(s + 1) \in Nat /\ EpochAt(s) <= EpochAt(s + 1)
    BY DEF EpochAt
  <1>2. ReadOf(k, s + 1, n, l)
    <2> SUFFICES ASSUME k.pc = "epoch", NEW e \in Endpoints
                 PROVE  EpochAnswered(e, k.read.answers[e], k.read, s + 1, n, l)
      BY DEF Sound, ReadOf
    <2>1. EpochAnswered(e, k.read.answers[e], k.read, s, n, l)
      BY DEF Sound, ReadOf, ReadSteps
    <2>2. k.read.answers[e].position \in Nat
      BY DEF JobRecords, Reads
    <2> QED BY <1>1, <2>1, <2>2 DEF EpochAnswered
  <1>3. KeyOf(k, s + 1)
    <2>1. k.epoch \in Nat
      BY DEF JobRecords
    <2>2. k.epoch \in 1 .. EpochAt(s) => k.epoch \in 1 .. EpochAt(s + 1)
      BY <1>1, <2>1
    <2> QED BY <2>2 DEF Sound, KeyOf
  <1>4. ServedOf(k, s + 1, n)
    <2>1. /\ DkgSigned(k, s) => DkgSigned(k, s + 1)
          /\ ReshareSigned(k, s) => ReshareSigned(k, s + 1)
      BY DEF DkgSigned, ReshareSigned
    <2> QED BY <2>1 DEF Sound, ServedOf
  <1> QED BY <1>2, <1>3, <1>4 DEF Sound

\* A step of a job.
LEMMA JobStepKeeps ==
    ASSUME IInv, NEW j \in Jobs, StepsWell(j)
    PROVE  IInv'
  <1>1. jobs \in [Jobs -> JobRecords] /\ j \in Nat \ {0}
    BY DEF IInv, TypeOK, Jobs
  <1>2. CASE /\ jobs[j].pc # "failed"
             /\ \E k2 \in JobRecords : GoesOnAs(jobs[j], k2, stage, network, liar) /\ Moves(j, k2)
    <2>1. PICK k2 \in JobRecords : GoesOnAs(jobs[j], k2, stage, network, liar) /\ Moves(j, k2)
      BY <1>2
    <2>2. /\ jobs' = [jobs EXCEPT ![j] = k2]
          /\ UNCHANGED <<stage, network, liar, latest, engines, callers>>
      BY <2>1 DEF Moves
    <2>3. TypeOK'
      BY <1>1, <2>2 DEF IInv, TypeOK
    <2>4. \A i \in Jobs : jobs'[i] = IF i = j THEN k2 ELSE jobs[i]
      BY <1>1, <2>2
    <2>5. \A i \in Jobs : Sound(jobs'[i], stage, network, liar)
      BY <2>1, <2>4 DEF IInv, GoesOnAs
    <2>6. (\A i \in Jobs : Sound(jobs[i], stage, network, liar))'
      BY <2>2, <2>5
    <2>7. KeptInv'
      BY <1>2, <2>1, <2>2, <2>4 DEF IInv, KeptInv, GoesOnAs
    <2> QED BY <2>3, <2>6, <2>7 DEF IInv
  <1>3. CASE \E why \in {"refused", "disagree"} :
                Fails(j, why) /\ (why = "disagree" => liar # "nobody")
    <2>1. PICK why \in {"refused", "disagree"} :
              Fails(j, why) /\ (why = "disagree" => liar # "nobody")
      BY <1>3
    <2>2. PICK kind, key : kind = jobs[j].kind /\ key = jobs[j].key
      OBVIOUS
    <2>3. kind \in {None, "engine", "read"} /\ key \in Keys \cup {None}
      BY <1>1, <2>2 DEF JobRecords
    <2>4. PICK k2 : k2 = [NoJob EXCEPT !.kind = kind, !.key = key, !.pc = "failed", !.why = why]
      OBVIOUS
    <2>5. k2 \in JobRecords /\ k2.pc = "failed" /\ Sound(k2, stage, network, liar)
      <3>1. why = "disagree" => liar # "nobody"
        BY <2>1
      <3> QED BY <2>3, <2>4, <3>1, FailedIsSound, ZenonT(60)
    <2>6. /\ jobs' = [jobs EXCEPT ![j] = k2]
          /\ engines' = [x \in Keys |-> IF engines[x] = j THEN 0 ELSE engines[x]]
          /\ UNCHANGED <<stage, network, liar, latest, callers>>
      BY <2>1, <2>2, <2>4 DEF Fails
    <2>7. engines' \in [Keys -> 0 .. MaxConnects]
      BY <2>6, ConnectionAssumption DEF IInv, TypeOK
    <2>8. TypeOK'
      BY <1>1, <2>5, <2>6, <2>7 DEF IInv, TypeOK
    <2>9. \A i \in Jobs : jobs'[i] = IF i = j THEN k2 ELSE jobs[i]
      BY <1>1, <2>6
    <2>10. \A i \in Jobs : Sound(jobs'[i], stage, network, liar)
      BY <2>5, <2>9 DEF IInv
    <2>11. (\A i \in Jobs : Sound(jobs[i], stage, network, liar))'
      BY <2>6, <2>10
    <2>12. KeptInv'
      <3> SUFFICES ASSUME NEW i \in Jobs, jobs'[i].kind = "engine", jobs'[i].pc # "failed"
                   PROVE  jobs'[i].key \in Keys /\ engines'[jobs'[i].key] = i
        BY DEF KeptInv
      <3>1. i # j /\ jobs'[i] = jobs[i]
        BY <2>5, <2>9
      <3>2. jobs[i].key \in Keys /\ engines[jobs[i].key] = i
        BY <3>1 DEF IInv, KeptInv
      <3> QED BY <2>6, <3>1, <3>2
    <2> QED BY <2>8, <2>11, <2>12 DEF IInv
  <1> QED BY <1>2, <1>3 DEF StepsWell

\* ConnectTo.
LEMMA ConnectIsSound ==
    ASSUME TypeOK, NEW key \in Keys, NEW k, k = ConnectTo(key)
    PROVE  /\ k \in JobRecords /\ k.kind = "engine" /\ k.key = key
           /\ Sound(k, stage, network, liar)
  <1>1. PICK no : no = NoJob /\ no \in JobRecords /\ no.why = None
    BY Constants DEF NoJob
  <1>2. PICK r : r = Reading("key", key) /\ r \in Reads /\ r.what = "key" /\ r.key = key
          /\ \A e \in Endpoints : KeyAnswered(e, r.answers[e], key, liar)
    BY ReadingFits
  <1>3. k = [no EXCEPT !.kind = "engine", !.key = key, !.pc = "registered", !.read = r]
    BY <1>1, <1>2 DEF ConnectTo
  <1>4. k \in JobRecords /\ k.kind = "engine" /\ k.key = key /\ k.pc = "registered"
          /\ k.why = None /\ k.read = r
    BY <1>1, <1>2, <1>3, ZenonT(60) DEF JobRecords
  <1>5. Sound(k, stage, network, liar)
    BY <1>2, <1>4 DEF Sound, ReadOf, KeyOf, ServedOf, WhyOf, None
  <1> QED BY <1>4, <1>5

\* A job that a free slot takes on.
LEMMA NewJobKeeps ==
    ASSUME IInv, NEW j \in Jobs, NEW k \in JobRecords, Sound(k, stage, network, liar),
           jobs' = [jobs EXCEPT ![j] = k],
           UNCHANGED <<stage, network, liar>>
    PROVE  /\ jobs' \in [Jobs -> JobRecords]
           /\ \A i \in Jobs : jobs'[i] = IF i = j THEN k ELSE jobs[i]
           /\ (\A i \in Jobs : Sound(jobs[i], stage, network, liar))'
  <1>1. jobs \in [Jobs -> JobRecords]
    BY DEF IInv, TypeOK
  <1>2. \A i \in Jobs : jobs'[i] = IF i = j THEN k ELSE jobs[i]
    BY <1>1
  <1>3. \A i \in Jobs : Sound(jobs'[i], stage, network, liar)
    BY <1>2 DEF IInv
  <1> QED BY <1>1, <1>2, <1>3

\* Join.
LEMMA JoinKeeps ==
    ASSUME IInv, NEW c \in Callers, NEW key \in Keys, Join(c, key),
           UNCHANGED <<stage, network, liar, latest>>
    PROVE  IInv'
  <1>1. TypeOK /\ engines \in [Keys -> 0 .. MaxConnects]
          /\ callers \in [Callers -> [pc : CallerStates, job : 0 .. MaxConnects]]
    BY DEF IInv, TypeOK
  <1>2. CASE /\ UNCHANGED <<engines, jobs>>
             /\ \E n \in 0 .. MaxConnects, pc \in CallerStates :
                   callers' = [callers EXCEPT ![c] = [pc |-> pc, job |-> n]]
    <2>1. callers' \in [Callers -> [pc : CallerStates, job : 0 .. MaxConnects]]
      BY <1>1, <1>2
    <2>2. TypeOK'
      BY <1>2, <2>1 DEF IInv, TypeOK
    <2>3. KeptInv'
      BY <1>2 DEF IInv, KeptInv
    <2>4. (\A i \in Jobs : Sound(jobs[i], stage, network, liar))'
      BY <1>2 DEF IInv
    <2> QED BY <2>2, <2>3, <2>4 DEF IInv
  <1>3. CASE /\ engines[key] = 0
             /\ \E j \in Jobs :
                   /\ jobs' = [jobs EXCEPT ![j] = ConnectTo(key)]
                   /\ engines' = [engines EXCEPT ![key] = j]
                   /\ callers' = [callers EXCEPT ![c] = [pc |-> "wait", job |-> j]]
                   /\ Free(j)
    <2>1. PICK j \in Jobs :
                   /\ jobs' = [jobs EXCEPT ![j] = ConnectTo(key)]
                   /\ engines' = [engines EXCEPT ![key] = j]
                   /\ callers' = [callers EXCEPT ![c] = [pc |-> "wait", job |-> j]]
      BY <1>3
    <2>2. j \in 0 .. MaxConnects /\ j # 0
      BY ConnectionAssumption DEF Jobs
    <2>3. PICK k : k = ConnectTo(key)
      OBVIOUS
    <2>4. k \in JobRecords /\ k.kind = "engine" /\ k.key = key /\ Sound(k, stage, network, liar)
      BY <1>1, <2>3, ConnectIsSound
    <2>5. /\ jobs' \in [Jobs -> JobRecords]
          /\ \A i \in Jobs : jobs'[i] = IF i = j THEN k ELSE jobs[i]
          /\ (\A i \in Jobs : Sound(jobs[i], stage, network, liar))'
      BY <2>1, <2>3, <2>4, NewJobKeeps
    <2>6. engines' \in [Keys -> 0 .. MaxConnects]
            /\ callers' \in [Callers -> [pc : CallerStates, job : 0 .. MaxConnects]]
      BY <1>1, <2>1, <2>2 DEF CallerStates
    <2>7. TypeOK'
      BY <2>5, <2>6 DEF IInv, TypeOK
    <2>8. KeptInv'
      <3> SUFFICES ASSUME NEW i \in Jobs, jobs'[i].kind = "engine", jobs'[i].pc # "failed"
                   PROVE  jobs'[i].key \in Keys /\ engines'[jobs'[i].key] = i
        BY DEF KeptInv
      <3>1. CASE i = j
        BY <1>1, <2>1, <2>4, <2>5, <3>1
      <3>2. CASE i # j
        <4>1. jobs'[i] = jobs[i]
          BY <2>5, <3>2
        <4>2. jobs[i].key \in Keys /\ engines[jobs[i].key] = i
          BY <4>1 DEF IInv, KeptInv
        <4>3. i # 0
          BY ConnectionAssumption DEF Jobs
        <4>4. jobs[i].key # key
          BY <1>3, <4>2, <4>3
        <4> QED BY <1>1, <2>1, <4>1, <4>2, <4>4
      <3> QED BY <3>1, <3>2
    <2> QED BY <2>5, <2>7, <2>8 DEF IInv
  <1>4. \/ /\ UNCHANGED <<engines, jobs>>
           /\ callers' = [callers EXCEPT ![c] = [pc |-> "wait", job |-> engines[key]]]
        \/ /\ UNCHANGED <<engines, jobs>>
           /\ callers' = [callers EXCEPT ![c] = [pc |-> "thrown", job |-> 0]]
        \/ /\ engines[key] = 0
           /\ \E j \in Jobs :
                   /\ jobs' = [jobs EXCEPT ![j] = ConnectTo(key)]
                   /\ engines' = [engines EXCEPT ![key] = j]
                   /\ callers' = [callers EXCEPT ![c] = [pc |-> "wait", job |-> j]]
                   /\ Free(j)
    BY DEF Join
  <1>5. engines[key] \in 0 .. MaxConnects /\ 0 \in 0 .. MaxConnects
    BY <1>1, ConnectionAssumption
  <1>6. "wait" \in CallerStates /\ "thrown" \in CallerStates
    BY DEF CallerStates
  <1> QED BY <1>2, <1>3, <1>4, <1>5, <1>6

LEMMA InitHolds == Init => IInv
  <1> SUFFICES ASSUME Init PROVE IInv
    OBVIOUS
  <1>1. PICK no : no = NoJob /\ no \in JobRecords /\ no.kind = None
    BY Constants DEF NoJob
  <1>2. \A j \in Jobs : jobs[j] = no
    BY <1>1 DEF Init
  <1>3. TypeOK
    <2>1. jobs \in [Jobs -> JobRecords]
      BY <1>1 DEF Init
    <2>2. /\ engines \in [Keys -> 0 .. MaxConnects]
          /\ callers \in [Callers -> [pc : CallerStates, job : 0 .. MaxConnects]]
      BY ConnectionAssumption DEF Init, CallerStates
    <2> QED BY <2>1, <2>2 DEF Init, TypeOK, LastStage
  <1>4. \A j \in Jobs : Sound(jobs[j], stage, network, liar)
    BY <1>1, <1>2, EmptyIsSound
  <1>5. KeptInv
    BY <1>1, <1>2 DEF KeptInv, None
  <1> QED BY <1>3, <1>4, <1>5 DEF IInv

\* A step that leaves the chain and the connections alone.
LEMMA CallersKeep ==
    ASSUME IInv, UNCHANGED <<stage, network, liar, engines, jobs>>,
           latest' \in Keys \cup {None, "asking"},
           callers' \in [Callers -> [pc : CallerStates, job : 0 .. MaxConnects]]
    PROVE  IInv'
  <1>1. TypeOK'
    BY DEF IInv, TypeOK
  <1>2. KeptInv'
    BY DEF IInv, KeptInv
  <1>3. (\A i \in Jobs : Sound(jobs[i], stage, network, liar))'
    BY DEF IInv
  <1> QED BY <1>1, <1>2, <1>3 DEF IInv

LEMMA NextKeeps == IInv /\ [Next]_vars => IInv'
  <1> SUFFICES ASSUME IInv, [Next]_vars PROVE IInv'
    OBVIOUS
  <1>1. latest \in Keys \cup {None, "asking"}
          /\ callers \in [Callers -> [pc : CallerStates, job : 0 .. MaxConnects]]
    BY DEF IInv, TypeOK
  <1>2. CASE UNCHANGED vars
    BY <1>1, <1>2, CallersKeep DEF vars
  <1>3. CASE NetworkAdvances
    <2>1. stage' = stage + 1 /\ stage < LastStage /\ stage \in Nat /\ stage' \in 0 .. LastStage
            /\ UNCHANGED <<network, liar, latest, engines, jobs, callers>>
      BY <1>3 DEF NetworkAdvances, IInv, TypeOK, LastStage
    <2>2. TypeOK'
      BY <2>1 DEF IInv, TypeOK
    <2>3. \A j \in Jobs : jobs[j] \in JobRecords
      BY DEF IInv, TypeOK
    <2>4. \A j \in Jobs : Sound(jobs[j], stage + 1, network, liar)
      BY <2>1, <2>3, LaterIsSound DEF IInv
    <2>5. (\A j \in Jobs : Sound(jobs[j], stage, network, liar))'
      BY <2>1, <2>4
    <2>6. KeptInv'
      BY <2>1 DEF IInv, KeptInv
    <2> QED BY <2>2, <2>5, <2>6 DEF IInv
  <1>4. CASE \E j \in Jobs : JobStep(j)
    BY <1>4, JobStepsWell, JobStepKeeps
  <1>5. ASSUME NEW c \in Callers, NEW key \in DWalletKeys, EngineOf(c, key)
        PROVE  IInv'
    <2>1. key \in Keys
      BY ConnectionAssumption DEF Keys
    <2> QED BY <1>5, <2>1, JoinKeeps DEF EngineOf
  <1>6. ASSUME NEW c \in Callers, Engine(c)
        PROVE  IInv'
    <2>1. callers' \in [Callers -> [pc : CallerStates, job : 0 .. MaxConnects]]
      BY <1>1, <1>6 DEF Engine, CallerStates
    <2>2. latest' \in Keys \cup {None, "asking"}
      BY <1>1, <1>6 DEF Engine
    <2> QED BY <1>6, <2>1, <2>2, CallersKeep DEF Engine
  <1>7. ASSUME NEW c \in Callers, EngineOfLatest(c)
        PROVE  IInv'
    <2>1. PICK key \in Keys : key = latest /\ Join(c, key)
      BY <1>7 DEF EngineOfLatest
    <2> QED BY <1>7, <2>1, JoinKeeps DEF EngineOfLatest
  <1>8. ASSUME NEW c \in Callers, Settles(c)
        PROVE  IInv'
    <2>1. callers' \in [Callers -> [pc : CallerStates, job : 0 .. MaxConnects]]
      BY <1>1, <1>8 DEF Settles, CallerStates
    <2> QED BY <1>1, <1>8, <2>1, CallersKeep DEF Settles
  <1>9. CASE LatestAnswers
    BY <1>1, <1>9, CallersKeep DEF LatestAnswers
  <1>10. CASE LatestFails
    <2>1. 0 \in 0 .. MaxConnects
      BY ConnectionAssumption
    <2>2. callers' \in [Callers -> [pc : CallerStates, job : 0 .. MaxConnects]]
      BY <1>1, <1>10, <2>1 DEF LatestFails, CallerStates
    <2> QED BY <1>10, <2>2, CallersKeep DEF LatestFails
  <1>11. CASE ReadVerified
    <2>1. PICK j \in Jobs : jobs' = [jobs EXCEPT ![j] = [NoJob EXCEPT !.kind = "read",
                                        !.key = Genuine, !.pc = "serve"]]
      BY <1>11 DEF ReadVerified
    <2>2. UNCHANGED <<stage, network, liar, latest, engines, callers>>
      BY <1>11 DEF ReadVerified
    <2>3. PICK no : no = NoJob /\ no \in JobRecords /\ no.why = None
      BY Constants DEF NoJob
    <2>4. PICK k : k = [no EXCEPT !.kind = "read", !.key = Genuine, !.pc = "serve"]
      OBVIOUS
    <2>5. k \in JobRecords /\ k.kind = "read" /\ k.key = Genuine /\ k.pc = "serve" /\ k.why = None
      BY <2>3, <2>4, Constants, ZenonT(60) DEF JobRecords
    <2>6. Sound(k, stage, network, liar)
      BY <2>5 DEF Sound, ReadOf, KeyOf, ServedOf, WhyOf, ReadSteps, None
    <2>7. jobs' = [jobs EXCEPT ![j] = k]
      BY <2>1, <2>3, <2>4
    <2>8. /\ jobs' \in [Jobs -> JobRecords]
          /\ \A i \in Jobs : jobs'[i] = IF i = j THEN k ELSE jobs[i]
          /\ (\A i \in Jobs : Sound(jobs[i], stage, network, liar))'
      BY <2>2, <2>5, <2>6, <2>7, NewJobKeeps
    <2>9. TypeOK'
      BY <2>2, <2>8 DEF IInv, TypeOK
    <2>10. KeptInv'
      <3> SUFFICES ASSUME NEW i \in Jobs, jobs'[i].kind = "engine", jobs'[i].pc # "failed"
                   PROVE  jobs'[i].key \in Keys /\ engines'[jobs'[i].key] = i
        BY DEF KeptInv
      <3>1. jobs'[i] = jobs[i]
        BY <2>5, <2>8
      <3> QED BY <2>2, <3>1 DEF IInv, KeptInv
    <2> QED BY <2>8, <2>9, <2>10 DEF IInv
  <1> QED BY <1>2, <1>3, <1>4, <1>5, <1>6, <1>7, <1>8, <1>9, <1>10, <1>11 DEF Next

-----------------------------------------------------------------------------
(* The theorems.                                                           *)

\* Every reachable state satisfies the inductive invariant.
THEOREM Invariance == Spec => []IInv
  <1>1. Init => IInv
    BY InitHolds
  <1>2. IInv /\ [Next]_vars => IInv'
    BY NextKeeps
  <1> QED BY <1>1, <1>2, PTL DEF Spec

\* The connections, their reads and the callers of engine() keep their types.
THEOREM TypeCorrect == Spec => []TypeOK
  <1>1. IInv => TypeOK
    BY DEF IInv
  <1> QED BY <1>1, Invariance, PTL

\* The client keeps one connection per network key, also while it is being made
\* and after earlier ones failed, for any number of callers of engine().
THEOREM Shared == Spec => []ConnectionsAreShared
  <1>1. IInv => ConnectionsAreShared
    BY DEF IInv, KeptInv, ConnectionsAreShared
  <1> QED BY <1>1, Invariance, PTL

\* Endpoints that only lag are never found to disagree by
\* crossCheckedAccountRead, cross-checked or not, whatever its window.
THEOREM LagForgiven == Spec => []LagIsNotALie
  <1>1. IInv => LagIsNotALie
    BY DEF IInv, Sound, WhyOf, LagIsNotALie
  <1> QED BY <1>1, Invariance, PTL

\* With a cross-checked read, the epoch that Network.connect starts from is one
\* the chain has shown, although one endpoint may answer any epoch.
THEOREM EpochShown == Spec => [](CrossCheck => EpochWasShown)
  <1>1. IInv => (CrossCheck => EpochWasShown)
    BY DEF IInv, Sound, KeyOf, EpochWasShown
  <1> QED BY <1>1, Invariance, PTL

\* On a listed network, and with cross-checked reads on a custom one, what
\* verifyNetworkKeyOutput lets through is what the network made and signed,
\* whatever the validators and one endpoint serve.
THEOREM GenuineOutputs == Spec => [](CrossCheck \/ network = "listed" => OutputsAreGenuine)
  <1>1. IInv => (CrossCheck \/ network = "listed" => OutputsAreGenuine)
    <2> SUFFICES ASSUME IInv, CrossCheck \/ network = "listed", NEW j \in Jobs, jobs[j].pc = "up"
                 PROVE  /\ jobs[j].served.key = Genuine
                        /\ jobs[j].served.dkg = "dkg" /\ stage >= 2
                        /\ jobs[j].served.reshare # None =>
                              jobs[j].served.reshare = "reshare" /\ jobs[j].served.epoch = 2
                              /\ stage >= 5
      BY DEF OutputsAreGenuine
    <2> QED BY DEF IInv, Sound, ServedOf, Guarded, DkgSigned, ReshareSigned
  <1> QED BY <1>1, Invariance, PTL

=============================================================================
