------------------------- MODULE NetworkConnection -------------------------
(***************************************************************************)
(* A client's connections to the ika network (ika-client-base.ts engine,   *)
(* engine.ts Network.connect, network-key-output.ts, the two               *)
(* read-cross-check.ts, and Solana's network-key-output.ts and             *)
(* committee-reader.ts): made once per network key, from an output that a  *)
(* validator serves and that is checked against the chain's records.       *)
(*                                                                         *)
(* The chain is read through two endpoints. One may lie, and each may lag; *)
(* the validator that serves the output may serve anything. A signature    *)
(* cannot be forged; a liar may sign with a key of its own. A digest       *)
(* stands for the output it is taken of.                                   *)
(***************************************************************************)
EXTENDS Naturals

CONSTANTS
    Callers,      \* callers of engine()
    Genuine,      \* the network's key
    Forged,       \* a key of the liar
    DWalletKeys,  \* the network keys the callers' dWallets name
    CrossCheck,   \* FALSE: 'not-cross-checked'
    DirectReads,  \* the networks readSolanaNetworkKeyOutputVerified is called on
    Window,       \* CROSS_CHECK_WINDOW_MS, in retry intervals
    Budget,       \* RESHARE_RECORD_WAIT.budgetMs, in pauses
    MaxConnects   \* a bound on the connections made

ASSUME ConnectionAssumption ==
    /\ CrossCheck \in BOOLEAN
    /\ Window \in Nat /\ Budget \in Nat
    /\ MaxConnects \in Nat \ {0}
    /\ Genuine # Forged
    /\ DWalletKeys \subseteq {Genuine, Forged}
    /\ DirectReads \subseteq {"custom", "listed"}

VARIABLES
    stage,     \* how far the chain's records have come
    network,   \* "custom", or "listed" for mainnet and testnet
    liar,      \* the endpoint that lies, or "nobody"
    latest,    \* #latestKey: None, "asking", or a key
    engines,   \* #engines: the job that connects or connected each key
    jobs,      \* the connections and the direct read
    callers    \* where each caller of engine() stands

vars == <<stage, network, liar, latest, engines, jobs, callers>>

None == "none"
Keys == {Genuine, Forged}
Jobs == 1 .. MaxConnects
Endpoints == {"first", "second"}

\* The custom network's keys, or the keys the SDK lists.
TrustedKeys == {Genuine}

-----------------------------------------------------------------------------
(* The chain, and what its endpoints answer.                               *)

\* The key is registered, its record signed, epoch 2 shown, the reshare for
\* epoch 2 recorded, and that record signed.
LastStage == 5
EpochAt(s) == IF s >= 3 THEN 2 ELSE 1
DkgMessage(digest) == [kind |-> "dkg", epoch |-> 0, digest |-> digest]
ReshareMessage(epoch, digest) == [kind |-> "reshare", epoch |-> epoch, digest |-> digest]
SignedAt(s) ==
    {[signer |-> Genuine, message |-> DkgMessage("dkg")] : n \in {2} \cap (0 .. s)}
    \cup {[signer |-> Genuine, message |-> ReshareMessage(2, "reshare")] : n \in {5} \cap (0 .. s)}

Unsigned == [signer |-> None, message |-> [kind |-> None, epoch |-> 0, digest |-> None]]
\* All zeros, no VersionedAttestationProof, or of another version.
Undecodable == [signer |-> None, message |-> [kind |-> "bad", epoch |-> 0, digest |-> None]]
NoRecord == [digest |-> None, proof |-> Unsigned]

\* What the chain holds at stage s.
KeyAt(s, key) ==
    IF key # Genuine \/ s < 1 THEN NoRecord
    ELSE [digest |-> "dkg",
          proof |-> IF s < 2 THEN Unsigned
                    ELSE [signer |-> Genuine, message |-> DkgMessage("dkg")]]
ReshareAt(s, epoch) ==
    IF epoch # 2 \/ s < 4 THEN NoRecord
    ELSE [digest |-> "reshare",
          proof |-> IF s < 5 THEN Unsigned
                    ELSE [signer |-> Genuine, message |-> ReshareMessage(2, "reshare")]]

\* A liar's record: any digest, with a signature that was made, one of its own,
\* or none.
Lies(Message(_)) ==
    {NoRecord} \cup
    {[digest |-> digest, proof |-> proof] :
        digest \in {"dkg", "reshare", "fake"},
        proof \in {Unsigned, Undecodable} \cup SignedAt(stage)
            \cup {[signer |-> Forged, message |-> Message(d)] : d \in {"dkg", "reshare", "fake"}}}

\* readKeyThrough: the account of a network key, at one position.
KeyAnswers(endpoint, key) ==
    {[position |-> 0, value |-> value] :
        value \in IF liar = endpoint
                  THEN {NoRecord, KeyAt(LastStage, Genuine), [digest |-> "fake", proof |-> Unsigned]}
                  ELSE {KeyAt(s, key) : s \in 0 .. stage}}

\* readEpoch of the SystemState account: the epoch is its own position.
EpochAnswers(endpoint) ==
    {[position |-> epoch, value |-> [digest |-> "epoch", proof |-> Unsigned]] :
        epoch \in IF liar = endpoint THEN 1 .. 3 ELSE {EpochAt(s) : s \in 0 .. stage}}

\* dkgRecordThrough and reshareRecordThrough, through the first endpoint.
DkgRecords(key) ==
    IF liar = "first" THEN Lies(DkgMessage) ELSE {KeyAt(s, key) : s \in 0 .. stage}
ReshareRecords(epoch) ==
    IF liar = "first" THEN LET Message(digest) == ReshareMessage(epoch, digest) IN Lies(Message)
    ELSE {ReshareAt(s, epoch) : s \in 0 .. stage}

\* What a validator serves for a key.
Outputs ==
    {served \in [key : Keys, dkg : {"dkg", "fake"}, reshare : {None, "reshare", "fake"},
                 epoch : {1, 2}] :
        served.reshare = None => served.epoch = 1}

-----------------------------------------------------------------------------
NoRead == [what |-> None, key |-> None, answers |-> [e \in Endpoints |-> [position |-> 0, value |-> NoRecord]],
           waits |-> {}, target |-> 0, window |-> 0]
NoServed == [key |-> None, dkg |-> None, reshare |-> None, epoch |-> 0]
NoJob == [kind |-> None, key |-> None, pc |-> None, why |-> None, read |-> NoRead,
          served |-> NoServed, epoch |-> 0, left |-> 0]

CallerStates == {"idle", "latest", "wait", "done", "thrown"}

\* What a record, an answer, a read and a job hold.
Digests == {None, "dkg", "reshare", "fake", "epoch"}
Records ==
    [digest : Digests,
     proof : [signer : Keys \cup {None},
              message : [kind : {None, "bad", "dkg", "reshare"}, epoch : Nat, digest : Digests]]]
Reads ==
    [what : {None, "key", "epoch"}, key : Keys \cup {None},
     answers : [Endpoints -> [position : Nat, value : Records]],
     waits : SUBSET Endpoints, target : Nat, window : 0 .. Window]
JobRecords ==
    [kind : {None, "engine", "read"}, key : Keys \cup {None},
     pc : {None, "registered", "epoch", "serve", "dkg", "dkgSigner", "reshare",
           "reshareSigner", "up", "failed"},
     why : {None, "refused", "disagree"}, read : Reads,
     served : [key : Keys \cup {None}, dkg : Digests, reshare : Digests, epoch : Nat],
     epoch : Nat, left : 0 .. Budget]

\* Every connection's state, and the chain's.
TypeOK ==
    /\ stage \in 0 .. LastStage
    /\ network \in {"custom", "listed"}
    /\ liar \in Endpoints \cup {"nobody"}
    /\ latest \in Keys \cup {None, "asking"}
    /\ engines \in [Keys -> 0 .. MaxConnects]
    /\ jobs \in [Jobs -> JobRecords]
    /\ callers \in [Callers -> [pc : CallerStates, job : 0 .. MaxConnects]]

Init ==
    /\ stage = 0
    /\ network \in {"custom", "listed"}
    /\ liar \in Endpoints \cup {"nobody"}
    /\ latest = None
    /\ engines = [key \in Keys |-> 0]
    /\ jobs = [j \in Jobs |-> NoJob]
    /\ callers = [c \in Callers |-> [pc |-> "idle", job |-> 0]]

\* The network writes and signs its records, and moves the epoch.
NetworkAdvances ==
    /\ stage < LastStage
    /\ stage' = stage + 1
    /\ UNCHANGED <<network, liar, latest, engines, jobs, callers>>

-----------------------------------------------------------------------------
(* Jobs.                                                                   *)

Moves(j, job) ==
    /\ jobs' = [jobs EXCEPT ![j] = job]
    /\ UNCHANGED <<stage, network, liar, latest, engines, callers>>

\* A failed connection is forgotten before anyone sees that it failed.
Fails(j, why) ==
    /\ jobs' = [jobs EXCEPT ![j] = [NoJob EXCEPT !.kind = jobs[j].kind, !.key = jobs[j].key,
                                                 !.pc = "failed", !.why = why]]
    /\ engines' = [key \in Keys |-> IF engines[key] = j THEN 0 ELSE engines[key]]
    /\ UNCHANGED <<stage, network, liar, latest, callers>>

\* crossCheckedAccountRead of a key's account or the epoch. Registrations are
\* cross-checked on a custom network only, where no list fixes them.
Crossed(what) == CrossCheck /\ (what = "epoch" \/ network = "custom")
Reading(what, key) ==
    [NoRead EXCEPT !.what = what, !.key = key,
        !.waits = IF Crossed(what) THEN Endpoints ELSE {"first"},
        !.window = IF Crossed(what) THEN Window ELSE 0]

\* The steps of a job that read through crossCheckedAccountRead.
ReadSteps == {"registered", "epoch", "dkgSigner", "reshareSigner"}
IsReading(j) == jobs[j].pc \in ReadSteps

\* Within verifyNetworkKeyOutput, every read shares one deadline.
Verifying(j) == jobs[j].pc \in {"dkg", "dkgSigner", "reshare", "reshareSigner"}

\* An endpoint answers. A re-read answer replaces the old one only at or past
\* the target.
ReadAnswers(j, endpoint) ==
    LET read == jobs[j].read IN
    /\ IsReading(j)
    /\ endpoint \in read.waits
    /\ \E answer \in IF read.what = "epoch" THEN EpochAnswers(endpoint)
                     ELSE KeyAnswers(endpoint, read.key) :
          Moves(j, [jobs[j] EXCEPT
              !.read.waits = @ \ {endpoint},
              !.read.answers[endpoint] = IF answer.position >= read.target THEN answer ELSE @])

\* An endpoint's read rejects, or its account does not read as one.
ReadFails(j) ==
    /\ IsReading(j) \/ jobs[j].pc \in {"dkg", "reshare"}
    /\ Fails(j, "refused")

\* Mutant: the whole account is compared, its proof included.
SameAccount(first, second) == first = second

\* same: an epoch, or a key's account by its key and digest, whatever its proof.
Same(first, second) ==
    /\ first.position = second.position
    /\ first.value.digest = second.value.digest

Lagging(read) ==
    LET first == read.answers["first"]
        second == read.answers["second"]
    IN IF first.value = NoRecord THEN "first"
       ELSE IF second.value = NoRecord THEN "second"
       ELSE IF first.position < second.position THEN "first"
       ELSE IF second.position < first.position THEN "second"
       ELSE None

\* Where a read of the registration of a job's key or of a signer leads.
Registered(j) ==
    IF jobs[j].pc = "registered"
    THEN [jobs[j] EXCEPT !.pc = "epoch", !.read = Reading("epoch", None)]
    ELSE IF jobs[j].pc = "dkgSigner" /\ jobs[j].served.reshare # None
    THEN [jobs[j] EXCEPT !.pc = "reshare", !.read = NoRead]
    ELSE [jobs[j] EXCEPT !.pc = "up", !.read = NoRead, !.left = 0]

\* What follows a read's answer. connect refuses a key that is not one of the
\* custom network's, and throws for every named network.
Returns(j, answer) ==
    IF jobs[j].pc = "epoch"
    THEN Moves(j, [jobs[j] EXCEPT !.pc = "serve", !.read = NoRead, !.epoch = answer.position])
    ELSE IF \/ answer.value = NoRecord
            \/ jobs[j].pc = "registered" /\ ~(network = "custom" /\ jobs[j].key \in TrustedKeys)
    THEN Fails(j, "refused")
    ELSE Moves(j, Registered(j))

\* Mutant: of two epochs the later is taken.
LaterWins(j) ==
    LET read == jobs[j].read
        first == read.answers["first"]
        second == read.answers["second"]
    IN /\ IsReading(j) /\ read.waits = {}
       /\ IF ~Crossed(read.what) \/ Same(first, second) THEN Returns(j, first)
          ELSE IF Lagging(read) = None THEN Fails(j, "disagree")
          ELSE Returns(j, read.answers[IF Lagging(read) = "first" THEN "second" ELSE "first"])

\* Both answered: they agree, or the one that lags is read again after a pause.
Compare(j) ==
    LET read == jobs[j].read
        first == read.answers["first"]
        second == read.answers["second"]
    IN /\ IsReading(j) /\ read.waits = {}
       /\ IF ~Crossed(read.what) \/ Same(first, second) THEN Returns(j, first)
          ELSE IF Lagging(read) = None THEN Fails(j, "disagree")
          ELSE IF read.window < 1 THEN Fails(j, "refused")
          ELSE Moves(j, [jobs[j] EXCEPT
                   !.read.waits = {Lagging(read)},
                   !.read.window = @ - 1,
                   !.left = IF Verifying(j) /\ @ > 0 THEN @ - 1 ELSE @,
                   !.read.target = IF first.position > second.position
                                   THEN first.position ELSE second.position])

\* The validators serve the key's output (networkKeyOutputRetried), or fail.
Serve(j) ==
    /\ jobs[j].pc = "serve"
    /\ \/ Fails(j, "refused")
       \/ \E served \in Outputs :
             IF served.key # jobs[j].key THEN Fails(j, "refused")
             ELSE Moves(j, [jobs[j] EXCEPT !.pc = "dkg", !.served = served, !.left = Budget])

-----------------------------------------------------------------------------
(* verifyNetworkKeyOutput.                                                 *)

ServedDigest(j) == IF jobs[j].pc = "dkg" THEN jobs[j].served.dkg ELSE jobs[j].served.reshare
MessageOf(j, digest) ==
    IF jobs[j].pc = "dkg" THEN DkgMessage(digest)
    ELSE ReshareMessage(jobs[j].served.epoch, digest)

\* Mutant: the proof is not checked against the record's own message.
ProofOfAnything(j, record) == record.proof \notin {Unsigned, Undecodable}

\* verifyNetworkKeyRecordProof: the signature is over the message rebuilt from
\* the record's fields.
ProofVerifies(j, record) ==
    /\ record.proof \notin {Unsigned, Undecodable}
    /\ record.proof.message = MessageOf(j, record.digest)

\* verifyAgainstRecord and verifyRecordProof, up to the signer's registration.
\* On a listed network no other key is a signer.
Judge(j, record) ==
    IF /\ record.digest = ServedDigest(j)
       /\ ProofVerifies(j, record)
       /\ network = "listed" => record.proof.signer \in TrustedKeys
    THEN Moves(j, [jobs[j] EXCEPT
             !.pc = IF @ = "dkg" THEN "dkgSigner" ELSE "reshareSigner",
             !.read = Reading("key", record.proof.signer)])
    ELSE Fails(j, "refused")

\* Mutant: every read starts the deadline again.
RecordReadRestartsBudget(j) ==
    /\ jobs[j].pc \in {"dkg", "reshare"}
    /\ \E record \in IF jobs[j].pc = "dkg" THEN DkgRecords(jobs[j].key)
                     ELSE ReshareRecords(jobs[j].served.epoch) :
          IF jobs[j].pc = "dkg" /\ record = NoRecord THEN Fails(j, "refused")
          ELSE IF /\ record # NoRecord
                  /\ record.digest # ServedDigest(j) \/ record.proof # Unsigned
          THEN Judge(j, record)
          ELSE Moves(j, [jobs[j] EXCEPT !.left = Budget])

\* recordOnceSigned: one read of a record, and the pause after one that is
\* missing or unsigned. A listed key's DKG record holds the listed digest.
RecordRead(j) ==
    /\ jobs[j].pc \in {"dkg", "reshare"}
    /\ \E record \in IF jobs[j].pc = "dkg" THEN DkgRecords(jobs[j].key)
                     ELSE ReshareRecords(jobs[j].served.epoch) :
          IF /\ jobs[j].pc = "dkg"
             /\ record = NoRecord \/ (network = "listed" /\ record.digest # "dkg")
          THEN Fails(j, "refused")
          ELSE IF /\ record # NoRecord
                  /\ record.digest # ServedDigest(j) \/ record.proof # Unsigned
          THEN Judge(j, record)
          ELSE IF jobs[j].left < 1 THEN Fails(j, "refused")
          ELSE Moves(j, [jobs[j] EXCEPT !.left = @ - 1])

\* Time passes for a read that is bounded.
Tick(j) ==
    LET read == jobs[j].read
        crossed == IsReading(j) /\ Crossed(read.what) /\ read.waits # {}
    IN /\ crossed \/ Verifying(j)
       /\ crossed => read.window > 0
       /\ Verifying(j) => jobs[j].left > 0
       /\ Moves(j, [jobs[j] EXCEPT
              !.read.window = IF crossed THEN @ - 1 ELSE @,
              !.left = IF Verifying(j) THEN @ - 1 ELSE @])

\* The timer of the window, or of withinTimeLeft, ends a read that is open.
TimesOut(j) ==
    LET read == jobs[j].read IN
    /\ \/ IsReading(j) /\ Crossed(read.what) /\ read.waits # {} /\ read.window = 0
       \/ Verifying(j) /\ jobs[j].left = 0
    /\ Fails(j, "refused")

-----------------------------------------------------------------------------
(* The client's cache of connections.                                      *)

Free(j) == jobs[j] = NoJob /\ \A i \in Jobs : i < j => jobs[i] # NoJob

\* A bound: jobs of different keys share nothing but the chain they read, so one
\* runs at a time.
OneAtATime == \A j \in Jobs : jobs[j].pc \in {None, "up", "failed"}

\* #connect: the key is registered (on a listed network, and listed).
ConnectTo(key) ==
    [NoJob EXCEPT !.kind = "engine", !.key = key, !.pc = "registered",
                  !.read = Reading("key", key)]

\* Mutant: the connection is kept only once it is made.
ConnectAnew(c, key) ==
    \E j \in Jobs :
        /\ Free(j)
        /\ jobs' = [jobs EXCEPT ![j] = ConnectTo(key)]
        /\ engines' = [engines EXCEPT ![key] = j]
        /\ callers' = [callers EXCEPT ![c] = [pc |-> "wait", job |-> j]]

\* The connection for a key: the one that is kept, or a new one, kept at once.
Join(c, key) ==
    \/ /\ engines[key] # 0
       /\ callers' = [callers EXCEPT ![c] = [pc |-> "wait", job |-> engines[key]]]
       /\ UNCHANGED <<engines, jobs>>
    \/ /\ engines[key] = 0
       /\ network = "listed" => key \in TrustedKeys
       /\ OneAtATime
       /\ \E j \in Jobs :
             /\ Free(j)
             /\ jobs' = [jobs EXCEPT ![j] = ConnectTo(key)]
             /\ engines' = [engines EXCEPT ![key] = j]
             /\ callers' = [callers EXCEPT ![c] = [pc |-> "wait", job |-> j]]
    \/ /\ engines[key] = 0
       /\ network = "listed" /\ key \notin TrustedKeys
       /\ callers' = [callers EXCEPT ![c] = [pc |-> "thrown", job |-> 0]]
       /\ UNCHANGED <<engines, jobs>>

\* engine with a dWallet's own network key.
EngineOf(c, key) ==
    /\ callers[c].pc = "idle"
    /\ Join(c, key)
    /\ UNCHANGED <<stage, network, liar, latest>>

\* engine without one: the latest key, asked for once.
Engine(c) ==
    /\ callers[c].pc = "idle"
    /\ callers' = [callers EXCEPT ![c].pc = "latest"]
    /\ latest' = IF latest = None THEN "asking" ELSE latest
    /\ UNCHANGED <<stage, network, liar, engines, jobs>>

LatestAnswers ==
    /\ latest = "asking"
    /\ latest' \in Keys
    /\ UNCHANGED <<stage, network, liar, engines, jobs, callers>>

LatestFails ==
    /\ latest = "asking"
    /\ latest' = None
    /\ callers' = [c \in Callers |-> IF callers[c].pc = "latest"
                                     THEN [pc |-> "thrown", job |-> 0] ELSE callers[c]]
    /\ UNCHANGED <<stage, network, liar, engines, jobs>>

EngineOfLatest(c) ==
    /\ callers[c].pc = "latest"
    /\ latest \in Keys
    /\ Join(c, latest)
    /\ UNCHANGED <<stage, network, liar, latest>>

\* The caller's await of the connection ends.
Settles(c) ==
    /\ callers[c].pc = "wait"
    /\ jobs[callers[c].job].pc \in {"up", "failed"}
    /\ callers' = [callers EXCEPT
          ![c].pc = IF jobs[callers[c].job].pc = "up" THEN "done" ELSE "thrown"]
    /\ UNCHANGED <<stage, network, liar, latest, engines, jobs>>

\* readSolanaNetworkKeyOutputVerified: a listed key on a listed network.
ReadVerified ==
    /\ network \in DirectReads
    /\ OneAtATime
    /\ \A j \in Jobs : jobs[j].kind # "read"
    /\ \E j \in Jobs :
          /\ Free(j)
          /\ jobs' = [jobs EXCEPT ![j] = [NoJob EXCEPT !.kind = "read", !.key = Genuine,
                                                       !.pc = "serve"]]
    /\ UNCHANGED <<stage, network, liar, latest, engines, callers>>

-----------------------------------------------------------------------------
JobStep(j) ==
    \/ \E endpoint \in Endpoints : ReadAnswers(j, endpoint)
    \/ ReadFails(j) \/ Compare(j) \/ Serve(j) \/ RecordRead(j) \/ Tick(j) \/ TimesOut(j)

Next ==
    \/ NetworkAdvances
    \/ \E j \in Jobs : JobStep(j)
    \/ \E c \in Callers :
          \/ \E key \in DWalletKeys : EngineOf(c, key)
          \/ Engine(c) \/ EngineOfLatest(c) \/ Settles(c)
    \/ LatestAnswers \/ LatestFails
    \/ ReadVerified

Spec == Init /\ [][Next]_vars

\* A read that is not cross-checked and has no deadline is assumed to settle,
\* and so are the validators' reads, which have their own deadlines. Every other
\* read may stay open until its timer.
UnboundedRead(j) ==
    /\ ~Crossed(jobs[j].read.what)
    /\ ~Verifying(j)
    /\ ReadAnswers(j, "first")

Fairness ==
    /\ \A j \in Jobs :
          /\ WF_vars(Compare(j)) /\ WF_vars(Serve(j)) /\ WF_vars(Tick(j))
          /\ WF_vars(TimesOut(j)) /\ WF_vars(UnboundedRead(j))
    /\ \A c \in Callers : WF_vars(EngineOfLatest(c)) /\ WF_vars(Settles(c))
    /\ WF_vars(LatestAnswers)

FairSpec == Spec /\ Fairness

-----------------------------------------------------------------------------
(* Properties.                                                             *)

\* Whatever the validators and one endpoint serve, what a connection derives its
\* parameters from is what the network made: the trusted key's own DKG output,
\* and a reshare of it only for the epoch it was made for, both already signed.
OutputsAreGenuine ==
    \A j \in Jobs : jobs[j].pc = "up" =>
        LET served == jobs[j].served IN
        /\ served.key = Genuine
        /\ served.dkg = "dkg" /\ stage >= 2
        /\ served.reshare # None =>
              served.reshare = "reshare" /\ served.epoch = 2 /\ stage >= 5

\* The epoch a connection starts from is one the chain has shown: one endpoint
\* cannot move it forward.
EpochWasShown ==
    \A j \in Jobs : jobs[j].kind = "engine" /\ jobs[j].pc = "up" =>
        jobs[j].epoch \in 1 .. EpochAt(stage)

\* Two endpoints that only lag are never found to disagree at one position.
LagIsNotALie ==
    \A j \in Jobs : jobs[j].why = "disagree" => liar # "nobody"

\* A network key has one connection at a time, also while it is being made.
ConnectionsAreShared ==
    \A i, j \in Jobs :
        /\ jobs[i].kind = "engine" /\ jobs[j].kind = "engine"
        /\ jobs[i].key = jobs[j].key
        /\ jobs[i].pc # "failed" /\ jobs[j].pc # "failed"
        => i = j

\* Every call of engine() ends, also when an endpoint never answers and the
\* network never writes or signs a record.
CallsEnd ==
    \A c \in Callers :
        callers[c].pc \in {"latest", "wait"} ~>
            callers[c].pc \in {"done", "thrown"}

=============================================================================
