# TLA+ models of the ika SDK and its example programs

This directory models the parts of ika-pre-alpha that keep state over several
steps and several actors: how the TypeScript SDK connects to the ika network,
sends requests across epoch changes, fails over between validators, checks what
validators and chain endpoints answer, and decides whose share a dWallet's is;
and how the multisig example program decides. TLC checks the models on small
instances; TLAPS proves every safety property, and both refinements, for every
value of the constants. Paths below are relative to the repository root; `core/` is
`sdk/core/src/` and `solana/` is `sdk/solana/src/`.

    tlc -config MCRequestSubmissionKinds.cfg MCRequestSubmission   # a run
    tlapm RequestSubmissionProofs.tla                              # the proofs

`PROJECT.json` lists the components, the runs, which source lines each
definition models (`map`), a mutant of the code for each property, the hazards
and the theorems.

## 1. The system

An application holds a *dWallet*: a key whose secret is split between the user
and the ika network. To make, share or use one, it sends a signed **request** to
one or more of the network's **validators** over gRPC. A request names an epoch
and opens a **session**, which the network runs at most once, charges for, and
settles on a chain (Solana): a delivery into a voucher, a dWallet or a share
record, or a charge record. What a session makes is attested under a **network
key**. On-chain programs may own dWallets and issue **vouchers** for signatures
through cross-program calls (CPI).

| Part | State it keeps | Operations | What makes it correct |
|---|---|---|---|
| Engine `core/common/engine.ts` (`Network`) | the latest chain epoch `#epoch`; parameters of the network key; per call: session, request bytes, rebuilds left | `connect`; request methods, `#submit`, `#submitWithPresign`, `#signAndSend`, resend loops, `#outcomeAfterEpochClose` | a request runs at most once whatever is sent again or rebuilt; what is thrown about it is true; an answer is the answer to this request; every call ends |
| Request records `core/common/request-records.ts` | none (reads the chain) | `settledAtEpoch`, `findSession` | `notRun` only when nothing ran, or will |
| Client base `core/common/ika-client-base.ts`, `wait.ts` | engine and latest-key caches | every request of the API, `#withPresign`, `resolveSession`, waits | a taken presign is replaced, never used twice; `neverRan` is final; connections are shared; a created dWallet is on the chain |
| Node transport `core/grpc/node-transport.ts`, `transport.ts` | `service`, `furtherServices`, `pinnedBuilds`, `closed` | `serviceReady`, `unary`, `renewAfterConnectionFailure`, `close`; `CommitteePin` | no channel leaks, no stale key is installed, no call is stranded |
| Committee `core/grpc/committee.ts` | verified members | committee check, membership | only a checked committee pins a key |
| gRPC client `core/grpc/dwallet-client.ts` | recorded refusals per validator | failover of calls, repeated reads, `submitTransactionAcrossEpochClose` | a refused validator is tried again in time; a request is not run twice without cause |
| Web transport `core/grpc/web-transport.ts` | calls in flight | framing, status mapping, deadlines, `close` | the outcome depends on the bytes, not on how they arrive; memory is bounded |
| Share ownership, acceptance, usability `core/grpc/share-ownership.ts`, `dwallet-share-acceptance.ts`, `solana/usability.ts` | the last result and its age | which records make a dWallet usable; acceptances; request builders | nobody signs with, or accepts, a share that is not theirs |
| Attestations and answer checks `core/grpc/attestation-record.ts`, `answer-checks.ts`, `requests.ts`, `signature-verification.ts`, `solana/record-checks.ts` | none | what is compared with what | a real attestation of something else is refused |
| Network key outputs and read cross-check `core/grpc/network-key-output.ts`, `read-cross-check.ts`, `solana/network-key-output.ts`, `committee-reader.ts` | the deadline of a wait | reads through two endpoints, waits for records | one lying endpoint changes nothing; lag is not a lie |
| Wire formats, cryptography, key derivation | none | pure functions of bytes | round trips, verification |
| Solana client `solana/` (accounts, instructions, transactions) | none | encodings | encodings match the programs |
| CPI crates `crates/*` | none | instruction encodings | as above |
| Multisig program `examples/multisig/*` | multisig, transaction and approval accounts | create_multisig, create_transaction, approve, reject | a voucher needs the quorum of its own multisig; no transaction is stuck |
| Voting program `examples/voting/*` | proposal and vote accounts | create_proposal, cast_vote | as above, with an open electorate |

**How they interact.** The client base calls the engine; several calls of one
connection run at once on the JavaScript event loop and share `#epoch`. The
engine calls the gRPC client, which hands the same bytes to several validators
through one of the two transports. The engine reads the chain's epoch and
records through callbacks that may fail, lag or, through one endpoint, lie. The
example programs are called by anybody with accounts of the caller's choice, and
call the dWallet program.

**What is hard.** A closing refusal is one validator's word while another may
still run its copy; the chain shows an epoch before the validators enter it;
re-encryptions settle one epoch later than the rest; records of one voucher may
be another call's; a setup of a pinned channel may end after it was forgotten,
or after the transport was closed; a validator may answer with anything the
network ever signed; an endpoint may hide a record; two imports of one key look
alike; what a caller passed may change while it is checked; a CPI fails in the
middle of the deciding vote. `PROJECT.json` lists these as hazards, each at its
line.

## 2. Modules

| Module | Models |
|---|---|
| `IkaNetwork` | the network and chain, external to the repository: only what the SDK's code and comments rely on |
| `RequestPromise` | abstract specification: what an application may rely on about a request, with no sessions, epochs, records or rebuilds |
| `RequestSubmission` | one submission, end to end (engine, request records, presign retry, `resolveSession`); extends `IkaNetwork`, and is shown to implement `RequestPromise` |
| `DWalletRequests` | every request of the client from its arguments to its result: the checks before it is sent and of its answer, and the waits; extends `Attestations` |
| `NetworkConnection` | connections: the caches, `Network.connect`, the check of a network key's outputs, the read cross-check |
| `ValidatorCalls` | the gRPC client over any transport |
| `NodeTransport` | the channels of the Node transport |
| `CommitteePin` | the committee check that a pinned setup runs, shared by concurrent setups |
| `WebTransport` | the browser transport, with its framing |
| `Attestations` | the checks of signed records, as operators |
| `ShareOwnership` | the ownership check, the acceptances and the request builders; extends `Attestations` |
| `QuorumDecision` | abstract specification: a vote per proposal, with sets instead of counters and accounts |
| `Multisig` | the multisig program (pinocchio), shown to implement `QuorumDecision` |
| `*Proofs` | the inductive invariant and the theorems of the module in its name; `NodeTransportProofs` has those of `CommitteePin` too |
| `MC*` | instances for TLC |

The modules are layers of one client and meet at calls: a step of
`DWalletRequests` in `"sent"` is a `RequestSubmission`, whose `Send` is a
`submit` of `ValidatorCalls`, whose attempt at one validator is a call of
`NodeTransport` or `WebTransport`; a pinned build of `NodeTransport` is a setup
of `CommitteePin`; a step of `DWalletRequests` in `"usable"` is a check of
`ShareOwnership`. Each module takes what the layer below may do (return, fail,
end late) as a free choice, so it holds for every behaviour the lower module has.

### RequestSubmission and IkaNetwork

*State.* `epoch` is `Network.#epoch`. Each call has a step `pc`, its arguments,
the epoch of the presign it holds, `rebuildsLeft` (argument of `#submit`),
`attempt` (loop of `#withPresign`), the session it opened last, its result, and
the verdict of `resolveSession`. `owner` records which call opened a session.
The network part keeps each session's signed request, whether a validator holds
a copy (`handed`), its `fate`, and what the chain holds (`record`, `closed`).

*Actions.* `Start` is the application's call; `TakePresign` one pass of
`#withPresign`; `OpenSession` is `#readChainEpoch` and the fresh session, or the
early `PresignExpiredWithTheEpoch`; `Send`, `Resend` and `DepositUnread` are the
send loops; `Answered`, `PoolEmpty`, `ClosedBeforeAnswer` and `SubmitFails` are
what ends them; `PollEpoch`, `WaitEndsUnknown` and `StartLookup` are
`#outcomeAfterEpochClose`; `LookupRecord` and `LookupCharges` are the two reads
of `findSession`, between which the rest of the system moves; `NeverRan`,
`Found` and `NotKnown` are what `#submit`, `#submitWithPresign` and
`resolveSession` make of the outcome.

*Promise.* `RequestPromise` keeps four facts: what each call asked for, which
calls ran, what the chain shows, and what each caller was told. A call runs at
most once, and only a call that ran writes, where nothing of its kind was. What
is told is backed: an answer by the call's run, a signature by what the chain
shows at its place, `ran` by either, `neverRan` by there being no run. After any
of these final words the call never runs; after `failed` or `pending` it still
may. `Shown`, `RanCalls` and `Told` read these facts off the sessions, the
records and the results (`KeepsThePromise`).

*Abstractions.* A session identifier is a fresh value (the code derives it from
the epoch, the key and random bytes); charge ids are identified with the session
they are derived from; a request's payload is its kind, target and epoch.

*Assumptions about the network*, all of which the SDK's own comments state: a
session is started only in the epoch it names and before its cutoff; a started
session is settled before the chain shows the next epoch (a re-encryption: the
one after); records are never removed; an empty-pool refusal is free and final.
One more assumption is the model's: **a record read is not older than the epoch
read before it.** The code reads the epoch and then the records through
callbacks that carry no slot, so it cannot tell a record read that lags behind
the epoch read; with such reads `notRun` would not be final. It is listed as a
hazard without a property.

### DWalletRequests and Attestations

*State.* A slot is one call: its plan (the arguments), its step, whether the
deadline of its wait has passed, the session of its last request, the presign and
scheme it signs with, and its result. `chain` and `vouchers` are what the network
and the owner wrote.

*Actions.* `Create`, `RequestPresign`, `RequestSign`, `FutureSign` and
`ChangeShare` are the methods of `IkaClientBase` up to their first wait;
`SignTerms` the voucher's read; `Usable` the ownership check's end and what the
engine compares before it sends; `PoolEmpty` one refusal of the presign pool;
`PresignAnswered`, `Created`, `SignatureAnswered`, `FutureSignAnswered` and
`ShareChanged` the checks of an answer, each of which ends the call or leads to
the next wait; `ShareRead` the share on the chain; `WaitEnds` a wait's deadline;
`CallFails` any answer that no check takes.

*Abstractions.* Cryptography is symbolic. `Attestations.Signed` is the set of
attestations that were ever signed, with any content; a signature verifies if and
only if it is a member. A digest stands for the bytes, an output for its key and
the user's contribution. A validator may answer with **any** member, beside any
network key, or with any signature over an approved message: a check that
compares too little takes one that belongs elsewhere. The instance holds the
real answers of both slots, earlier ones, another user's presign and a
stranger's attestations; its plans include mixed-up arguments.

### ShareOwnership

*State.* The committed sessions, the accepted shares and the acceptance
signatures ever made; which of the two endpoints may lie; the one call that runs
(the calls share no state but `result`, so one at a time gives every
interleaving with the chain); the last issued result with its age; the request
in hand. The call keeps what each endpoint answered of the public share
(`answers`) and, as history, whether the answer of the one that does not lie was
behind the chain (`lagged`). *Actions.* `AssertDWalletUsable` and `ReadDWalletVerified` begin a
check, `ReaderTakes`, `Lookup`, `ReadDWallet`, `AnswerPublicShare` (one endpoint's
answer, and in the step of the last one the comparison, `ReadPublicShare`), `ReadOwnShare`
and `ReadClassicShare` are its reads in order, with the chain moving between
them; `SignWithReader`, `SignWithResult` and the builders use a result;
`SignDWalletShareAcceptance`, and `SignReEncryptedShareAcceptance` with
`ReadSenderShare` and `DecryptAndSign`, make acceptances; `Commit` and `Accept`
are the chain's. An endpoint that does not lie may be behind: it answers the public
share as absent though it is committed, or a share as not accepted yet, and any
read may end the call refused, as one does that finds no record. The instance has
two imports of one key, a re-encrypted and a
public share, a migrated dWallet with a classic share, and a stranger's record.

### NetworkConnection

`stage` is how far the chain's records have come: the key registered, its record
signed, the next epoch shown, the reshare recorded, and signed. An honest
endpoint answers any stage up to it (lag), a lying one any record, with a
signature that exists or of its own key. A job is one `#connect` or one direct
verified read; `ReadAnswers`, `Compare` and `Tick` are the cross-check with its
window and rereads; `Serve` the validators' answer; `RecordRead` one read of
`recordOnceSigned`, `TimesOut` the shared deadline. `Engine`, `EngineOf`,
`Join`, `LatestAnswers` and `Settles` are the caches of `IkaClientBase`.

### ValidatorCalls

An answer is handled and the next validator asked in one step, since no await is
between them. Time passes in `Tick`, as the age of each refusal and the time left
of a wait. `AskNext` is the loop of `submitTransaction` and `read` with its skip
of refused validators; `AnswerOk` to `AnswerError` are the cases of its `catch`;
`SubmissionFailed`, `ReadEpoch`, `Build` and `PauseEnds` are
`submitTransactionAcrossEpochClose`; `KeysAttemptFailed` the repeated read of
the network keys. Which key a validator serves is open at every setup: a key may
be refused for the first time in the middle of an attempt (the committee rotated,
or someone is in between, `dwallet-client.ts:100-108`) and one that was refused may
be a member's later. Epochs close and advance, and an answer may be lost after the
request started (`TakenAndLost`). `refusalAge` and a call's `spoiled` are history:
which keys were refused, in any call, recently before its attempt began or since.

### NodeTransport

JavaScript runs one synchronous stretch at a time, so one action is the code
between two awaits. Channels are numbered in the order their construction began,
and a pinned build is named by the channel it makes. `BuildReturns` and
`TakeChannel` are two actions, because `close()` or a call may run between the
build's return and the continuation that installs the channel; `ForgetSettled`
is the `finally` that removes the build from `pinnedBuilds`. `WindowEnds` is the
timer of `beforeDeadline`, guarded by the build not having settled: a timer never
runs between a promise settling and the calls that await it, since those are
microtasks. `UnreachedKept`, `UnreachedDrops` and `UnreachedReplaces` are the
cases of `renewAfterConnectionFailure`. What a build does inside (chain reads,
committee check, TLS) is a step that may return, throw or never end.

### CommitteePin

A validator may serve any key and answer any committee that was ever signed; the
client must accept only keys of the committee of the chain's epoch or the next.
*State.* `chainEpoch` and `held` are `CommitteePin.chainEpoch` and
`VerifiedMembers`, shared by all setups; `aged` abstracts the clock: the last
read is older than `chainEpochMaxAgeMs`. Each setup has its step in `connect`,
the key it read, and the answer it checks. `since` and `agedAt` are history
variables of the properties: what was read when the setup began, and the chain's
epoch when a read last became too old.
*Actions.* `FetchCertificate`, `RefreshChainEpoch`, `CheckHeld` and `Conclude`
are `connect` between its awaits; `CommitteeAnswered`, `ReadFreshEpoch` (one read
of `freshChainEpoch`, recorded before the check decides) and `KeepCommittees` are
`readCommitteeFrom` and `verifyCommitteeAnswer`; `Connect` is a connection the
channel makes by itself, guarded by `reconnectCheck`.
*Abstractions.* Decoding, signatures and the signer's registration are a choice:
an answer that fails them is `Fails`, and so is a retry that ran out of time
(`ChainEpochRetry`). A chain read may lag by `MaxLag` epochs. The clock does not
move between steps that only promises separate (`Immediate`), as those are
microtasks.

### WebTransport

*State.* `closed` and `inFlight` are the transport's; of each call, the timer's
flag, whether its fetch was aborted, the head and body of its response and how
many bytes arrived. The reader has `chunks`, as views of the body, and `buffered`;
`copy` holds the locals of `read` (`count`, `copied`, `index`, `out`), and `data`
and `trailers` are those of `readUnaryAnswer`. `taken` and `rejected` are history.

*Actions.* `Arrive` is `push` up to its loop and `NextFrame` the loop's condition;
`CheckHeader`, `SkipHeader` and `TakeFrame` are what the body does after each of
its three reads, and `Copy` is one iteration of `read`. The code does not yield
inside `push`; a step of the timer or of `close()` that comes in between here only
sets flags that `push` does not look at. `Unary`, `Respond`, `BodyEnds`, `Reject`,
`TimeOut` and `Close` are the call; `HeadError` and `BodyEnds` have the order in
which HTTP status, header status and trailers decide.

*Abstractions.* A body is its bytes with the positions at which its frames start,
which the bytes determine (`WellFramed`); the code is never shown the positions.
Lengths are the four bytes of `getUint32`. The status line of a trailer frame is
its first byte. `GivenBy` is the reference an outcome is compared with: it looks
at the bytes that arrived as a whole and knows no chunks.

### Multisig and QuorumDecision

One instruction is one action, and a failing one changes nothing. A multisig is
named by its dWallet (its address is derived from it), a transaction by multisig
and index. The caller picks the accounts, so `Approve` and `Reject` range over
every multisig, transaction, member and dWallet, and the program's checks are
the guards. A member list is a set, since `create_multisig` refuses duplicates.
Handing a dWallet over and issuing a voucher are the dWallet program's.

## 3. Runs

| Run | Instance | Shows |
|---|---|---|
| `request_kinds` | 1 call of all 8 kinds, 3 sessions, 4 epochs, 2 rebuilds, 3 attempts, fair | implements the promise; at most one run; expired and `neverRan` are final; rebuilds name later epochs; the call ends |
| `request_shared_target` | 2 calls, 3 sessions, 1 target, 2 epochs | outcomes are not invented when two calls write one voucher |
| `transport_channels` | a pinned and an unpinned validator, 3 calls, 4 channels, fair | no leak, no stale install, no stranded call; every call ends |
| `committee_pin` | 2 setups, 2 keys, every sequence of committees over 3 epochs, lag 1 | only fresh committees are held; no member is refused; former members stay out |
| `multisig` | 2 dWallets, 3 users, every member set and threshold, 1 transaction each | implements the abstract vote; mixed accounts do not help; nothing is stuck |
| `validator_calls` | a signer across an epoch close and a reader of the keys, 2 validators, 2 epochs, fair | a key may be refused at any setup; refusals are recent and shared; a second run only after a lost answer; every call ends |
| `web_transport` | 17 bodies, ended anywhere, chunks of up to 12 bytes, 14 heads, fair | chunks do not matter; bytes kept are bounded; every call ends |
| `share_ownership` | 2 users, 9 signed attestations, either endpoint lying and the other one behind or not at each read | ownership means acceptance; one endpoint alone hides no public share; signing only for what was checked; custody starts with the creator |
| `network_connection` | 2 callers, 3 connects, lying or lagging endpoints, fair | only genuine outputs; lag is not a lie; connections are shared; every call ends |
| `dwallet_requests` | 2 calls of any of 17 plans, any signed answer, fair | no answer serves two calls; signatures are what was approved; created dWallets are on the chain; every call ends |
| `presign_expired_unsent` | violation | `PresignExpiredWithTheEpoch` is also thrown for a request that was sent |
| `ran_means_this_session` | violation | `ran` is also reported for a session that never ran |

*Bounds.* Two rebuilds and three presign attempts are the code's own constants;
three sessions let a call be rebuilt twice, and four epochs let a rebuilt
re-encryption reach its settlement epoch. Four channels let an unpinned channel
be replaced while a pinned one is built, forgotten and built again. Three epochs
let a committee be old, fresh and ahead of one chain read, and disjoint
committees make every change of epoch a change of members. Three members
give thresholds below, at and above half. Two validators are one that fails and
one to fail over to; the calls of `ValidatorCalls` meet only in the recorded
refusals, so a signer and a reader show every way they affect each other. Messages
of up to two bytes and a limit of two put a frame below, at and above the limit;
chunks of up to twelve bytes split a frame and its header at every byte, and hold
two frames. Two
requests at once are enough for one to get the other's answer. A window and a
budget of one step let a lagging endpoint catch up or not. The bounds are
`MaxEpoch`, `Sessions`, `MaxChannels`, `MaxTx`, `MaxChunk` and `MaxConnects`; a
behaviour stops at them, so most runs do not check for deadlock.
`transport_channels`, `committee_pin` and `validator_calls` do.

*Fairness.* In every module it is only what timers and the event loop give: a
timer fires, a settled promise is delivered, a call with a deadline ends.
Validators may stay silent for ever and the chain may never move.

- `RequestSubmission.CallFairness`: a chain read, a presign request and a
  computation end, well or with an error; the submit deadline and
  `EPOCH_CLOSE_WAIT_MS` pass. The wait's deadline is tested between two reads, so
  a chain read that never settles would hold the call: that a read ends is the
  RPC client's part. A pool presign's retries end with the sessions of the
  instance; `DWalletRequests` has their deadline.
- `NodeTransport`: the window's timer fires and a sent call has a deadline; a
  build may hang for ever.
- `ValidatorCalls`: time passes, and each attempt ends at its deadline at the
  latest. `WebTransport`: `push` runs to its end, the timer fires, and an aborted
  fetch rejects, also when chunks keep coming (strong fairness: the rejection
  waits while a chunk is cut, and comes at the next read of the body).
- `NetworkConnection`: the cross-check's and the record wait's timers fire, the
  validators' reads have deadlines. A chain read outside both (`UnboundedRead`)
  is assumed to settle: the code gives it no deadline.
- `DWalletRequests`: the deadlines of the waits pass and a read is taken; that a
  submission ends is `RequestSubmission.CallsEnd`, and that an ownership check
  ends is assumed of its chain reads.

The two violations are documentation that says more than the code does; the
findings in `PROJECT.json` quote the lines. In each the code's behaviour is safe:
the first charges nothing, the second refuses to send what would only be charged
again.

### Observations

What modelling the code showed, without a run of its own:

- `reject` of the multisig closes a transaction after
  `member_count - threshold + 1` rejections; the program's header says "when
  threshold rejections". `RejectedExactlyWhenHopeless` shows that the code's
  number is the right one.
- `core/common/engine.ts:530` and `:626`, `customOrListed`, and
  `ika-client-base.ts` test `'custom' in (network as object)`, which throws a
  `TypeError` when the network is a name. Listed networks have no keys yet, so a
  connect to one ends before; `NetworkConnection.Returns` has it as a failure.
- `ika-client-base.ts:949` says that each chain's record check compares a share's
  acceptance fields "last, after every other field". The Solana check compares
  `acceptance_digest` after `accepted`, so a share that is not accepted and has a
  wrong digest counts as on the chain. Its acceptance would still be checked.
- `requestSignature` does not compare the dWallet object's `publicKey` with the
  attested key, as the other operations do; the voucher's address is derived from
  that key, and the signature is verified under the attested output
  (`SignaturesAreAsked` holds for such an object).
- `verifyNetworkKeyOutput` takes an older reshare that is genuine, or none: what
  it promises is `OutputsAreGenuine`, not the latest output.
- `submitTransactionAcrossEpochClose` signs again under a new session on a closing
  refusal, without a lookup, so a request whose first copy started and whose
  answer was lost may run twice. `RunsAgainOnlyAfterLoss` shows that this is the
  only case. The engine does not use it: it looks the session up first.
- A creation whose share is not seen on the chain within `SHARE_RECORD_WAIT_MS`,
  or whose read fails once, throws and drops the new dWallet's object, although
  the network charged for it.
- The cross-check of the public share (`usability.ts:376-385`) takes absence from
  two endpoints at once, since absence has neither signature nor slot. An endpoint
  that hides the record together with another that only lags has a public share
  reported as encrypted. The code cannot tell this apart from a share that is not
  public, so `PublicIsNotHidden` excepts it, by `lagged`; without that exception
  TLC finds the behaviour.
- Without a cross-check on a custom network, one endpoint can show any signer as
  registered; the code documents it, and the runs have the cross-check on.

## 4. Proofs

Each `*Proofs` module states an inductive invariant `IInv`, proves that the
initial states satisfy it and that every action keeps it, and derives the
properties from it. TLC checked each `IInv` on the instance of the run before it
was proved. The theorems hold for every value of the constants that satisfies
the module's assumptions, which are listed at the end.

**`RequestSubmissionProofs`**: for any sets of calls, sessions and targets and
any bounds, `TypeOK`, `AtMostOneRun`, `NeverRanIsFinal` (of
`PresignExpiredWithTheEpoch` as of `neverRan`), `RebuildNamesLaterEpoch`,
`OutcomesAreReal`, and that it implements `RequestPromise`. `AtMostOneRun` is not
inductive:
a step that starts a session would break it if an earlier session of the call
could still be started. The invariant `IInv` therefore says that each session a
call replaced is `Dead`: refused for free, or not started in an epoch that the
chain has left. It needs `EpochsInv` (the chain is ahead of the validators by at
most one epoch, and only past the cutoff), `SettlementInv` (what the chain holds
for each settled session, and that only re-encryptions lag) and `CallInv` (a
call in the lookup has waited for the settlement epoch; one that reads the
charges has seen no delivery). The proof takes each action of the network and of
a call in turn. `OutcomesAreReal` needs `OutcomeInv` beside it: the session a
call opened last is for the kind it was asked, and a result that tells of a run is
final and about that session, while the network takes no run and no record back.
The refinement (`SubmissionKeepsThePromise`) adds two parts: each session is for
what its call was asked (`AskedInv`), and a call that told something final is
over, since its last session ran or is dead (`OverInv`). `Start` is then the
promise's `Ask`, the network's `Sequence` its `Run`, a delivery its `Write`, and a
step that ends a call or gives a verdict its `Tell`; sends, refusals, polls,
lookups, rebuilds and settlements without a delivery leave the abstract state as
it was. `Run` is allowed because the call's other sessions are dead, and `Tell`
because each answer, record or charge that a result rests on is backed by a
session that ran (`FactIsBacked`).

**`NodeTransportProofs`**: for any validators, calls and number of channels,
`TypeOK`, `NoChannelLeaks`, `ServicesAreOpen`, `CallsUseInstalled`,
`ClosedLeavesNoWait` and, as action properties, `InstallsOnlyNewer` and
`ClosedOnlyForCause`. The invariant adds that a channel has
a validator exactly when it was begun (`BegunInv`), that while the build calls
join is under way its validator has no service and all it ever had is older
(`BuildsInv`), that a service stays one of its validator after `close()`
(`ServicesInv`), and that a settled build resolved to an installed channel of
its own validator (`ResultsInv`). `InstallsOnlyNewer` rests on `BuildsInv`: a
build that was forgotten is not in `pinnedBuilds`, so nothing bounds the age of
its channel, and the code must not install it.

The same module has the proofs of **`CommitteePin`**, the other half of
`node-transport.ts`: for any keys, committees, number of setups and lag,
`PinTypeOK`, `HeldCommitteesAreFresh`, `MembersAreNotRefused` and, as an action
property, `FormerMembersStayOut`. The invariant adds that a young read is not
older, but for the lag, than the epoch at which a read last aged (`ReadInv`), and
what a setup knows between its check and its conclusion (`SetupsInv`): its read
is recorded, its answer was fresh against it, and an answer that lacks its key is
not older than what the client had read when the setup began. The last is what
makes the refusal right although other setups drop committees meanwhile.

**`MultisigProofs`**: for any users, dWallets, member limit and number of
transactions, `TypeOK`, `VoucherNeedsQuorum`, `ApprovedExactlyWithVoucher`,
`RejectedExactlyWhenHopeless`, and that `Multisig` implements `QuorumDecision`.
The program decides by counters and never looks at the approval records again,
so the invariant relates them: only members of the transaction's own multisig
have records (`VotersInv`), the counters are the numbers of records
(`CountsInv`), a threshold can be met by the members (`ThresholdsInv`), the
status says which counter reached its threshold first (`StatusInv`), and the
voucher goes with the status (`VouchersInv`). That an undecided transaction can
still be approved is then arithmetic on the cardinalities of disjoint sets of
members. The refinement takes each instruction to the abstract step that records
the vote and decides, in one step, by sets.

**`DWalletRequestsProofs`**: for any slots, plans and signed attestations,
`TypeOK`, `NoAnswerServesTwoCalls`, `SignaturesAreAsked` and
`CreatedAreOnChain`. The invariant follows a call through its steps: what it
took was made in a session of its own (`TakenInv`), what a signature is checked
against is the voucher and the attested output (`TermsInv`), the dWallets on the
chain are older or made by the calls' own sessions (`ChainInv`), and a returned
dWallet is what its session makes (`CreatedInv`). `NoAnswerServesTwoCalls` then
rests on the sessions being different. `CreatedAreOnChain` needs `ChainInv`: the
record the call reads is found by the dWallet's key, so it must be the one of
this call's session.

**`ValidatorCallsProofs`**: for any number of validators, any calls and any
waits, `TypeOK`, `EveryRefusedIsRecent`, `RunsAgainOnlyAfterLoss` and, as action
properties, `SignedEpochsClimb` and `RefusedAreNotAsked`. For the first, an
attempt in hand has come to every validator but those left, and each that it
passed over or was refused by is one whose key was refused less than the maximum
age before the attempt began or since (`Whole`, `SpoiledOf`, `AgesInv`): the
recorded refusals are shared, so a refusal may be another call's, made while this
attempt runs, and every attempt in hand notes it (`RefusalNoted`). For the second, the
sessions of one call that ran are in the order of their epochs, and each but the
last was refused at its epoch's close and had lost its answer (`RanOf`).

**`NetworkConnectionProofs`**: for any callers, number of connections, windows,
budgets and lag, `TypeOK`, `ConnectionsAreShared` and `LagIsNotALie`;
`EpochWasShown` when reads are cross-checked; `OutputsAreGenuine` when they are,
or on a listed network. The two hypotheses are the code's own: with
`'not-cross-checked'` on a custom network one endpoint decides alone, as its
documentation says, and a listed network's keys are built in. The invariant says
of each job what it holds at its step (`Sound`): which answers of the endpoint
that does not lie it has (`ReadOf`), that from the registration on its key is the
network's (`KeyOf`), which signature it has checked (`ServedOf`), and that only a
lie is reported as a disagreement (`WhyOf`). The liar is fixed but not known to
the job, so the facts are about whichever endpoint is honest.
`ConnectionsAreShared` needs `KeptInv`: a connection that has not failed is the
one kept for its key.

**`ShareOwnershipProofs`**: for any users, attestations and answers of the lying
endpoint, `TypeOK`, `EncryptedMeansAccepted`, `SignsOnlyForUsable` and
`CustodyStartsWithCreator`, and `PublicIsNotHidden`: with cross-checked reads
outright, without them when the one endpoint asked does not lie. Its proof compares
the two answers: the honest endpoint's is the record unless it was behind, and an
answer that the two agree on is the honest one's too.
Signatures and committed sessions only grow, so what a check found at one read
stays true at the next, whatever the chain does in between; the invariant states
what that is (`CheckOf`, `AcceptanceOf`, `ResultOf`, `RequestOK`). Custody is an
induction along the chain of acceptances (`CustodyOf`): a recipient signs only
after it has seen the sender's acceptance, and the first one is the creator's.

**`WebTransportProofs`**: for any calls, bodies, chunk sizes and limit, `TypeOK`,
`ChunksDoNotMatter`, `KeptBytesAreBounded`, and that `read` never asks for a chunk
that is not there (`ReadsStayInside`). The invariant ties the reader to the body.
The chunks follow one another up to the last byte that arrived (`ChunksInv`). The
first byte that is kept is the first one after the frames taken, or as far into
the frame being cut as `read` has come, and what `read` copied are the body's
bytes from there (`ReaderInv`); so a header that was peeked at is the header of
the next frame, and a payload that was read is its payload. The frames taken are
the first ones of the body and none of them is refused (`TakenInv`). Between two
chunks the frame after them is incomplete and within the limit, which is why at
the end of the body nothing whole was left out (`NothingRefused`), and why what is
kept is less than one frame when the next chunk comes (`KeptInv`). The loops of
`push` and `read` are steps, so the invariant takes the place of an induction over
what they compute.

*Assumptions*, which TLC evaluates in every run:

- Bounds and waits are naturals, "none" values are not members, sets of kinds
  are sets of kinds: `IkaNetwork.NetworkAssumption`, `SubmissionAssumption`,
  `PinAssumption`, `TransportAssumption`, `CallsAssumption`,
  `OwnershipAssumption`, `MultisigAssumption` (with finitely many users) and
  `ConnectionAssumption` (with a forged key that is not the network's).
- `DWalletRequests.SessionsAreFresh`: two calls do not have a session in common,
  nor with an older dWallet. `#sessionIdentifier` hashes a fresh random preimage.
- `DWalletRequests.NetworkMakesKeysOnce`: no two sessions make the same key by
  DKG, an import is named with its session, the key is the one in the attested
  output, and a session asked for one thing has one outcome. It restricts what a
  trusted network key has signed, not what a validator may answer.
- `WebTransport.WebAssumption`: a body's frames follow one another from its first
  byte on, and fewer bytes than a header are left over. Any bytes can be cut this
  way, in one way, so this restricts no answer. The bound on what is kept has the
  size of one chunk in it (`MaxChunk`), which is the browser's choice.
- `ShareOwnership.NetworkAssumption`: a trusted key signs an attestation as the
  kind it is, and the classic contracts show shares of migrated dWallets.

**Only model-checked**: every `CallsEnd`, since liveness under fairness and
`ENABLED` are outside this prover.

## 5. Not modelled, and why

- Cryptography, byte layouts, key derivation and certificate parsing: pure
  functions of large data, which the repository tests against vectors. The models
  take their verdicts symbolically.
- Instruction and account encodings of the Solana client and the CPI crates: the
  programs they are for are not in the repository, so there is nothing to check
  them against.
- The native and anchor multisigs and the voting programs: variants of the
  modelled program.
- Generated code, prebuilt programs, the React front end, scripts.
- The owner's revocation of a voucher, and deposits: the lookup answers
  `unknown` for the first, and the second only delays a send.
- The cache of protocol parameters (`protocolPublicParametersOf`): a
  deduplication of a pure computation.

## 6. Plan

1. *(done)* `IkaNetwork`, `RequestSubmission`, `NodeTransport` and
   `CommitteePin`, with proofs; `QuorumDecision` and `Multisig`.
2. *(done)* `ValidatorCalls`, `WebTransport`, `Attestations` with
   `ShareOwnership`, `NetworkConnection`, `DWalletRequests`.
3. *(done)* The safety properties of every module, that `Multisig` implements
   `QuorumDecision` and that `RequestSubmission` implements `RequestPromise`, as
   theorems.
4. The voting program as an implementation of `QuorumDecision` with an open
   electorate.
