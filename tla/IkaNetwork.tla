----------------------------- MODULE IkaNetwork -----------------------------
(***************************************************************************)
(* The ika network and the chain it settles on, as the SDK relies on them. *)
(* Neither is in this repository (the validators and the settlement        *)
(* program are external), so this module states what the SDK's comments    *)
(* and code assume of them, and nothing more:                              *)
(*                                                                         *)
(*  - a signed request names one epoch and opens one session; the network  *)
(*    starts the session only in that epoch, before the epoch's cutoff     *)
(*    round, and at most once however many copies it is handed;            *)
(*  - a session that was started is settled on the chain by a delivery or  *)
(*    by a charge record; records are never removed;                       *)
(*  - the chain shows epoch e+1 only when the sessions of e are settled,   *)
(*    except that a re-encryption may settle one epoch later;              *)
(*  - the chain shows a new epoch a little before the validators enter it. *)
(***************************************************************************)
EXTENDS Naturals

CONSTANTS
    Sessions,   \* session identifiers: a request derives a fresh one
    NoSession,
    Targets,    \* what requests write to: vouchers and dWallets
    NoTarget,   \* the target of a request that names none
    MaxEpoch    \* bound: the last epoch a behaviour reaches

ASSUME NetworkAssumption ==
    /\ NoSession \notin Sessions
    /\ NoTarget \notin Targets
    /\ MaxEpoch \in Nat

\* The kinds of request a lookup tells apart (PendingRequestKind).
Kinds == {"presign", "sign", "futureSignStepOne", "futureSignCompletion",
          "makeSharePublic", "reEncryptShare", "dkg", "importedKey"}

\* The kinds whose delivery is written to a place named before the session is
\* opened (a voucher, a share record), where another session may have written.
TargetKinds == {"sign", "futureSignStepOne", "futureSignCompletion",
                "makeSharePublic", "reEncryptShare"}

\* The kinds whose given-up commit is charged under an id that only the
\* network's attestation gives: no lookup from the session finds it.
HiddenChargeKinds == {"futureSignStepOne", "dkg", "importedKey"}

\* A signed request: the fields that the network and the lookups read.
Request == [kind : Kinds, target : Targets \cup {NoTarget}, epoch : Nat]

\* The value of `request` for a session that was not opened yet.
NotSigned == [kind |-> "presign", target |-> NoTarget, epoch |-> 0]

\* What became of a session. "free" is a refusal by the whole network that
\* charges nothing and is final (an empty presign pool).
Fates == {"none", "free", "sequenced", "delivered", "charged", "hidden"}

VARIABLES
    netEpoch,    \* the epoch the validators are in
    phase,       \* where that epoch is: "open", "closing", "cutoff"
    chainEpoch,  \* the epoch the chain shows
    request,     \* the signed request of each session
    handed,      \* sessions of which a validator holds a copy
    fate,        \* what became of each session
    record,      \* the session that wrote each target, by kind
    closed       \* the future vouchers closed without delivery

netVars == <<netEpoch, phase, chainEpoch, request, handed, fate, record, closed>>

\* The network started the session: the requester is charged for it.
Ran(s) == fate[s] \in {"sequenced", "delivered", "charged", "hidden"}

NetTypeOK ==
    /\ netEpoch \in Nat
    /\ phase \in {"open", "closing", "cutoff"}
    /\ chainEpoch \in Nat
    /\ request \in [Sessions -> Request]
    /\ handed \subseteq Sessions
    /\ fate \in [Sessions -> Fates]
    /\ record \in [Targets \cup {NoTarget} ->
                     [TargetKinds -> Sessions \cup {NoSession}]]
    /\ closed \subseteq Targets \cup {NoTarget}

NetInit ==
    /\ netEpoch = 1
    /\ phase = "open"
    /\ chainEpoch = 1
    /\ request = [s \in Sessions |-> NotSigned]
    /\ handed = {}
    /\ fate = [s \in Sessions |-> "none"]
    /\ record = [t \in Targets \cup {NoTarget} |-> [k \in TargetKinds |-> NoSession]]
    /\ closed = {}

-----------------------------------------------------------------------------
(* Validators.                                                             *)

\* The network may start the session of a copy a validator holds.
CanStart(s) ==
    /\ s \in handed
    /\ fate[s] = "none"
    /\ request[s].epoch = netEpoch
    /\ phase # "cutoff"

Sequence(s) ==
    /\ CanStart(s)
    /\ fate' = [fate EXCEPT ![s] = "sequenced"]
    /\ UNCHANGED <<netEpoch, phase, chainEpoch, request, handed, record, closed>>

\* The presign pool is empty: the network refuses the presign for free.
RefuseFree(s) ==
    /\ CanStart(s)
    /\ request[s].kind = "presign"
    /\ fate' = [fate EXCEPT ![s] = "free"]
    /\ UNCHANGED <<netEpoch, phase, chainEpoch, request, handed, record, closed>>

\* A validator loses the copy it holds: a restart, or an epoch change.
Drop(s) ==
    /\ s \in handed
    /\ handed' = handed \ {s}
    /\ UNCHANGED <<netEpoch, phase, chainEpoch, request, fate, record, closed>>

-----------------------------------------------------------------------------
(* Settlement on the chain.                                                *)

\* What the session would write to is still unwritten.
TargetFree(s) ==
    LET t == request[s].target
        k == request[s].kind
    IN  /\ record[t][k] = NoSession
        /\ k \in {"futureSignStepOne", "futureSignCompletion"} => t \notin closed
        /\ k = "futureSignCompletion" => record[t]["futureSignStepOne"] # NoSession

Deliver(s) ==
    /\ fate[s] = "sequenced"
    /\ fate' = [fate EXCEPT ![s] = "delivered"]
    /\ IF request[s].kind \in TargetKinds
       THEN /\ TargetFree(s)
            /\ record' = [record EXCEPT ![request[s].target][request[s].kind] = s]
       ELSE record' = record
    /\ UNCHANGED <<netEpoch, phase, chainEpoch, request, handed, closed>>

\* A charge whose id is derived from the session: a refused, rejected or moved
\* session, a given-up signature or share commit.
Charge(s) ==
    /\ fate[s] = "sequenced"
    /\ fate' = [fate EXCEPT ![s] = "charged"]
    /\ UNCHANGED <<netEpoch, phase, chainEpoch, request, handed, record, closed>>

\* A given-up dWallet commit or step 1. The latter closes the future voucher.
GiveUpHidden(s) ==
    /\ fate[s] = "sequenced"
    /\ request[s].kind \in HiddenChargeKinds
    /\ fate' = [fate EXCEPT ![s] = "hidden"]
    /\ IF request[s].kind = "futureSignStepOne"
       THEN TargetFree(s) /\ closed' = closed \cup {request[s].target}
       ELSE closed' = closed
    /\ UNCHANGED <<netEpoch, phase, chainEpoch, request, handed, record>>

-----------------------------------------------------------------------------
(* Epochs.                                                                 *)

\* Validators start to refuse requests; copies they hold may still be started.
BeginClose ==
    /\ phase = "open"
    /\ netEpoch < MaxEpoch
    /\ chainEpoch = netEpoch
    /\ phase' = "closing"
    /\ UNCHANGED <<netEpoch, chainEpoch, request, handed, fate, record, closed>>

\* The cutoff round: no session of this epoch is started from here on.
Cutoff ==
    /\ phase = "closing"
    /\ phase' = "cutoff"
    /\ UNCHANGED <<netEpoch, chainEpoch, request, handed, fate, record, closed>>

\* The sessions that must be settled before the chain shows the next epoch.
SettledForNextEpoch ==
    \A s \in Sessions :
        fate[s] = "sequenced" =>
            /\ request[s].kind = "reEncryptShare"
            /\ request[s].epoch = netEpoch

ShowEpoch ==
    /\ phase = "cutoff"
    /\ chainEpoch = netEpoch
    /\ SettledForNextEpoch
    /\ chainEpoch' = chainEpoch + 1
    /\ UNCHANGED <<netEpoch, phase, request, handed, fate, record, closed>>

EnterEpoch ==
    /\ netEpoch < chainEpoch
    /\ netEpoch' = chainEpoch
    /\ phase' = "open"
    /\ UNCHANGED <<chainEpoch, request, handed, fate, record, closed>>

NetNext ==
    \/ \E s \in Sessions :
          \/ Sequence(s) \/ RefuseFree(s) \/ Drop(s)
          \/ Deliver(s) \/ Charge(s) \/ GiveUpHidden(s)
    \/ BeginClose \/ Cutoff \/ ShowEpoch \/ EnterEpoch
=============================================================================
