---------------------------- MODULE CommitteePin ----------------------------
(***************************************************************************)
(* The committee check of a client's pinned connections: CommitteePin of   *)
(* node-transport.ts with verifyCommitteeAnswer and VerifiedMembers of     *)
(* committee.ts. A setup reads the key that a validator serves, and pins a *)
(* channel to it when the key is a member's of a committee that the client *)
(* holds, or of the committee that the validator answers. Setups of        *)
(* several validators run at once and share the committees held and the    *)
(* highest chain epoch read.                                               *)
(*                                                                         *)
(* A signed committee stays valid for ever, so a validator may answer any  *)
(* committee that was ever signed, whatever key it serves. An answer whose *)
(* signature, signer or members do not verify fails the setup.             *)
(***************************************************************************)
EXTENDS Naturals

CONSTANTS
    Keys,        \* the network keys that validators serve
    NoKey,
    Committees,  \* the sets of keys that a committee may have
    Setups,      \* setups that may run at once
    MaxLag,      \* how many epochs a chain read may lag behind the chain
    MaxEpoch     \* bound: the last epoch a behaviour reaches

ASSUME PinAssumption ==
    /\ NoKey \notin Keys
    /\ Committees \subseteq SUBSET Keys
    /\ MaxLag \in Nat
    /\ MaxEpoch \in Nat \ {0}

Epochs == 1 .. MaxEpoch

VARIABLES
    committee,   \* the network keys of each epoch's committee; never changes
    signed,      \* the last epoch whose committee the network has signed
    chain,       \* the chain's epoch
    chainEpoch,  \* the highest chain epoch read so far; 0 before the first read
    aged,        \* the last chain read is older than chainEpochMaxAgeMs
    agedAt,      \* the chain's epoch when a read last became too old
    held,        \* the epochs of the committees in VerifiedMembers
    stage,       \* where each setup is
    since,       \* the value of chainEpoch when the setup began
    key,         \* the key its validator serves
    answer,      \* the epoch of the committee its validator answered
    next,        \* the epoch of the next committee in that answer; 0 if none
    seen,        \* the chain epoch that the answer was checked against
    isMember,    \* what readCommitteeFrom resolved to
    connected    \* the channel of the setup has a connection

worldVars == <<committee, signed, chain>>
pinVars == <<chainEpoch, aged, agedAt, held>>
readVars == <<answer, next, seen>>
setupVars == <<stage, since, key, readVars, isMember, connected>>
connectVars == <<worldVars, pinVars, setupVars>>

\* "idle": no setup and no channel. "fetching" the certificate, "refreshing" the
\* chain's epoch, "checking" the held committees, "asking" for the committee,
\* "verifying" its epoch, "keeping" it, "concluding" from it. "pinned": the
\* channel is built. "notMember": the key was refused, which the client records;
\* every other failure ends in "idle".
Running == {"fetching", "refreshing", "checking", "asking", "verifying",
            "keeping", "concluding"}

\* Steps that only promises separate from the one before: no time passes.
Immediate == {"checking", "keeping", "concluding"}

PinTypes ==
    /\ committee \in [Epochs -> Committees]
    /\ signed \in Epochs /\ chain \in Epochs /\ agedAt \in Epochs
    /\ chainEpoch \in 0 .. MaxEpoch
    /\ aged \in BOOLEAN
    /\ held \subseteq Epochs

SetupTypes ==
    /\ stage \in [Setups -> {"idle", "pinned", "notMember"} \cup Running]
    /\ since \in [Setups -> 0 .. MaxEpoch]
    /\ key \in [Setups -> Keys \cup {NoKey}]
    /\ answer \in [Setups -> 0 .. MaxEpoch]
    /\ next \in [Setups -> 0 .. MaxEpoch]
    /\ seen \in [Setups -> 0 .. MaxEpoch]
    /\ isMember \in [Setups -> BOOLEAN]
    /\ connected \in [Setups -> BOOLEAN]

\* The types of the client's and the setups' state; a setup past the read of the
\* certificate knows its validator's key, and only a built channel connects.
PinTypeOK ==
    /\ PinTypes
    /\ SetupTypes
    /\ \A s \in Setups :
          /\ stage[s] \in ({"pinned"} \cup Running) \ {"fetching"} => key[s] \in Keys
          /\ connected[s] => stage[s] = "pinned"

PinInit ==
    /\ committee \in [Epochs -> Committees]
    /\ signed = 1 /\ chain = 1
    /\ chainEpoch = 0 /\ aged = TRUE /\ agedAt = 1 /\ held = {}
    /\ stage = [s \in Setups |-> "idle"]
    /\ since = [s \in Setups |-> 0]
    /\ key = [s \in Setups |-> NoKey]
    /\ answer = [s \in Setups |-> 0]
    /\ next = [s \in Setups |-> 0]
    /\ seen = [s \in Setups |-> 0]
    /\ isMember = [s \in Setups |-> FALSE]
    /\ connected = [s \in Setups |-> FALSE]

-----------------------------------------------------------------------------
(* The network, the chain and the clock.                                   *)

\* The network signs the committee of a later epoch.
Sign ==
    /\ signed < MaxEpoch
    /\ signed' = signed + 1
    /\ UNCHANGED <<committee, chain, pinVars, setupVars>>

\* The chain shows the next epoch, whose committee is signed.
Advance ==
    /\ chain < signed
    /\ chain' = chain + 1
    /\ UNCHANGED <<committee, signed, pinVars, setupVars>>

\* The last chain read becomes too old.
Age ==
    /\ ~aged
    /\ \A s \in Setups : stage[s] \notin Immediate
    /\ aged' = TRUE
    /\ agedAt' = chain
    /\ UNCHANGED <<worldVars, chainEpoch, held, setupVars>>

\* What a read of the chain's epoch may answer: an RPC may lag.
Reads == {read \in 1 .. chain : chain <= read + MaxLag}

-----------------------------------------------------------------------------
(* The chain epoch and the committees the client holds.                    *)

Later(read) == IF read > chainEpoch THEN read ELSE chainEpoch

\* VerifiedMembers.dropOlderThan
DropOlderThan(epochs, e) == {h \in epochs : h >= e}

\* recordChainEpoch: the epoch never moves back, and older committees go.
RecordChainEpoch(read) ==
    /\ aged' = FALSE
    /\ chainEpoch' = Later(read)
    /\ held' = DropOlderThan(held, Later(read))
    /\ UNCHANGED agedAt

\* VerifiedMembers.contains
Contains(k) == \E e \in held : k \in committee[e]

-----------------------------------------------------------------------------
(* A setup: CommitteePin.connect.                                          *)

Goto(s, step) == stage' = [stage EXCEPT ![s] = step]

\* The committee read of a setup is over, and its variables are out of scope.
EndRead(s) ==
    /\ answer' = [answer EXCEPT ![s] = 0]
    /\ next' = [next EXCEPT ![s] = 0]
    /\ seen' = [seen EXCEPT ![s] = 0]

\* The setup ended without a recorded refusal, or its channel is dropped.
End(s) ==
    /\ Goto(s, "idle")
    /\ key' = [key EXCEPT ![s] = NoKey]
    /\ since' = [since EXCEPT ![s] = 0]

\* A call needs the channel of a validator that has none.
BeginSetup(s) ==
    /\ stage[s] \in {"idle", "notMember"}
    /\ Goto(s, "fetching")
    /\ since' = [since EXCEPT ![s] = chainEpoch]
    /\ key' = [key EXCEPT ![s] = NoKey]
    /\ UNCHANGED <<worldVars, pinVars, readVars, isMember, connected>>

\* The validator serves a certificate of some key. The chain's epoch is read
\* again first when it was never read, or too long ago.
FetchCertificate(s) ==
    /\ stage[s] = "fetching"
    /\ \E k \in Keys : key' = [key EXCEPT ![s] = k]
    /\ Goto(s, IF chainEpoch = 0 \/ aged THEN "refreshing" ELSE "checking")
    /\ UNCHANGED <<worldVars, pinVars, since, readVars, isMember, connected>>

RefreshChainEpoch(s) ==
    /\ stage[s] = "refreshing"
    /\ \E read \in Reads : RecordChainEpoch(read)
    /\ Goto(s, "checking")
    /\ UNCHANGED <<worldVars, since, key, readVars, isMember, connected>>

\* The key of a held committee's member is accepted; any other goes on to read
\* the committee through the validator.
CheckHeld(s) ==
    /\ stage[s] = "checking"
    /\ Goto(s, IF Contains(key[s]) THEN "pinned" ELSE "asking")
    /\ UNCHANGED <<worldVars, pinVars, since, key, readVars, isMember, connected>>

\* GetCommittee is answered, and the signatures, signers and members verify.
\* While the committee is not signed yet, it is asked for again.
CommitteeAnswered(s) ==
    /\ stage[s] = "asking"
    /\ \E e \in 1 .. signed, n \in 0 .. signed :
          /\ answer' = [answer EXCEPT ![s] = e]
          /\ next' = [next EXCEPT ![s] = n]
    /\ Goto(s, "verifying")
    /\ UNCHANGED <<worldVars, pinVars, since, key, seen, isMember, connected>>

\* epochStanding
Standing(e, read) ==
    CASE e < read -> "old"
      [] e \in {read, read + 1} -> "fresh"
      [] e > read + 1 -> "ahead"

\* freshChainEpoch: the read is recorded before the check decides. A committee
\* ahead of the chain makes it be read again.
ReadFreshEpoch(s) ==
    /\ stage[s] = "verifying"
    /\ \E read \in Reads :
          /\ RecordChainEpoch(read)
          /\ \/ /\ Standing(answer[s], read) = "old"
                /\ End(s)
                /\ EndRead(s)
             \/ /\ Standing(answer[s], read) = "fresh"
                /\ Goto(s, "keeping")
                /\ seen' = [seen EXCEPT ![s] = read]
                /\ UNCHANGED <<answer, next, key, since>>
             \/ /\ Standing(answer[s], read) = "ahead"
                /\ UNCHANGED <<stage, readVars, key, since>>
    /\ UNCHANGED <<worldVars, isMember, connected>>

\* The committees of the answer that are kept: the next one only when it is the
\* one after, and fresh against the same read.
Verified(s) ==
    {answer[s]} \cup
        {n \in {next[s]} : n = answer[s] + 1 /\ Standing(n, seen[s]) = "fresh"}

\* Mutant of KeepCommittees: the answer is checked against its own read only.
KeepCheckedByItsOwnRead(s) ==
    /\ stage[s] = "keeping"
    /\ aged' = FALSE
    /\ chainEpoch' = Later(seen[s])
    /\ held' = DropOlderThan(held \cup Verified(s), seen[s])
    /\ isMember' = [isMember EXCEPT ![s] = \E e \in Verified(s) : key[s] \in committee[e]]
    /\ Goto(s, "concluding")
    /\ EndRead(s)
    /\ UNCHANGED <<worldVars, agedAt, since, key, connected>>

\* The end of readCommitteeFrom, one synchronous stretch: a committee below the
\* highest chain epoch read fails the setup; any other is kept, and says whether
\* the key is a member's.
KeepCommittees(s) ==
    /\ stage[s] = "keeping"
    /\ \/ /\ answer[s] < Later(seen[s])
          /\ RecordChainEpoch(seen[s])
          /\ End(s)
          /\ UNCHANGED isMember
       \/ /\ answer[s] >= Later(seen[s])
          /\ aged' = FALSE
          /\ chainEpoch' = Later(seen[s])
          /\ held' = DropOlderThan(held \cup Verified(s), Later(seen[s]))
          /\ isMember' = [isMember EXCEPT ![s] =
                            \E e \in Verified(s) : key[s] \in committee[e]]
          /\ Goto(s, "concluding")
          /\ UNCHANGED <<agedAt, key, since>>
    /\ EndRead(s)
    /\ UNCHANGED <<worldVars, connected>>

\* Mutant of Conclude: the held committees decide, after the await.
ConcludeFromHeld(s) ==
    /\ stage[s] = "concluding"
    /\ Goto(s, IF Contains(key[s]) THEN "pinned" ELSE "notMember")
    /\ isMember' = [isMember EXCEPT ![s] = FALSE]
    /\ UNCHANGED <<worldVars, pinVars, since, key, readVars, connected>>

\* The channel is built, or the key is refused and the refusal recorded.
Conclude(s) ==
    /\ stage[s] = "concluding"
    /\ Goto(s, IF isMember[s] THEN "pinned" ELSE "notMember")
    /\ isMember' = [isMember EXCEPT ![s] = FALSE]
    /\ UNCHANGED <<worldVars, pinVars, since, key, readVars, connected>>

\* The certificate or the chain cannot be read, the answer does not verify or did
\* not come in the setup's window, or the chain did not catch up in the budget.
Fails(s) ==
    /\ stage[s] \in {"fetching", "refreshing", "asking", "verifying"}
    /\ End(s)
    /\ EndRead(s)
    /\ UNCHANGED <<worldVars, pinVars, isMember, connected>>

-----------------------------------------------------------------------------
(* The connections that a pinned channel makes by itself.                  *)

\* Mutant of ReconnectCheck: the age of the last chain read is not checked.
ReconnectAtAnyAge(k) == Contains(k)

\* reconnectCheck: only while the last chain read is young.
ReconnectCheck(k) == ~aged /\ Contains(k)

Connect(s) ==
    /\ stage[s] = "pinned" /\ ~connected[s]
    /\ ReconnectCheck(key[s])
    /\ connected' = [connected EXCEPT ![s] = TRUE]
    /\ UNCHANGED <<worldVars, pinVars, stage, since, key, readVars, isMember>>

Disconnect(s) ==
    /\ connected[s]
    /\ connected' = [connected EXCEPT ![s] = FALSE]
    /\ UNCHANGED <<worldVars, pinVars, stage, since, key, readVars, isMember>>

\* The check refuses, the server serves another key, or none is reached: the
\* transport drops the channel, and the next call sets it up again.
ConnectFails(s) ==
    /\ stage[s] = "pinned" /\ ~connected[s]
    /\ End(s)
    /\ UNCHANGED <<worldVars, pinVars, readVars, isMember, connected>>

-----------------------------------------------------------------------------
PinNext ==
    \/ Sign \/ Advance \/ Age
    \/ \E s \in Setups :
          \/ BeginSetup(s) \/ FetchCertificate(s) \/ RefreshChainEpoch(s) \/ CheckHeld(s)
          \/ CommitteeAnswered(s) \/ ReadFreshEpoch(s) \/ KeepCommittees(s)
          \/ Conclude(s) \/ Fails(s)
          \/ Connect(s) \/ Disconnect(s) \/ ConnectFails(s)

PinSpec == PinInit /\ [][PinNext]_connectVars

-----------------------------------------------------------------------------
(* Properties.                                                             *)

\* Every committee the client holds is of the highest chain epoch it read, or of
\* the one after, however reads lag and setups interleave.
HeldCommitteesAreFresh ==
    \A e \in held : chainEpoch <= e /\ e <= chainEpoch + 1

\* A connection is made only to a key that is in a committee the chain had not
\* left when a chain read last became too old: a member that left is out at the
\* latest when the next read is due, give or take the lag of that read.
FormerMembersStayOut ==
    [][\A s \in Setups :
         ~connected[s] /\ connected'[s] =>
            \E e \in Epochs : key[s] \in committee[e] /\ agedAt <= e + MaxLag]_connectVars

\* A refusal is recorded only for a key that some committee lacks which is not
\* older than what the client had read when the setup began: no setup running at
\* the same time, and no old committee, makes the client refuse a member.
MembersAreNotRefused ==
    \A s \in Setups :
        stage[s] = "notMember" => \E e \in Epochs : e >= since[s] /\ key[s] \notin committee[e]
=============================================================================
