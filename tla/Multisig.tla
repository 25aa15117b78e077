------------------------------ MODULE Multisig ------------------------------
(***************************************************************************)
(* The multisig example program (pinocchio): m-of-n control of the dWallets*)
(* that the program's CPI authority owns. One instruction is one action: a *)
(* failing instruction, its cross-program call included, changes nothing.  *)
(*                                                                         *)
(* The multisig of a dWallet is the account at the PDA ["multisig", d], so *)
(* it is named by the dWallet d; a transaction is named by its multisig    *)
(* and index. Votes are accounts too: ["approval", transaction, member].   *)
(* An instruction names the accounts it works on, and the caller picks     *)
(* them, so the parameters range over all of them.                         *)
(***************************************************************************)
EXTENDS Naturals, FiniteSets

CONSTANTS
    DWallets,
    Users,
    Authority,   \* this program's CPI authority PDA
    NoDWallet,   \* no voucher was issued
    MaxMembers,  \* MAX_MEMBERS
    MaxTx        \* bound: transactions per multisig

ASSUME MultisigAssumption ==
    /\ IsFiniteSet(Users)
    /\ Authority \notin Users
    /\ NoDWallet \notin DWallets
    /\ MaxMembers \in Nat
    /\ MaxTx \in Nat

\* Transaction accounts: a multisig and an index.
Transactions == DWallets \X (0 .. MaxTx - 1)

VARIABLES
    owner,       \* the owner stored in each dWallet account
    created,     \* the dWallets that have a multisig
    members,     \* Multisig.members
    threshold,   \* Multisig.threshold
    txIndex,     \* Multisig.tx_index
    status,      \* Transaction.status; "none" before it exists
    proposer,    \* Transaction.proposer
    futureSign,  \* Transaction.future_sign
    approvals,   \* Transaction.approval_count
    rejections,  \* Transaction.rejection_count
    ballot,      \* the ApprovalRecord of each transaction and user
    voucher,     \* the dWallet that the transaction's voucher is for
    voucherOwner \* and the voucher's owner

vars == <<owner, created, members, threshold, txIndex, status, proposer,
          futureSign, approvals, rejections, ballot, voucher, voucherOwner>>

\* The types of the accounts' fields.
TypeOK ==
    /\ owner \in [DWallets -> Users \cup {Authority}]
    /\ created \subseteq DWallets
    /\ members \in [DWallets -> SUBSET Users]
    /\ threshold \in [DWallets -> 0 .. MaxMembers]
    /\ txIndex \in [DWallets -> 0 .. MaxTx]
    /\ status \in [Transactions -> {"none", "active", "approved", "rejected"}]
    /\ proposer \in [Transactions -> Users \cup {Authority}]
    /\ futureSign \in [Transactions -> BOOLEAN]
    /\ approvals \in [Transactions -> Nat]
    /\ rejections \in [Transactions -> Nat]
    /\ ballot \in [Transactions -> [Users -> {"none", "approved", "rejected"}]]
    /\ voucher \in [Transactions -> DWallets \cup {NoDWallet}]
    /\ voucherOwner \in [Transactions -> Users \cup {Authority}]

Init ==
    /\ owner \in [DWallets -> Users]
    /\ created = {}
    /\ members = [d \in DWallets |-> {}]
    /\ threshold = [d \in DWallets |-> 0]
    /\ txIndex = [d \in DWallets |-> 0]
    /\ status = [x \in Transactions |-> "none"]
    /\ proposer = [x \in Transactions |-> Authority]
    /\ futureSign = [x \in Transactions |-> FALSE]
    /\ approvals = [x \in Transactions |-> 0]
    /\ rejections = [x \in Transactions |-> 0]
    /\ ballot = [x \in Transactions |-> [u \in Users |-> "none"]]
    /\ voucher = [x \in Transactions |-> NoDWallet]
    /\ voucherOwner = [x \in Transactions |-> Authority]

multisigVars == <<created, members, threshold, txIndex>>
txVars == <<status, proposer, futureSign, approvals, rejections>>
voucherVars == <<voucher, voucherOwner>>

\* The users whose record of a vote on x says so.
Voted(x, choice) == {u \in Users : ballot[x][u] = choice}

-----------------------------------------------------------------------------
\* The dWallet program: an owner hands its dWallet over, to a user or to this
\* program. The program has no instruction that hands one back.
TransferDWallet(d, to) ==
    /\ owner[d] \in Users
    /\ owner' = [owner EXCEPT ![d] = to]
    /\ UNCHANGED <<multisigVars, txVars, ballot, voucherVars>>

\* create_multisig: the dWallet's current owner fixes members and threshold.
CreateMultisig(d, u, chosen, needed) ==
    /\ Cardinality(chosen) \in 1 .. MaxMembers
    /\ needed \in 1 .. Cardinality(chosen)
    /\ owner[d] = u
    /\ d \notin created
    /\ created' = created \cup {d}
    /\ members' = [members EXCEPT ![d] = chosen]
    /\ threshold' = [threshold EXCEPT ![d] = needed]
    /\ UNCHANGED <<owner, txIndex, txVars, ballot, voucherVars>>

\* create_transaction: a member proposes under the multisig's next index.
CreateTransaction(d, u, future) ==
    LET x == <<d, txIndex[d]>> IN
    /\ d \in created
    /\ u \in members[d]
    /\ txIndex[d] < MaxTx
    /\ status[x] = "none"
    /\ status' = [status EXCEPT ![x] = "active"]
    /\ proposer' = [proposer EXCEPT ![x] = u]
    /\ futureSign' = [futureSign EXCEPT ![x] = future]
    /\ txIndex' = [txIndex EXCEPT ![d] = @ + 1]
    /\ UNCHANGED <<owner, created, members, threshold, approvals, rejections,
                   ballot, voucherVars>>

\* Mutants of RecordVote: the transaction's multisig, or the existing record, is
\* not checked.
VoteUnderAnyMultisig(m, x, u, choice) ==
    /\ m \in created
    /\ u \in members[m]
    /\ status[x] = "active"
    /\ ballot[x][u] = "none"
    /\ ballot' = [ballot EXCEPT ![x][u] = choice]
VoteAgain(m, x, u, choice) ==
    /\ m \in created
    /\ u \in members[m]
    /\ status[x] = "active"
    /\ x[1] = m
    /\ ballot' = [ballot EXCEPT ![x][u] = choice]
\* record_vote: a member of the multisig m, once, on an active transaction of
\* that multisig.
RecordVote(m, x, u, choice) ==
    /\ m \in created
    /\ u \in members[m]
    /\ status[x] = "active"
    /\ x[1] = m
    /\ ballot[x][u] = "none"
    /\ ballot' = [ballot EXCEPT ![x][u] = choice]

\* The dWallet program issues the voucher of x for the dWallet w: only when this
\* program owns w, and once at the voucher's address.
IssueVoucher(x, w) ==
    /\ owner[w] = Authority
    /\ voucher[x] = NoDWallet
    /\ voucher' = [voucher EXCEPT ![x] = w]
    /\ voucherOwner' = [voucherOwner EXCEPT ![x] =
                          IF futureSign[x] THEN proposer[x] ELSE Authority]

\* Mutant of Approve: a failed cross-program call is ignored.
ApproveIgnoringFailure(m, x, u, w) ==
    /\ RecordVote(m, x, u, "approved")
    /\ approvals' = [approvals EXCEPT ![x] = @ + 1]
    /\ IF approvals[x] + 1 >= threshold[m]
       THEN /\ w = m
            /\ status' = [status EXCEPT ![x] = "approved"]
            /\ IF owner[w] = Authority THEN IssueVoucher(x, w) ELSE UNCHANGED voucherVars
       ELSE UNCHANGED <<status, voucherVars>>
    /\ UNCHANGED <<owner, multisigVars, proposer, futureSign, rejections>>

\* approve: count the vote; at the threshold issue the voucher through the CPI.
Approve(m, x, u, w) ==
    /\ RecordVote(m, x, u, "approved")
    /\ approvals' = [approvals EXCEPT ![x] = @ + 1]
    /\ IF approvals[x] + 1 >= threshold[m]
       THEN /\ w = m
            /\ IssueVoucher(x, w)
            /\ status' = [status EXCEPT ![x] = "approved"]
       ELSE UNCHANGED <<status, voucherVars>>
    /\ UNCHANGED <<owner, multisigVars, proposer, futureSign, rejections>>

\* Mutant of RejectionThreshold: the approval threshold.
RejectionsLikeApprovals(m) == threshold[m]
\* The rejections after which the threshold cannot be reached.
RejectionThreshold(m) == Cardinality(members[m]) - threshold[m] + 1

\* reject: count the vote, and close the transaction when enough rejected it.
Reject(m, x, u) ==
    /\ RecordVote(m, x, u, "rejected")
    /\ rejections' = [rejections EXCEPT ![x] = @ + 1]
    /\ status' = IF rejections[x] + 1 >= RejectionThreshold(m)
                 THEN [status EXCEPT ![x] = "rejected"]
                 ELSE status
    /\ UNCHANGED <<owner, multisigVars, proposer, futureSign, approvals,
                   voucherVars>>

Next ==
    \/ \E d \in DWallets :
          \/ \E to \in Users \cup {Authority} : TransferDWallet(d, to)
          \/ \E u \in Users, chosen \in SUBSET Users, needed \in 0 .. MaxMembers + 1 :
                CreateMultisig(d, u, chosen, needed)
          \/ \E u \in Users, future \in BOOLEAN : CreateTransaction(d, u, future)
    \/ \E m \in DWallets, x \in Transactions, u \in Users :
          \/ \E w \in DWallets : Approve(m, x, u, w)
          \/ Reject(m, x, u)

Spec == Init /\ [][Next]_vars

-----------------------------------------------------------------------------
(* Properties.                                                             *)

\* A voucher is issued only for the dWallet of the transaction's own multisig,
\* and only when at least the threshold of that multisig's members approved,
\* each counted once, whichever accounts the instructions were given.
VoucherNeedsQuorum ==
    \A x \in Transactions :
        voucher[x] # NoDWallet =>
            /\ voucher[x] = x[1]
            /\ Cardinality(Voted(x, "approved") \cap members[x[1]]) >= threshold[x[1]]

\* A transaction is approved exactly when its voucher exists: an approval whose
\* cross-program call fails leaves no trace, and no voucher comes without one.
ApprovedExactlyWithVoucher ==
    \A x \in Transactions : status[x] = "approved" <=> voucher[x] # NoDWallet

\* A transaction is open for votes exactly as long as the members who did not
\* reject it could still reach the threshold: it is neither closed too early
\* nor left open when nobody can approve it any more.
RejectedExactlyWhenHopeless ==
    \A x \in Transactions :
        status[x] # "none" =>
            (status[x] = "rejected" <=>
               Cardinality(members[x[1]] \ Voted(x, "rejected")) < threshold[x[1]])

\* The program's counters and accounts implement the vote on each transaction:
\* counting ApprovalRecords one by one decides as the sets of votes would.
Abstract == INSTANCE QuorumDecision WITH
    Proposals <- Transactions,
    Voters <- Users,
    electorate <- [x \in Transactions |->
                     IF status[x] = "none" THEN {} ELSE members[x[1]]],
    quorum <- [x \in Transactions |-> IF status[x] = "none" THEN 0 ELSE threshold[x[1]]],
    yes <- [x \in Transactions |-> Voted(x, "approved")],
    no <- [x \in Transactions |-> Voted(x, "rejected")],
    decision <- [x \in Transactions |->
                   CASE status[x] = "none" -> "unopened"
                     [] status[x] = "active" -> "open"
                     [] OTHER -> status[x]]

\* Every behaviour of the program is one of the abstract vote.
ImplementsQuorumDecision == Abstract!AbsSpec
=============================================================================
