--------------------------- MODULE MultisigProofs ---------------------------
(***************************************************************************)
(* For any dWallets, users, member limit and number of transactions: the   *)
(* counters of the multisig program count the members' votes, so that a    *)
(* voucher takes a quorum of them, a transaction is closed exactly when no *)
(* quorum is left, and the program implements the vote of QuorumDecision.  *)
(***************************************************************************)
EXTENDS Multisig, FiniteSetTheorems, TLAPS

\* A multisig's threshold can be met by its members.
ThresholdsInv ==
    \A d \in created : threshold[d] \in 1 .. Cardinality(members[d])

\* A transaction is one of an existing multisig; only that multisig's members have
\* records of a vote on it, and nobody has one before the transaction exists.
VotersInv ==
    \A x \in Transactions :
        /\ status[x] # "none" => x[1] \in created
        /\ \A u \in Users : ballot[x][u] # "none" => u \in members[x[1]] /\ status[x] # "none"

\* The counters are the numbers of records.
CountsInv ==
    \A x \in Transactions :
        /\ approvals[x] = Cardinality(Voted(x, "approved"))
        /\ rejections[x] = Cardinality(Voted(x, "rejected"))

\* The status says which of the two counters reached its threshold first.
StatusInv ==
    \A x \in Transactions :
        /\ status[x] = "active" => approvals[x] < threshold[x[1]]
        /\ status[x] = "approved" => approvals[x] >= threshold[x[1]]
        /\ status[x] \in {"active", "approved"} => rejections[x] < RejectionThreshold(x[1])
        /\ status[x] = "rejected" => rejections[x] >= RejectionThreshold(x[1])

\* A voucher is for the dWallet of the transaction's multisig, and comes with approval.
VouchersInv ==
    \A x \in Transactions :
        voucher[x] = IF status[x] = "approved" THEN x[1] ELSE NoDWallet

\* The inductive invariant.
IInv ==
    /\ TypeOK
    /\ ThresholdsInv
    /\ VotersInv
    /\ CountsInv
    /\ StatusInv
    /\ VouchersInv

Choices == {"approved", "rejected"}

\* Sets of users are finite, so they can be counted.
LEMMA UsersCount ==
    ASSUME NEW S \in SUBSET Users
    PROVE  IsFiniteSet(S) /\ Cardinality(S) \in Nat
BY FS_Subset, FS_CardinalityType, MultisigAssumption

\* The members who did not reject, in number: the program's counter arithmetic.
LEMMA NotRejected ==
    ASSUME TypeOK, VotersInv, NEW x \in Transactions
    PROVE  /\ Voted(x, "approved") \cap members[x[1]] = Voted(x, "approved")
           /\ Cardinality(members[x[1]] \ Voted(x, "rejected")) =
                 Cardinality(members[x[1]]) - Cardinality(Voted(x, "rejected"))
<1>1. x[1] \in DWallets
  BY DEF Transactions
<1>2. members[x[1]] \in SUBSET Users
  BY <1>1 DEF TypeOK
<1>3. \A c \in Choices : Voted(x, c) \subseteq members[x[1]]
  BY DEF VotersInv, Voted, Choices
<1>4. members[x[1]] \cap Voted(x, "rejected") = Voted(x, "rejected")
  BY <1>3 DEF Choices
<1>5. Cardinality(members[x[1]] \ Voted(x, "rejected")) =
         Cardinality(members[x[1]]) - Cardinality(members[x[1]] \cap Voted(x, "rejected"))
  BY <1>2, UsersCount, FS_Difference
<1> QED
  BY <1>3, <1>4, <1>5 DEF Choices

\* record_vote adds one member to one of the two sets of voters, and no vote changes.
LEMMA VoteRecorded ==
    ASSUME TypeOK, NEW m \in DWallets, NEW x \in Transactions, NEW u \in Users,
           NEW choice \in Choices, RecordVote(m, x, u, choice)
    PROVE  /\ ballot' \in [Transactions -> [Users -> {"none", "approved", "rejected"}]]
           /\ u \notin Voted(x, "approved") \cup Voted(x, "rejected")
           /\ Voted(x, choice)' = Voted(x, choice) \cup {u}
           /\ Cardinality(Voted(x, choice)') = Cardinality(Voted(x, choice)) + 1
           /\ \A y \in Transactions, c \in Choices :
                 y # x \/ c # choice => Voted(y, c)' = Voted(y, c)
<1> USE DEF Choices
<1>1. /\ ballot \in [Transactions -> [Users -> {"none", "approved", "rejected"}]]
      /\ ballot[x][u] = "none"
      /\ ballot' = [ballot EXCEPT ![x][u] = choice]
  BY DEF TypeOK, RecordVote
<1>2. ballot' \in [Transactions -> [Users -> {"none", "approved", "rejected"}]]
  BY <1>1
<1>3. \A v \in Users : ballot'[x][v] = IF v = u THEN choice ELSE ballot[x][v]
  BY <1>1
<1>4. \A y \in Transactions : y # x => ballot'[y] = ballot[y]
  BY <1>1
<1>5. u \notin Voted(x, "approved") \cup Voted(x, "rejected")
  BY <1>1 DEF Voted
<1>6. Voted(x, choice)' = Voted(x, choice) \cup {u}
  BY <1>3 DEF Voted
<1>7. \A y \in Transactions, c \in Choices :
         y # x \/ c # choice => Voted(y, c)' = Voted(y, c)
  <2> SUFFICES ASSUME NEW y \in Transactions, NEW c \in Choices, y # x \/ c # choice
               PROVE  Voted(y, c)' = Voted(y, c)
    OBVIOUS
  <2>1. \A v \in Users : ballot'[y][v] = c <=> ballot[y][v] = c
    BY <1>1, <1>3, <1>4
  <2> QED
    BY <2>1 DEF Voted
<1>8. Cardinality(Voted(x, choice) \cup {u}) = Cardinality(Voted(x, choice)) + 1
  <2>1. Voted(x, choice) \in SUBSET Users /\ u \notin Voted(x, choice)
    BY <1>5 DEF Voted
  <2> QED
    BY <2>1, UsersCount, FS_AddElement
<1> QED
  BY <1>2, <1>5, <1>6, <1>7, <1>8

-----------------------------------------------------------------------------
\* Initially nothing exists.
LEMMA Initially == Init => IInv
<1> SUFFICES ASSUME Init PROVE IInv
  OBVIOUS
<1>1. TypeOK
  BY MultisigAssumption DEF Init, TypeOK, Transactions
<1>2. \A x \in Transactions : Voted(x, "approved") = {} /\ Voted(x, "rejected") = {}
  BY DEF Init, Voted
<1>3. CountsInv
  BY <1>2, FS_EmptySet DEF Init, CountsInv
<1>4. ThresholdsInv /\ VotersInv /\ StatusInv /\ VouchersInv
  BY DEF Init, ThresholdsInv, VotersInv, StatusInv, VouchersInv
<1> QED
  BY <1>1, <1>3, <1>4 DEF IInv

\* A transfer changes no account of the program.
LEMMA TransferKeeps ==
    ASSUME IInv, NEW d \in DWallets, NEW to \in Users \cup {Authority},
           TransferDWallet(d, to)
    PROVE  IInv'
<1> USE DEF IInv, TransferDWallet, multisigVars, txVars, voucherVars
<1>1. TypeOK'
  BY DEF TypeOK
<1>2. \A x, c : Voted(x, c)' = Voted(x, c)
  BY DEF Voted
<1>3. ThresholdsInv' /\ VotersInv' /\ VouchersInv'
  BY DEF ThresholdsInv, VotersInv, VouchersInv
<1>4. CountsInv' /\ StatusInv'
  BY <1>2 DEF CountsInv, StatusInv, RejectionThreshold
<1> QED
  BY <1>1, <1>3, <1>4

\* A new multisig has no transactions yet, so no vote is counted by its threshold.
LEMMA CreateMultisigKeeps ==
    ASSUME IInv, NEW d \in DWallets, NEW u \in Users, NEW chosen \in SUBSET Users,
           NEW needed \in 0 .. MaxMembers + 1, CreateMultisig(d, u, chosen, needed)
    PROVE  IInv'
<1> USE DEF IInv, CreateMultisig, txVars, voucherVars
<1>1. TypeOK'
  <2>1. Cardinality(chosen) \in Nat
    BY UsersCount
  <2>2. needed \in 0 .. MaxMembers
    BY <2>1, MultisigAssumption
  <2> QED
    BY <2>2 DEF TypeOK
<1>2. \A x, c : Voted(x, c)' = Voted(x, c)
  BY DEF Voted
<1>3. \A x \in Transactions : x[1] \in DWallets
  BY DEF Transactions
<1>4. \A x \in Transactions : x[1] = d => status[x] = "none"
  BY DEF VotersInv
<1>5. \A e \in DWallets : e # d => members'[e] = members[e] /\ threshold'[e] = threshold[e]
  BY DEF TypeOK
<1>6. members'[d] = chosen /\ threshold'[d] = needed
  BY DEF TypeOK
<1>7. ThresholdsInv'
  BY <1>5, <1>6 DEF ThresholdsInv, TypeOK
<1>8. VotersInv'
  BY <1>3, <1>4, <1>5 DEF VotersInv
<1>9. CountsInv' /\ VouchersInv'
  BY <1>2 DEF CountsInv, VouchersInv
<1>10. StatusInv'
  BY <1>3, <1>4, <1>5 DEF StatusInv, RejectionThreshold
<1> QED
  BY <1>1, <1>7, <1>8, <1>9, <1>10

\* A new transaction is open, has no votes, and its threshold takes at least one.
LEMMA CreateTransactionKeeps ==
    ASSUME IInv, NEW d \in DWallets, NEW u \in Users, NEW future \in BOOLEAN,
           CreateTransaction(d, u, future)
    PROVE  IInv'
<1> DEFINE x == <<d, txIndex[d]>>
<1>1. txIndex[d] \in 0 .. MaxTx /\ txIndex[d] < MaxTx /\ d \in created /\ status[x] = "none"
  BY DEF IInv, TypeOK, CreateTransaction
<1>2. x \in Transactions /\ x[1] = d
  BY <1>1, MultisigAssumption DEF Transactions
<1>3. status' = [status EXCEPT ![x] = "active"] /\ txIndex' = [txIndex EXCEPT ![d] = @ + 1]
  BY DEF CreateTransaction
<1>4. proposer' = [proposer EXCEPT ![x] = u] /\ futureSign' = [futureSign EXCEPT ![x] = future]
  BY DEF CreateTransaction
<1>5. UNCHANGED <<owner, created, members, threshold, approvals, rejections,
                  ballot, voucher, voucherOwner>>
  BY DEF CreateTransaction, voucherVars
<1> HIDE DEF x
<1>6. TypeOK'
  BY <1>1, <1>2, <1>3, <1>4, <1>5, MultisigAssumption DEF IInv, TypeOK
<1>7. \A y, c : Voted(y, c)' = Voted(y, c)
  BY <1>5 DEF Voted
<1>8. ThresholdsInv'
  BY <1>5 DEF IInv, ThresholdsInv
<1>9. \A y \in Transactions : status'[y] = IF y = x THEN "active" ELSE status[y]
  BY <1>3 DEF IInv, TypeOK
<1>10. VotersInv'
  BY <1>1, <1>2, <1>5, <1>9 DEF IInv, VotersInv
<1>11. CountsInv'
  BY <1>5, <1>7 DEF IInv, CountsInv
<1>12. StatusInv'
  <2>1. Voted(x, "approved") = {} /\ Voted(x, "rejected") = {}
    BY <1>1, <1>2 DEF IInv, VotersInv, Voted
  <2>2. approvals[x] = 0 /\ rejections[x] = 0
    BY <1>2, <2>1, FS_EmptySet DEF IInv, CountsInv
  <2>3. threshold[d] \in 1 .. Cardinality(members[d]) /\ Cardinality(members[d]) \in Nat
    BY <1>1, UsersCount DEF IInv, ThresholdsInv, TypeOK
  <2>4. approvals[x] < threshold[d] /\ rejections[x] < RejectionThreshold(d)
    BY <2>2, <2>3 DEF RejectionThreshold
  <2> QED
    BY <1>2, <1>5, <1>9, <2>4 DEF IInv, StatusInv, RejectionThreshold
<1>13. VouchersInv'
  BY <1>1, <1>2, <1>5, <1>9 DEF IInv, VouchersInv
<1> QED
  BY <1>6, <1>8, <1>10, <1>11, <1>12, <1>13 DEF IInv

\* A vote leaves the voters of the multisig's transactions its members.
LEMMA VoteKeepsVoters ==
    ASSUME TypeOK, VotersInv, NEW m \in DWallets, NEW x \in Transactions, NEW u \in Users,
           NEW choice \in Choices, RecordVote(m, x, u, choice),
           UNCHANGED <<created, members>>,
           \A y \in Transactions : y # x => status'[y] = status[y],
           status'[x] # "none"
    PROVE  VotersInv'
<1>1. m = x[1] /\ u \in members[m] /\ m \in created /\ status[x] = "active"
  BY DEF RecordVote
<1>2. \A y \in Transactions, v \in Users :
         ballot'[y][v] # ballot[y][v] => y = x /\ v = u
  BY DEF RecordVote, TypeOK
<1> QED
  BY <1>1, <1>2 DEF VotersInv

\* An approval is counted; the one that reaches the threshold issues the voucher.
LEMMA ApproveKeeps ==
    ASSUME IInv, NEW m \in DWallets, NEW x \in Transactions, NEW u \in Users,
           NEW w \in DWallets, Approve(m, x, u, w)
    PROVE  IInv'
<1>1. /\ RecordVote(m, x, u, "approved")
      /\ approvals' = [approvals EXCEPT ![x] = @ + 1]
      /\ UNCHANGED <<owner, created, members, threshold, txIndex, proposer, futureSign,
                     rejections>>
  BY DEF Approve, multisigVars
<1>2. m = x[1] /\ status[x] = "active" /\ m \in created
  BY <1>1 DEF RecordVote
<1>3. TypeOK /\ "approved" \in Choices /\ "rejected" \in Choices
  BY DEF IInv, Choices
<1>4. /\ ballot' \in [Transactions -> [Users -> {"none", "approved", "rejected"}]]
      /\ Cardinality(Voted(x, "approved")') = Cardinality(Voted(x, "approved")) + 1
      /\ \A y \in Transactions, c \in Choices :
            y # x \/ c # "approved" => Voted(y, c)' = Voted(y, c)
  BY <1>1, <1>3, VoteRecorded
<1>5. CountsInv'
  BY <1>1, <1>3, <1>4 DEF IInv, CountsInv, TypeOK
<1>6. ThresholdsInv'
  BY <1>1 DEF IInv, ThresholdsInv
<1>7. CASE approvals[x] + 1 >= threshold[m]
  <2>1. /\ status' = [status EXCEPT ![x] = "approved"]
        /\ voucher' = [voucher EXCEPT ![x] = m]
        /\ voucherOwner' = [voucherOwner EXCEPT ![x] =
                              IF futureSign[x] THEN proposer[x] ELSE Authority]
    BY <1>7 DEF Approve, IssueVoucher
  <2>2. TypeOK'
    BY <1>1, <1>4, <2>1 DEF IInv, TypeOK
  <2>3. \A y \in Transactions : status'[y] = IF y = x THEN "approved" ELSE status[y]
    BY <1>3, <2>1 DEF TypeOK
  <2>4. VotersInv'
    BY <1>1, <1>3, <2>3, VoteKeepsVoters DEF IInv
  <2>5. StatusInv'
    BY <1>1, <1>2, <1>7, <2>3 DEF IInv, StatusInv, RejectionThreshold, TypeOK
  <2>6. VouchersInv'
    BY <1>2, <2>1, <2>3 DEF IInv, VouchersInv, TypeOK
  <2> QED
    BY <1>5, <1>6, <2>2, <2>4, <2>5, <2>6 DEF IInv
<1>8. CASE ~(approvals[x] + 1 >= threshold[m])
  <2>1. UNCHANGED <<status, voucher, voucherOwner>>
    BY <1>8 DEF Approve, voucherVars
  <2>2. TypeOK'
    <3>1. approvals' \in [Transactions -> Nat]
      BY <1>1, <1>3 DEF TypeOK
    <3> QED
      BY <1>1, <1>3, <1>4, <2>1, <3>1 DEF TypeOK
  <2>3. VotersInv'
    BY <1>1, <1>2, <1>3, <2>1, VoteKeepsVoters DEF IInv
  <2>4. StatusInv'
    <3>1. threshold[m] \in Nat /\ approvals[x] \in Nat
      BY <1>3 DEF TypeOK
    <3> QED
      BY <1>1, <1>2, <1>8, <2>1, <3>1 DEF IInv, StatusInv, RejectionThreshold, TypeOK
  <2>5. VouchersInv'
    BY <2>1 DEF IInv, VouchersInv
  <2> QED
    BY <1>5, <1>6, <2>2, <2>3, <2>4, <2>5 DEF IInv
<1> QED
  BY <1>7, <1>8

\* A rejection is counted; the one that puts the threshold out of reach closes.
LEMMA RejectKeeps ==
    ASSUME IInv, NEW m \in DWallets, NEW x \in Transactions, NEW u \in Users,
           Reject(m, x, u)
    PROVE  IInv'
<1>1. /\ RecordVote(m, x, u, "rejected")
      /\ rejections' = [rejections EXCEPT ![x] = @ + 1]
      /\ UNCHANGED <<owner, created, members, threshold, txIndex, proposer, futureSign,
                     approvals, voucher, voucherOwner>>
  BY DEF Reject, multisigVars, voucherVars
<1>2. m = x[1] /\ status[x] = "active" /\ m \in created
  BY <1>1 DEF RecordVote
<1>3. TypeOK /\ "approved" \in Choices /\ "rejected" \in Choices
  BY DEF IInv, Choices
<1>4. /\ ballot' \in [Transactions -> [Users -> {"none", "approved", "rejected"}]]
      /\ Cardinality(Voted(x, "rejected")') = Cardinality(Voted(x, "rejected")) + 1
      /\ \A y \in Transactions, c \in Choices :
            y # x \/ c # "rejected" => Voted(y, c)' = Voted(y, c)
  BY <1>1, <1>3, VoteRecorded
<1>5. \A y \in Transactions :
         status'[y] = IF y = x /\ rejections[x] + 1 >= RejectionThreshold(m)
                      THEN "rejected" ELSE status[y]
  BY <1>3 DEF Reject, TypeOK
<1>6. TypeOK'
  <2>1. rejections' \in [Transactions -> Nat]
    BY <1>1, <1>3 DEF TypeOK
  <2>2. status' \in [Transactions -> {"none", "active", "approved", "rejected"}]
    BY <1>3 DEF Reject, TypeOK
  <2> QED
    BY <1>1, <1>3, <1>4, <2>1, <2>2 DEF TypeOK
<1>7. VotersInv'
  BY <1>1, <1>2, <1>3, <1>5, VoteKeepsVoters DEF IInv
<1>8. CountsInv'
  BY <1>1, <1>3, <1>4 DEF IInv, CountsInv, TypeOK
<1>9. StatusInv'
  <2>1. /\ members[m] \in SUBSET Users /\ threshold[m] \in Nat
        /\ RejectionThreshold(m) \in Int /\ rejections[x] \in Nat
    BY <1>3, UsersCount DEF TypeOK, RejectionThreshold
  <2>2. \A d \in DWallets : RejectionThreshold(d)' = RejectionThreshold(d)
    BY <1>1 DEF RejectionThreshold
  <2>3. \A y \in Transactions : y[1] \in DWallets
    BY DEF Transactions
  <2>4. \A y \in Transactions : rejections'[y] = IF y = x THEN rejections[x] + 1 ELSE rejections[y]
    BY <1>1, <1>3 DEF TypeOK
  <2> QED
    BY <1>1, <1>2, <1>5, <2>1, <2>2, <2>3, <2>4 DEF IInv, StatusInv
<1>10. ThresholdsInv' /\ VouchersInv'
  BY <1>1, <1>2, <1>5 DEF IInv, ThresholdsInv, VouchersInv
<1> QED
  BY <1>6, <1>7, <1>8, <1>9, <1>10 DEF IInv

\* Every instruction, and a stuttering step, keeps the invariant.
LEMMA StepKeeps == IInv /\ [Next]_vars => IInv'
<1> SUFFICES ASSUME IInv, [Next]_vars PROVE IInv'
  OBVIOUS
<1>1. CASE UNCHANGED vars
  <2>1. \A x, c : Voted(x, c)' = Voted(x, c)
    BY <1>1 DEF vars, Voted
  <2> QED
    BY <1>1, <2>1 DEF vars, IInv, TypeOK, ThresholdsInv, VotersInv, CountsInv,
                      StatusInv, VouchersInv, RejectionThreshold
<1>2. CASE Next
  BY <1>2, TransferKeeps, CreateMultisigKeeps, CreateTransactionKeeps, ApproveKeeps,
     RejectKeeps DEF Next
<1> QED
  BY <1>1, <1>2

\* The inductive invariant holds in every reachable state.
THEOREM Invariance == Spec => []IInv
BY Initially, StepKeeps, PTL DEF Spec

\* The fields of the program's accounts keep their types.
THEOREM TypeCorrect == Spec => []TypeOK
<1>1. IInv => TypeOK
  BY DEF IInv
<1> QED
  BY <1>1, Invariance, PTL

\* approve: a voucher exists only for the dWallet of the transaction's own multisig,
\* and only when the threshold of its members approved, each counted once.
THEOREM VouchersNeedQuorum == Spec => []VoucherNeedsQuorum
<1>1. IInv => VoucherNeedsQuorum
  <2> SUFFICES ASSUME IInv, NEW x \in Transactions, voucher[x] # NoDWallet
               PROVE  /\ voucher[x] = x[1]
                      /\ Cardinality(Voted(x, "approved") \cap members[x[1]])
                            >= threshold[x[1]]
    BY DEF VoucherNeedsQuorum
  <2>1. status[x] = "approved" /\ voucher[x] = x[1]
    BY DEF IInv, VouchersInv
  <2>2. approvals[x] >= threshold[x[1]] /\ approvals[x] = Cardinality(Voted(x, "approved"))
    BY <2>1 DEF IInv, StatusInv, CountsInv
  <2> QED
    BY <2>1, <2>2, NotRejected DEF IInv
<1> QED
  BY <1>1, Invariance, PTL

\* approve with its cross-program call: approval and voucher come together.
THEOREM ApprovedWithVoucher == Spec => []ApprovedExactlyWithVoucher
<1>1. IInv => ApprovedExactlyWithVoucher
  <2>1. \A x \in Transactions : x[1] # NoDWallet
    BY MultisigAssumption DEF Transactions
  <2> QED
    BY <2>1 DEF IInv, VouchersInv, ApprovedExactlyWithVoucher
<1> QED
  BY <1>1, Invariance, PTL

\* reject: a transaction is closed exactly when the members who did not reject it
\* can no longer reach the threshold.
THEOREM RejectedWhenHopeless == Spec => []RejectedExactlyWhenHopeless
<1>1. IInv => RejectedExactlyWhenHopeless
  <2> SUFFICES ASSUME IInv, NEW x \in Transactions, status[x] # "none"
               PROVE  status[x] = "rejected" <=>
                         Cardinality(members[x[1]] \ Voted(x, "rejected")) < threshold[x[1]]
    BY DEF RejectedExactlyWhenHopeless
  <2>1. x[1] \in DWallets /\ status[x] \in {"active", "approved", "rejected"}
    BY DEF IInv, TypeOK, Transactions
  <2>2. /\ Cardinality(members[x[1]]) \in Nat /\ threshold[x[1]] \in Nat
        /\ rejections[x] \in Nat
    BY <2>1, UsersCount DEF IInv, TypeOK
  <2>3. Cardinality(members[x[1]] \ Voted(x, "rejected")) =
           Cardinality(members[x[1]]) - rejections[x]
    BY NotRejected DEF IInv, CountsInv
  <2>4. status[x] = "rejected" <=> rejections[x] >= RejectionThreshold(x[1])
    BY <2>1, <2>2 DEF IInv, StatusInv, RejectionThreshold
  <2> QED
    BY <2>2, <2>3, <2>4 DEF RejectionThreshold
<1> QED
  BY <1>1, Invariance, PTL

-----------------------------------------------------------------------------
(* The refinement of QuorumDecision.                                       *)

\* The abstract variables, as Abstract maps them.
AbsElectorate == [x \in Transactions |-> IF status[x] = "none" THEN {} ELSE members[x[1]]]
AbsQuorum == [x \in Transactions |-> IF status[x] = "none" THEN 0 ELSE threshold[x[1]]]
AbsYes == [x \in Transactions |-> Voted(x, "approved")]
AbsNo == [x \in Transactions |-> Voted(x, "rejected")]
AbsDecision == [x \in Transactions |->
                  CASE status[x] = "none" -> "unopened"
                    [] status[x] = "active" -> "open"
                    [] OTHER -> status[x]]

\* QuorumDecision counts as this module does.
LEMMA AbsCount == \A S : Abstract!Cardinality(S) = Cardinality(S)
BY DEF Cardinality, Abstract!Cardinality

\* The initial states are initial states of the vote.
LEMMA AbsInitially == Init => Abstract!AbsInit
<1> SUFFICES ASSUME Init PROVE Abstract!AbsInit
  OBVIOUS
<1>1. \A x \in Transactions : Voted(x, "approved") = {} /\ Voted(x, "rejected") = {}
  BY DEF Init, Voted
<1>2. \A x \in Transactions : status[x] = "none"
  BY DEF Init
<1> QED
  BY <1>1, <1>2 DEF Abstract!AbsInit

\* What the mapping makes of one transaction.
LEMMA AbsAt ==
    ASSUME NEW x \in Transactions
    PROVE  /\ AbsElectorate[x] = IF status[x] = "none" THEN {} ELSE members[x[1]]
           /\ AbsQuorum[x] = IF status[x] = "none" THEN 0 ELSE threshold[x[1]]
           /\ AbsYes[x] = Voted(x, "approved")
           /\ AbsNo[x] = Voted(x, "rejected")
           /\ AbsDecision[x] = IF status[x] = "none" THEN "unopened"
                               ELSE IF status[x] = "active" THEN "open" ELSE status[x]
BY DEF AbsElectorate, AbsQuorum, AbsYes, AbsNo, AbsDecision

\* create_transaction opens the vote of the next index to the multisig's members.
LEMMA AbsCreateTransaction ==
    ASSUME IInv, NEW d \in DWallets, NEW u \in Users, NEW future \in BOOLEAN,
           CreateTransaction(d, u, future)
    PROVE  Abstract!AbsNext
<1>1. /\ txIndex[d] \in 0 .. MaxTx /\ txIndex[d] < MaxTx /\ d \in created
      /\ status[<<d, txIndex[d]>>] = "none"
  BY DEF IInv, TypeOK, CreateTransaction
<1> PICK x \in Transactions : x = <<d, txIndex[d]>>
  BY <1>1, MultisigAssumption DEF Transactions
<1>2. x[1] = d /\ status[x] = "none"
  BY <1>1
<1>3. status' = [status EXCEPT ![x] = "active"] /\ UNCHANGED <<members, threshold, ballot>>
  BY DEF CreateTransaction
<1>4. \A y \in Transactions : status'[y] = IF y = x THEN "active" ELSE status[y]
  BY <1>3 DEF IInv, TypeOK
<1>5. threshold[d] \in 1 .. Cardinality(members[d]) /\ members[d] \in SUBSET Users
  BY <1>1 DEF IInv, ThresholdsInv, TypeOK
<1>6. AbsDecision[x] = "unopened"
  BY <1>2, AbsAt
<1>7. AbsElectorate' = [AbsElectorate EXCEPT ![x] = members[d]]
  <2>1. \A y \in Transactions : AbsElectorate'[y] = IF y = x THEN members[d] ELSE AbsElectorate[y]
    BY <1>2, <1>3, <1>4 DEF AbsElectorate
  <2> QED
    BY <2>1 DEF AbsElectorate
<1>8. AbsQuorum' = [AbsQuorum EXCEPT ![x] = threshold[d]]
  <2>1. \A y \in Transactions : AbsQuorum'[y] = IF y = x THEN threshold[d] ELSE AbsQuorum[y]
    BY <1>2, <1>3, <1>4 DEF AbsQuorum
  <2> QED
    BY <2>1 DEF AbsQuorum
<1>9. AbsDecision' = [AbsDecision EXCEPT ![x] = "open"]
  BY <1>2, <1>4 DEF AbsDecision
<1>10. AbsYes' = AbsYes /\ AbsNo' = AbsNo
  BY <1>3 DEF AbsYes, AbsNo, Voted
<1> PICK electors \in SUBSET Users : electors = members[d]
  BY <1>5
<1> PICK needed \in 1 .. Cardinality(electors) : needed = threshold[d]
  BY <1>5
<1>11. Abstract!Open(x, electors, needed)
  BY <1>6, <1>7, <1>8, <1>9, <1>10, AbsCount
  DEF Abstract!Open, AbsElectorate, AbsQuorum, AbsYes, AbsNo, AbsDecision
<1>12. needed \in 1 .. Abstract!Cardinality(electors)
  BY AbsCount
<1> QED
  BY <1>11, <1>12 DEF Abstract!AbsNext

\* A member who may record a vote on a transaction may vote on it.
LEMMA AbsCanVote ==
    ASSUME IInv, NEW m \in DWallets, NEW x \in Transactions, NEW u \in Users,
           NEW choice \in Choices, RecordVote(m, x, u, choice)
    PROVE  Abstract!CanVote(x, u)
<1>1. /\ m = x[1] /\ status[x] = "active" /\ u \in members[m]
      /\ u \notin Voted(x, "approved") \cup Voted(x, "rejected")
  BY VoteRecorded DEF IInv, RecordVote
<1>2. AbsDecision[x] = "open" /\ u \in AbsElectorate[x] \ (AbsYes[x] \cup AbsNo[x])
  BY <1>1, AbsAt
<1> QED
  BY <1>2 DEF Abstract!CanVote, AbsElectorate, AbsYes, AbsNo, AbsDecision

\* approve is a vote for, decided by counting as by the sets of voters.
LEMMA AbsApprove ==
    ASSUME IInv, NEW m \in DWallets, NEW x \in Transactions, NEW u \in Users,
           NEW w \in DWallets, Approve(m, x, u, w)
    PROVE  Abstract!AbsNext
<1>1. "approved" \in Choices /\ "rejected" \in Choices
  BY DEF Choices
<1>2. RecordVote(m, x, u, "approved") /\ UNCHANGED <<members, threshold, rejections>>
  BY DEF Approve, multisigVars
<1>3. m = x[1] /\ status[x] = "active"
  BY <1>2 DEF RecordVote
<1>4. /\ Voted(x, "approved")' = Voted(x, "approved") \cup {u}
      /\ Cardinality(Voted(x, "approved")') = Cardinality(Voted(x, "approved")) + 1
      /\ \A y \in Transactions, c \in Choices :
            y # x \/ c # "approved" => Voted(y, c)' = Voted(y, c)
  BY <1>1, <1>2, VoteRecorded DEF IInv
<1>5. \A y \in Transactions :
         status'[y] = IF y = x /\ approvals[x] + 1 >= threshold[m] THEN "approved" ELSE status[y]
  BY DEF Approve, IssueVoucher, IInv, TypeOK
<1>6. AbsYes' = [AbsYes EXCEPT ![x] = @ \cup {u}] /\ AbsNo' = AbsNo
  BY <1>1, <1>4 DEF AbsYes, AbsNo
<1>7. AbsElectorate' = AbsElectorate /\ AbsQuorum' = AbsQuorum
  BY <1>2, <1>3, <1>5 DEF AbsElectorate, AbsQuorum
<1>8. Abstract!Decide(AbsElectorate[x], AbsQuorum[x], AbsYes[x] \cup {u}, AbsNo[x]) =
         IF approvals[x] + 1 >= threshold[m] THEN "approved" ELSE "open"
  <2>1. /\ AbsElectorate[x] = members[m] /\ AbsQuorum[x] = threshold[m]
        /\ AbsYes[x] = Voted(x, "approved") /\ AbsNo[x] = Voted(x, "rejected")
    BY <1>3, AbsAt
  <2>2. Cardinality(AbsYes[x] \cup {u}) = approvals[x] + 1
    BY <1>4, <2>1 DEF IInv, CountsInv
  <2>3. Cardinality(AbsElectorate[x] \ AbsNo[x]) = Cardinality(members[m]) - rejections[x]
    BY <1>3, <2>1, NotRejected DEF IInv, CountsInv
  <2>4. /\ Cardinality(members[m]) \in Nat /\ threshold[m] \in Nat /\ rejections[x] \in Nat
        /\ rejections[x] < RejectionThreshold(m)
    BY <1>3, UsersCount DEF IInv, TypeOK, StatusInv
  <2>5. ~(Cardinality(AbsElectorate[x] \ AbsNo[x]) < AbsQuorum[x])
    BY <2>1, <2>3, <2>4 DEF RejectionThreshold
  <2>6. Cardinality(AbsYes[x] \cup {u}) >= AbsQuorum[x] <=> approvals[x] + 1 >= threshold[m]
    BY <2>1, <2>2
  <2> QED
    BY <2>5, <2>6, AbsCount DEF Abstract!Decide
<1>9. AbsDecision' = [AbsDecision EXCEPT ![x] =
                        IF approvals[x] + 1 >= threshold[m] THEN "approved" ELSE "open"]
  BY <1>3, <1>5 DEF AbsDecision
<1>10. Abstract!VoteYes(x, u)
  BY <1>1, <1>2, <1>6, <1>7, <1>8, <1>9, AbsCanVote
  DEF Abstract!VoteYes, AbsElectorate, AbsQuorum, AbsYes, AbsNo, AbsDecision
<1> QED
  BY <1>10 DEF Abstract!AbsNext

\* reject is a vote against, likewise.
LEMMA AbsReject ==
    ASSUME IInv, NEW m \in DWallets, NEW x \in Transactions, NEW u \in Users,
           Reject(m, x, u)
    PROVE  Abstract!AbsNext
<1>1. "approved" \in Choices /\ "rejected" \in Choices
  BY DEF Choices
<1>2. RecordVote(m, x, u, "rejected") /\ UNCHANGED <<members, threshold, approvals>>
  BY DEF Reject, multisigVars
<1>3. m = x[1] /\ status[x] = "active" /\ u \in members[m]
  BY <1>2 DEF RecordVote
<1>4. /\ Voted(x, "rejected")' = Voted(x, "rejected") \cup {u}
      /\ Cardinality(Voted(x, "rejected")') = Cardinality(Voted(x, "rejected")) + 1
      /\ \A y \in Transactions, c \in Choices :
            y # x \/ c # "rejected" => Voted(y, c)' = Voted(y, c)
  BY <1>1, <1>2, VoteRecorded DEF IInv
<1>5. \A y \in Transactions :
         status'[y] = IF y = x /\ rejections[x] + 1 >= RejectionThreshold(m)
                      THEN "rejected" ELSE status[y]
  BY DEF Reject, IInv, TypeOK
<1>6. AbsNo' = [AbsNo EXCEPT ![x] = @ \cup {u}] /\ AbsYes' = AbsYes
  BY <1>1, <1>4 DEF AbsYes, AbsNo
<1>7. AbsElectorate' = AbsElectorate /\ AbsQuorum' = AbsQuorum
  BY <1>2, <1>3, <1>5 DEF AbsElectorate, AbsQuorum
<1>8. Abstract!Decide(AbsElectorate[x], AbsQuorum[x], AbsYes[x], AbsNo[x] \cup {u}) =
         IF rejections[x] + 1 >= RejectionThreshold(m) THEN "rejected" ELSE "open"
  <2>1. /\ AbsElectorate[x] = members[m] /\ AbsQuorum[x] = threshold[m]
        /\ AbsYes[x] = Voted(x, "approved") /\ AbsNo[x] = Voted(x, "rejected")
    BY <1>3, AbsAt
  <2>2. /\ Cardinality(members[m]) \in Nat /\ threshold[m] \in Nat /\ rejections[x] \in Nat
        /\ approvals[x] \in Nat /\ approvals[x] < threshold[m]
    BY <1>3, UsersCount DEF IInv, TypeOK, StatusInv
  <2>3. Cardinality(AbsYes[x]) = approvals[x]
    BY <2>1 DEF IInv, CountsInv
  <2>4. Cardinality(AbsElectorate[x] \ (AbsNo[x] \cup {u})) =
           Cardinality(members[m]) - (rejections[x] + 1)
    <3>1. members[m] \in SUBSET Users /\ IsFiniteSet(members[m])
      BY UsersCount DEF IInv, TypeOK
    <3>2. members[m] \cap (AbsNo[x] \cup {u}) = AbsNo[x] \cup {u}
      BY <1>3, <2>1 DEF IInv, VotersInv, Voted
    <3>3. Cardinality(AbsNo[x] \cup {u}) = rejections[x] + 1
      BY <1>4, <2>1 DEF IInv, CountsInv
    <3>4. Cardinality(members[m] \ (AbsNo[x] \cup {u})) =
             Cardinality(members[m]) - Cardinality(members[m] \cap (AbsNo[x] \cup {u}))
      BY <3>1, FS_Difference
    <3> QED
      BY <2>1, <3>2, <3>3, <3>4
  <2>5. ~(Cardinality(AbsYes[x]) >= AbsQuorum[x])
    BY <2>1, <2>2, <2>3
  <2>6. Cardinality(AbsElectorate[x] \ (AbsNo[x] \cup {u})) < AbsQuorum[x]
           <=> rejections[x] + 1 >= RejectionThreshold(m)
    BY <2>1, <2>2, <2>4 DEF RejectionThreshold
  <2> QED
    BY <2>5, <2>6, AbsCount DEF Abstract!Decide
<1>9. AbsDecision' = [AbsDecision EXCEPT ![x] =
                        IF rejections[x] + 1 >= RejectionThreshold(m) THEN "rejected" ELSE "open"]
  BY <1>3, <1>5 DEF AbsDecision
<1>10. Abstract!VoteNo(x, u)
  BY <1>1, <1>2, <1>6, <1>7, <1>8, <1>9, AbsCanVote
  DEF Abstract!VoteNo, AbsElectorate, AbsQuorum, AbsYes, AbsNo, AbsDecision
<1> QED
  BY <1>10 DEF Abstract!AbsNext

\* A transfer and a new multisig change no vote: no transaction has the new one's members.
LEMMA AbsStutters ==
    ASSUME IInv,
           \/ UNCHANGED vars
           \/ \E d \in DWallets, to \in Users \cup {Authority} : TransferDWallet(d, to)
           \/ \E d \in DWallets, u \in Users, chosen \in SUBSET Users,
                 needed \in 0 .. MaxMembers + 1 : CreateMultisig(d, u, chosen, needed)
    PROVE  UNCHANGED <<AbsElectorate, AbsQuorum, AbsYes, AbsNo, AbsDecision>>
<1>1. status' = status /\ ballot' = ballot
  BY DEF vars, TransferDWallet, CreateMultisig, txVars
<1>2. \A x \in Transactions :
         status[x] # "none" => members'[x[1]] = members[x[1]] /\ threshold'[x[1]] = threshold[x[1]]
  <2>1. \A x \in Transactions : x[1] \in DWallets /\ (status[x] # "none" => x[1] \in created)
    BY DEF IInv, VotersInv, Transactions
  <2> QED
    BY <2>1 DEF vars, TransferDWallet, multisigVars, CreateMultisig, IInv, TypeOK
<1>3. AbsElectorate' = AbsElectorate /\ AbsQuorum' = AbsQuorum
  BY <1>1, <1>2 DEF AbsElectorate, AbsQuorum
<1>4. AbsYes' = AbsYes /\ AbsNo' = AbsNo /\ AbsDecision' = AbsDecision
  BY <1>1 DEF AbsYes, AbsNo, AbsDecision, Voted
<1> QED
  BY <1>3, <1>4

\* The program's instructions implement the abstract vote: every instruction is a
\* step of it or changes nothing it sees.
THEOREM Implements == Spec => ImplementsQuorumDecision
<1>1. IInv /\ [Next]_vars => [Abstract!AbsNext]_(Abstract!absVars)
  <2> SUFFICES ASSUME IInv, [Next]_vars
               PROVE  Abstract!AbsNext \/ UNCHANGED Abstract!absVars
    OBVIOUS
  <2>1. CASE \/ UNCHANGED vars
             \/ \E d \in DWallets, to \in Users \cup {Authority} : TransferDWallet(d, to)
             \/ \E d \in DWallets, u \in Users, chosen \in SUBSET Users,
                   needed \in 0 .. MaxMembers + 1 : CreateMultisig(d, u, chosen, needed)
    BY <2>1, AbsStutters
    DEF Abstract!absVars, AbsElectorate, AbsQuorum, AbsYes, AbsNo, AbsDecision
  <2>2. CASE \E d \in DWallets, u \in Users, future \in BOOLEAN : CreateTransaction(d, u, future)
    BY <2>2, AbsCreateTransaction
  <2>3. CASE \E m \in DWallets, x \in Transactions, u \in Users, w \in DWallets :
                Approve(m, x, u, w)
    BY <2>3, AbsApprove
  <2>4. CASE \E m \in DWallets, x \in Transactions, u \in Users : Reject(m, x, u)
    BY <2>4, AbsReject
  <2> QED
    BY <2>1, <2>2, <2>3, <2>4 DEF Next
<1> QED
  BY <1>1, AbsInitially, Invariance, PTL DEF Spec, ImplementsQuorumDecision, Abstract!AbsSpec

=============================================================================
