--------------------------- MODULE QuorumDecision ---------------------------
(***************************************************************************)
(* What a voting program promises of each proposal, without counters,      *)
(* accounts or cross-program calls: electors vote at most once, a proposal *)
(* is approved at the vote that makes its quorum, rejected at the vote     *)
(* that puts the quorum out of reach, and a decision is final.             *)
(***************************************************************************)
EXTENDS Naturals, FiniteSets

CONSTANTS
    Proposals,
    Voters

VARIABLES
    electorate,  \* who may vote on each proposal
    quorum,      \* how many approvals it takes
    yes,         \* who approved
    no,          \* who rejected
    decision     \* "unopened", "open", "approved" or "rejected"

absVars == <<electorate, quorum, yes, no, decision>>

\* The decision the votes amount to.
Decide(electors, needed, for, against) ==
    IF Cardinality(for) >= needed THEN "approved"
    ELSE IF Cardinality(electors \ against) < needed THEN "rejected"
    ELSE "open"

AbsInit ==
    /\ electorate = [p \in Proposals |-> {}]
    /\ quorum = [p \in Proposals |-> 0]
    /\ yes = [p \in Proposals |-> {}]
    /\ no = [p \in Proposals |-> {}]
    /\ decision = [p \in Proposals |-> "unopened"]

Open(p, electors, needed) ==
    /\ decision[p] = "unopened"
    /\ needed \in 1 .. Cardinality(electors)
    /\ electorate' = [electorate EXCEPT ![p] = electors]
    /\ quorum' = [quorum EXCEPT ![p] = needed]
    /\ decision' = [decision EXCEPT ![p] = "open"]
    /\ UNCHANGED <<yes, no>>

CanVote(p, v) ==
    /\ decision[p] = "open"
    /\ v \in electorate[p] \ (yes[p] \cup no[p])

VoteYes(p, v) ==
    /\ CanVote(p, v)
    /\ yes' = [yes EXCEPT ![p] = @ \cup {v}]
    /\ decision' = [decision EXCEPT ![p] =
                      Decide(electorate[p], quorum[p], yes[p] \cup {v}, no[p])]
    /\ UNCHANGED <<electorate, quorum, no>>

VoteNo(p, v) ==
    /\ CanVote(p, v)
    /\ no' = [no EXCEPT ![p] = @ \cup {v}]
    /\ decision' = [decision EXCEPT ![p] =
                      Decide(electorate[p], quorum[p], yes[p], no[p] \cup {v})]
    /\ UNCHANGED <<electorate, quorum, yes>>

AbsNext ==
    \E p \in Proposals :
        \/ \E electors \in SUBSET Voters : \E needed \in 1 .. Cardinality(electors) :
              Open(p, electors, needed)
        \/ \E v \in Voters : VoteYes(p, v) \/ VoteNo(p, v)

AbsSpec == AbsInit /\ [][AbsNext]_absVars
=============================================================================
