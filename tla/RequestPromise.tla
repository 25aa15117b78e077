--------------------------- MODULE RequestPromise ---------------------------
(***************************************************************************)
(* What the SDK promises an application about a request, without epochs,   *)
(* sessions, presigns, resends or lookups: the network runs it at most     *)
(* once; what the application is told about a run is backed by a run, or   *)
(* by what the chain shows at the place the request names; and once it is  *)
(* told how the request went, or that it never ran, nothing runs any more. *)
(* After "failed" and "pending" it may still run.                          *)
(***************************************************************************)
CONSTANTS
    Requests,
    Demands,     \* what a request may ask for: a kind, and the target it names
    WritingKinds \* the kinds whose run is written to the target

VARIABLES
    asked,    \* what each request asks for, once it is made
    runs,     \* the requests the network ran
    written,  \* <<target, kind>>: what the chain shows
    told      \* what the application knows of each request

promiseVars == <<asked, runs, written, told>>

\* The application knows no more than that it asked.
Open == {"nothing", "failed", "pending"}

NotAsked == [kind |-> "none", target |-> "none"]

PromiseInit ==
    /\ asked = [r \in Requests |-> NotAsked]
    /\ runs = {}
    /\ written = {}
    /\ told = [r \in Requests |-> "nothing"]

Ask(r) ==
    /\ asked[r] = NotAsked
    /\ \E demand \in Demands : asked' = [asked EXCEPT ![r] = demand]
    /\ UNCHANGED <<runs, written, told>>

\* The network runs a request that it did not run before, and of which nothing
\* final was told.
Run(r) ==
    /\ asked[r] # NotAsked
    /\ r \notin runs
    /\ told[r] \in Open
    /\ runs' = runs \cup {r}
    /\ UNCHANGED <<asked, written, told>>

\* A request that ran is written to its target, where nothing of its kind was.
Write(r) ==
    LET place == <<asked[r].target, asked[r].kind>> IN
    /\ r \in runs
    /\ asked[r].kind \in WritingKinds
    /\ place \notin written
    /\ written' = written \cup {place}
    /\ UNCHANGED <<asked, runs, told>>

\* What may be told of a request.
Backed(r, what) ==
    \/ what \in {"failed", "pending"}
    \/ what = "answer" /\ r \in runs
    \/ what = "signature" /\ <<asked[r].target, asked[r].kind>> \in written
    \/ what = "ran" /\ (r \in runs \/ \E k \in WritingKinds : <<asked[r].target, k>> \in written)
    \/ what = "neverRan" /\ r \notin runs

\* An end is told once; a pending request may be resolved later.
Tell(r) ==
    /\ asked[r] # NotAsked
    /\ told[r] \in {"nothing", "pending"}
    /\ \E what \in {"failed", "pending", "answer", "signature", "ran", "neverRan"} :
          /\ told[r] = "pending" => what \in {"ran", "neverRan"}
          /\ Backed(r, what)
          /\ told' = [told EXCEPT ![r] = what]
    /\ UNCHANGED <<asked, runs, written>>

PromiseNext == \E r \in Requests : Ask(r) \/ Run(r) \/ Write(r) \/ Tell(r)

PromiseSpec == PromiseInit /\ [][PromiseNext]_promiseVars
=============================================================================
