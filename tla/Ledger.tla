------------------------------- MODULE Ledger -------------------------------
(***************************************************************************)
(* What enrollment promises the people who look at a repository, with no   *)
(* word of how: its loop issues are opened one at a time, under numbers    *)
(* never used before, and its entry in the store is a verdict they can     *)
(* follow: fully aligned, or a percentage and the loop issue that asks for *)
(* the next test.  The Enroll RPC (pkg/enroll/pipeline.go) keeps it.       *)
(***************************************************************************)
EXTENDS Integers

CONSTANTS
    Repos,    \* the repositories
    None,     \* no verdict
    Durable   \* TRUE: verdicts outlive the daemon

VARIABLES
    opened,   \* opened[r]: the numbers of the loop issues ever opened in r
    open,     \* open[r]: those that are open
    verdict   \* verdict[r]: what the store says of r

vars == <<opened, open, verdict>>

Init ==
    /\ opened = [r \in Repos |-> {}]
    /\ open = [r \in Repos |-> {}]
    /\ verdict = [r \in Repos |-> None]

\* A loop issue is opened only when none is open, under a fresh number.
Open(r) ==
    /\ open[r] = {}
    /\ \E n \in opened'[r] \ opened[r] :
         /\ opened' = [opened EXCEPT ![r] = @ \cup {n}]
         /\ open' = [open EXCEPT ![r] = {n}]
    /\ UNCHANGED verdict

\* Only people close one.
Close(r) ==
    /\ \E n \in open[r] : open' = [open EXCEPT ![r] = @ \ {n}]
    /\ UNCHANGED <<opened, verdict>>

\* A verdict below 100 % names a loop issue that was opened in this very repository.
Followable(r, v) ==
    /\ v \in [pct : 0..100, issue : Nat]
    /\ IF v.pct = 100 THEN v.issue = 0 ELSE v.issue \in opened[r]

Enter(r) ==
    /\ Followable(r, verdict'[r])
    /\ verdict' = [verdict EXCEPT ![r] = verdict'[r]]
    /\ UNCHANGED <<opened, open>>

\* The daemon dies with its in-memory store.
Forget ==
    /\ ~Durable
    /\ verdict' = [r \in Repos |-> None]
    /\ UNCHANGED <<opened, open>>

Next == (\E r \in Repos : Open(r) \/ Close(r) \/ Enter(r)) \/ Forget

Spec == Init /\ [][Next]_vars
=============================================================================
