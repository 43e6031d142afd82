---------------------------- MODULE EnrollLedger ----------------------------
(***************************************************************************)
(* The Enroll RPC, call by call, keeps the promise of Ledger: what a       *)
(* repository's people and the readers of the store see of it.             *)
(***************************************************************************)
EXTENDS Enroll

ASSUME NoneNoRecord == None \notin Records

Everopened(r) == {i.num : i \in {j \in issues : j.repo = r /\ j.label = "loop"}}
Nowopen(r)    == {i.num : i \in OpenIssues(r, "loop")}
Verdict(r)    == IF record[r] = None
                 THEN None
                 ELSE [pct |-> record[r].pct, issue |-> record[r].issue]

Promise == INSTANCE Ledger WITH
    opened  <- [r \in Repos |-> Everopened(r)],
    open    <- [r \in Repos |-> Nowopen(r)],
    verdict <- [r \in Repos |-> Verdict(r)]

\* Whatever calls overlap, fail, are lost or die with the daemon: loop issues are opened
\* one at a time under fresh numbers, and each verdict in the store is fully aligned or
\* names a loop issue of its repository (pipeline.go 217-320).
KeepsPromise == Promise!Spec
=============================================================================
