------------------------------ MODULE ReviewGate ------------------------------
(***************************************************************************)
(* The review gate of a repository that `speculate init` has set up: the   *)
(* workflow review-gate.yml (pkg/setup/templates.go) on one pull request,  *)
(* under the ruleset that makes main wait for its check (setup.go).        *)
(*                                                                         *)
(* GitHub starts a run of the workflow for every push to the pull request  *)
(* and for every review of the owner.  Runs work side by side; one action  *)
(* is one `gh` call of a run, and calls fail.                              *)
(***************************************************************************)
EXTENDS Integers, Sequences

CONSTANTS
    Authors,     \* who opens pull requests, of {"owner", "automation", "other"}
    MaxPushes,   \* bound: pushes to the branch
    MaxReviews,  \* bound: reviews the owner submits
    MaxRuns,     \* bound: runs, one for each event
    MaxFaults    \* bound: calls that fail

ASSUME AuthorsType == Authors \subseteq {"owner", "automation", "other"}
ASSUME GateBounds == {MaxPushes, MaxReviews, MaxRuns, MaxFaults} \subseteq Nat

VARIABLES
    branch,   \* the head of the branch and whether it changes protected files, and the past
    pr,       \* the pull request
    reviews,  \* the reviews of the owner, in order
    runs,     \* the runs of the workflow, in the order of their events
    faults    \* failed calls so far

vars == <<branch, pr, reviews, runs, faults>>
-----------------------------------------------------------------------------
(* Types *)

Heads == [rev : Nat, protected : BOOLEAN]

\* older: the heads a push has replaced; a forced push may bring one back.
Branches == [rev : Nat, protected : BOOLEAN, older : SUBSET Heads, pushes : Nat]

\* requested: the owner is asked for a review.
Pulls == [state : {"open", "closed", "merged"}, author : Authors, requested : BOOLEAN]

\* "other" is a comment or a request for changes.
Reviews == {"approved", "other", "dismissed"}

Events  == {"pull_request", "pull_request_review"}
Results == {"success", "failure"}
Calls   == {"diff", "requests", "request", "reviews", "list", "rerun"}

\* rev: the head when the event came. at: the next call, or the result. shown: the run
\* has begun, and its check is on the commit. todo: the runs it is about to rerun.
Runs == [event : Events, rev : Nat, at : Calls \cup Results, shown : BOOLEAN,
         todo : SUBSET Nat]

NewRun(event, rev) ==
    [event |-> event, rev |-> rev, at |-> "diff", shown |-> FALSE, todo |-> {}]

\* Every variable keeps its shape, and only runs for reviews come to rerun others.
TypeOK ==
    /\ branch \in Branches
    /\ pr \in Pulls
    /\ reviews \in Seq(Reviews)
    /\ runs \in Seq(Runs)
    /\ faults \in Nat
    /\ \A i \in 1..Len(runs) :
         /\ runs[i].at \in {"list", "rerun"} => runs[i].event = "pull_request_review"
         /\ runs[i].todo \subseteq 1..Len(runs)

\* A pull request has just been opened.
Init ==
    /\ branch \in [rev : {1}, protected : BOOLEAN, older : {{}}, pushes : {1}]
    /\ pr \in [state : {"open"}, author : Authors, requested : {FALSE}]
    /\ reviews = <<>>
    /\ runs = <<NewRun("pull_request", 1)>>
    /\ faults = 0
-----------------------------------------------------------------------------
(* A run of the gate, call by call *)

Numbers  == 1..Len(runs)
At(i, call) == runs[i].at = call
Done(i)  == runs[i].at \in Results
Open     == pr.state = "open"
Exempt   == pr.author \in {"owner", "automation"}
Approved == \E n \in 1..Len(reviews) : reviews[n] = "approved"
NeedsReview == branch.protected /\ ~Exempt

\* Run i goes on to its next call, or to its result.
Goto(i, at) == runs' = [runs EXCEPT ![i] = [@ EXCEPT !.at = at, !.shown = TRUE]]

\* A call that only reads.
Reads(i, at) == Goto(i, at) /\ UNCHANGED <<branch, pr, reviews, faults>>

\* A call fails, within the bound.
Fault == faults < MaxFaults /\ faults' = faults + 1

\* The diff of the pull request as it is now, whatever the event was about, and then its
\* author, who never changes.
Inspect(i) ==
    /\ At(i, "diff")
    /\ Reads(i, IF NeedsReview THEN "requests" ELSE "success")

\* Mutant of ReadRequests: the owner is asked on pull_request events only.
ReadRequestsOnPull(i) ==
    /\ At(i, "requests")
    /\ Reads(i, IF pr.requested \/ runs[i].event = "pull_request_review"
                THEN "reviews" ELSE "request")

ReadRequests(i) ==
    /\ At(i, "requests")
    /\ Reads(i, IF pr.requested THEN "reviews" ELSE "request")

\* That the owner could not be asked is only noted.
RequestReview(i) ==
    /\ At(i, "request")
    /\ \/ pr' = [pr EXCEPT !.requested = TRUE] /\ UNCHANGED faults
       \/ Fault /\ UNCHANGED pr
    /\ Goto(i, "reviews")
    /\ UNCHANGED <<branch, reviews>>

\* Mutant of ReadReviews: the name of the event is not looked at.
ReadReviewsList(i) ==
    /\ At(i, "reviews")
    /\ Reads(i, IF Approved THEN "list" ELSE "failure")

\* Mutant of ReadReviews: the state of the owner's review is not looked at.
ReadReviewsAny(i) ==
    /\ At(i, "reviews")
    /\ Reads(i, IF reviews = <<>> THEN "failure"
                ELSE IF runs[i].event = "pull_request_review" THEN "list" ELSE "success")

\* An approval counts, on whichever revision it was given.
ReadReviews(i) ==
    /\ At(i, "reviews")
    /\ Reads(i, IF ~Approved THEN "failure"
                ELSE IF runs[i].event = "pull_request_review" THEN "list" ELSE "success")

\* The failed runs for this event on the head that run i is about.
Failed(i, event) ==
    {j \in Numbers : runs[j].event = event /\ runs[j].rev = runs[i].rev /\ At(j, "failure")}

WithTodo(run, todo) ==
    [run EXCEPT !.todo = todo, !.at = IF todo = {} THEN "success" ELSE "rerun"]

\* Run i has its list of runs to rerun.
Listed(i, todo) ==
    /\ runs' = [runs EXCEPT ![i] = WithTodo(@, todo)]
    /\ UNCHANGED <<branch, pr, reviews, faults>>

\* Mutant of ListFailed: the failed runs of review events are listed.
ListFailedReviews(i) == At(i, "list") /\ Listed(i, Failed(i, "pull_request_review"))

ListFailed(i) == At(i, "list") /\ Listed(i, Failed(i, "pull_request"))

\* One after the other; GitHub refuses to rerun a run that is not over, and what becomes
\* of the call is ignored.
Rerun(i) ==
    /\ At(i, "rerun")
    /\ \E j \in runs[i].todo :
         LET next == [runs EXCEPT ![i] = WithTodo(@, @.todo \ {j})] IN
         \/ /\ Done(j)
            /\ runs' = [next EXCEPT ![j] = [@ EXCEPT !.at = "diff"]]
            /\ UNCHANGED faults
         \/ ~Done(j) /\ runs' = next /\ UNCHANGED faults
         \/ runs' = next /\ Fault
    /\ UNCHANGED <<branch, pr, reviews>>

\* `bash -e` ends the run at any other call that fails.
CallFails(i) ==
    /\ runs[i].at \in Calls \ {"request", "rerun"}
    /\ Fault /\ Goto(i, "failure")
    /\ UNCHANGED <<branch, pr, reviews>>
-----------------------------------------------------------------------------
(* GitHub and people *)

\* The check review-gate of a commit: the last run for each event counts, and a run that
\* has not begun is not there yet.
Green(rev) ==
    LET On(event) == {i \in Numbers : runs[i].event = event /\ runs[i].rev = rev
                                        /\ runs[i].shown}
        Passes(event) == \E i \in On(event) : At(i, "success") /\ \A j \in On(event) : j <= i
        Ran == {e \in Events : On(e) # {}}
    IN Ran # {} /\ \A e \in Ran : Passes(e)

\* By auto-merge or by hand, no sooner than the ruleset allows: it wants this check.
\* Whatever else it waits for (the check `test`, code owners) only delays the merge.
Merge ==
    /\ Open /\ Green(branch.rev)
    /\ pr' = [pr EXCEPT !.state = "merged"]
    /\ UNCHANGED <<branch, reviews, runs, faults>>

MoreRuns == Len(runs) < MaxRuns

\* The branch with another head on it.
PushTo(head) ==
    [rev |-> head.rev, protected |-> head.protected, pushes |-> branch.pushes + 1,
     older |-> branch.older \cup {[rev |-> branch.rev, protected |-> branch.protected]}]

\* synchronize: a push to the branch of an open pull request, of a new revision or, by
\* force, of one that was there before and still has its runs.
Push ==
    /\ Open /\ branch.pushes < MaxPushes /\ MoreRuns
    /\ \E head \in [rev : {branch.pushes + 1}, protected : BOOLEAN] \cup branch.older :
         /\ head.rev # branch.rev
         /\ branch' = PushTo(head)
         /\ runs' = Append(runs, NewRun("pull_request", head.rev))
    /\ UNCHANGED <<pr, reviews, faults>>

Close ==
    /\ Open
    /\ pr' = [pr EXCEPT !.state = "closed"]
    /\ UNCHANGED <<branch, reviews, runs, faults>>

\* reopened
Reopen ==
    /\ pr.state = "closed" /\ MoreRuns
    /\ pr' = [pr EXCEPT !.state = "open"]
    /\ runs' = Append(runs, NewRun("pull_request", branch.rev))
    /\ UNCHANGED <<branch, reviews, faults>>

ReviewRun == Append(runs, NewRun("pull_request_review", branch.rev))

\* submitted: the owner reviews, and GitHub takes the request for it off the list.
Review ==
    /\ Open /\ pr.author # "owner" /\ Len(reviews) < MaxReviews /\ MoreRuns
    /\ \E review \in {"approved", "other"} : reviews' = Append(reviews, review)
    /\ pr' = [pr EXCEPT !.requested = FALSE]
    /\ runs' = ReviewRun
    /\ UNCHANGED <<branch, faults>>

\* dismissed
Dismiss ==
    /\ Open /\ MoreRuns
    /\ \E n \in 1..Len(reviews) : /\ reviews[n] = "approved"
                                  /\ reviews' = [reviews EXCEPT ![n] = "dismissed"]
    /\ runs' = ReviewRun
    /\ UNCHANGED <<branch, pr, faults>>
-----------------------------------------------------------------------------
RunStep(i) ==
    \/ Inspect(i) \/ ReadRequests(i) \/ RequestReview(i) \/ ReadReviews(i)
    \/ ListFailed(i) \/ Rerun(i) \/ CallFails(i)

SomeRunSteps == \E i \in Numbers : RunStep(i)

Next ==
    \/ SomeRunSteps
    \/ Merge \/ Push \/ Close \/ Reopen \/ Review \/ Dismiss

\* The calls of runs return.  No person owes anything, and GitHub no merge.
Spec == Init /\ [][Next]_vars /\ WF_vars(SomeRunSteps)
-----------------------------------------------------------------------------
(* Properties *)

\* The head was on the branch before.
Returned == \E head \in branch.older : head.rev = branch.rev

\* The gate's run for a review, or for the push that brought an old head back, has not
\* begun: the check on the head is still what it was before.
CheckBehind ==
    \E i \in Numbers : /\ runs[i].rev = branch.rev /\ ~runs[i].shown
                       /\ runs[i].event = "pull_request_review" \/ Returned

\* A pull request that touches protected files is merged on the owner's standing approval,
\* or so soon after a dismissal or a forced push that the gate has not begun to look again:
\* pushes, runs that are late, reruns and dismissals in any order included (templates.go
\* 60, 95-148).
MergedApproved ==
    [][Open /\ pr'.state = "merged" /\ NeedsReview => Approved \/ CheckBehind]_vars

\* Once the gate is through with a pull request that waits for the owner, the owner is
\* asked, although every review takes the request away (templates.go 122-127).
OwnerAsked ==
    Open /\ NeedsReview /\ ~Approved /\ (\A i \in Numbers : Done(i)) =>
        pr.requested \/ faults > 0

\* The gate's run for the last event, a review, is about to begin, all others are over,
\* the pull request needs an approval and has it, and no call will fail any more.
ApprovalAwaited ==
    LET i == Len(runs) IN
    /\ NeedsReview /\ Approved /\ faults = MaxFaults
    /\ At(i, "diff") /\ runs[i].event = "pull_request_review" /\ runs[i].rev = branch.rev
    /\ \A j \in Numbers \ {i} : Done(j)

\* "Automatically re-runs failed review-gate checks when an approving review is
\* submitted" (README.md:135): the check turns green, unless a push or a dismissal comes
\* in between.
ApprovalReleases ==
    \A rev \in 1..MaxPushes :
        branch.rev = rev /\ ApprovalAwaited ~> Green(rev) \/ branch.rev # rev \/ ~Approved
=============================================================================
