-------------------------- MODULE ReviewGateProofs --------------------------
(* What holds of the review gate for every number of pushes, reviews, reopenings *)
(* and failed calls.                                                             *)
EXTENDS ReviewGate, SequenceTheorems, TLAPS

\* A list of runs as TypeOK wants it.
Proper(s) ==
    /\ s \in Seq(Runs)
    /\ \A i \in 1..Len(s) :
         /\ s[i].at \in {"list", "rerun"} => s[i].event = "pull_request_review"
         /\ s[i].todo \subseteq 1..Len(s)

Rest == branch \in Branches /\ pr \in Pulls /\ reviews \in Seq(Reviews) /\ faults \in Nat

LEMMA TypeParts == /\ TypeOK <=> (Proper(runs) /\ Rest)
                   /\ TypeOK' <=> (Proper(runs)' /\ Rest')
  BY DEF TypeOK, Proper, Rest

\* t has the runs of s, though not at the same calls.
SameEvents(s, t) ==
    /\ Len(t) = Len(s)
    /\ \A j \in 1..Len(s) : t[j].event = s[j].event /\ t[j].rev = s[j].rev

\* r may stand where run i of s stands.
Fits(s, i, r) ==
    /\ r \in Runs /\ i \in 1..Len(s)
    /\ r.event = s[i].event /\ r.rev = s[i].rev /\ r.todo \subseteq 1..Len(s)
    /\ r.at \in {"list", "rerun"} => r.event = "pull_request_review"

\* t is s with r for run i.
Only(s, i, r, t) ==
    /\ Len(t) = Len(s) /\ t[i] = r
    /\ \A j \in 1..Len(s) : j # i => t[j] = s[j]

\* One run goes on.
LEMMA Rewritten ==
    ASSUME NEW s, Proper(s), NEW i, NEW r, Fits(s, i, r), NEW t, t = [s EXCEPT ![i] = r]
    PROVE  Proper(t) /\ SameEvents(s, t) /\ Only(s, i, r, t)
  <1>1. s \in Seq(Runs) /\ Len(s) \in Nat /\ i \in 1..Len(s) /\ r \in Runs
    BY DEF Proper, Fits
  <1>2. [s EXCEPT ![i] = r] \in Seq(Runs) /\ Len([s EXCEPT ![i] = r]) = Len(s)
    BY <1>1, ExceptSeq
  <1>3. t \in Seq(Runs) /\ Len(t) = Len(s)
    BY <1>2, Zenon
  <1>4. t[i] = r /\ \A j \in 1..Len(s) : j # i => t[j] = s[j]
    BY <1>1
  <1>5. SameEvents(s, t) /\ Only(s, i, r, t)
    BY <1>3, <1>4 DEF SameEvents, Fits, Only
  <1>6. ASSUME NEW j \in 1..Len(t)
        PROVE  /\ t[j].at \in {"list", "rerun"} => t[j].event = "pull_request_review"
               /\ t[j].todo \subseteq 1..Len(t)
    <2>1. CASE j = i
      BY <1>3, <1>4, <2>1 DEF Fits
    <2>2. CASE j # i
      BY <1>3, <1>4, <1>6, <2>2 DEF Proper
    <2> QED
      BY <2>1, <2>2
  <1> QED
    BY <1>3, <1>5, <1>6 DEF Proper

\* A run comes on top.
LEMMA Appended ==
    ASSUME NEW s, Proper(s), NEW event \in Events, NEW rev \in Nat, NEW t,
           t = Append(s, NewRun(event, rev))
    PROVE  /\ Proper(t) /\ Len(t) = Len(s) + 1 /\ Len(s) \in Nat
           /\ t[Len(s) + 1] = NewRun(event, rev)
           /\ \A j \in 1..Len(s) : t[j] = s[j]
  <1>1. s \in Seq(Runs) /\ Len(s) \in Nat
    BY DEF Proper
  <1>2. NewRun(event, rev) \in Runs
    BY DEF NewRun, Runs, Calls
  <1>3. t \in Seq(Runs) /\ Len(t) = Len(s) + 1
    BY <1>1, <1>2, AppendProperties
  <1>4. t[Len(s) + 1] = NewRun(event, rev) /\ \A j \in 1..Len(s) : t[j] = s[j]
    BY <1>1, <1>2, AppendProperties
  <1> QED
    BY <1>1, <1>3, <1>4 DEF Proper, NewRun

LEMMA Moved ==
    ASSUME NEW run \in Runs, NEW at \in Calls \cup Results, NEW r,
           r = [run EXCEPT !.at = at, !.shown = TRUE]
    PROVE  /\ r \in Runs /\ r.at = at
           /\ r.event = run.event /\ r.rev = run.rev /\ r.todo = run.todo
  BY DEF Runs, Calls, Results

LEMMA Restarted ==
    ASSUME NEW run \in Runs, NEW r, r = [run EXCEPT !.at = "diff"]
    PROVE  /\ r \in Runs /\ r.at = "diff"
           /\ r.event = run.event /\ r.rev = run.rev /\ r.todo = run.todo
  BY DEF Runs, Calls

LEMMA Listing ==
    ASSUME NEW run \in Runs, NEW todo \in SUBSET Nat, NEW r, r = WithTodo(run, todo)
    PROVE  /\ r \in Runs /\ r.at \in {"success", "rerun"}
           /\ r.event = run.event /\ r.rev = run.rev /\ r.todo = todo
  BY DEF Runs, Calls, Results, WithTodo
-----------------------------------------------------------------------------
(* What a call of a run does *)

\* The runs whose verdict is, or will be, that there is nothing to wait for.
Passed(run) == run.at \in {"success", "list", "rerun"}

\* A call leaves the runs in their places, and brings one to pass only if the pull request
\* needs no approval or has it.
Calling ==
    /\ Proper(runs') /\ SameEvents(runs, runs')
    /\ \A j \in Numbers : Passed(runs'[j]) => Passed(runs[j]) \/ ~NeedsReview \/ Approved

LEMMA Known ==
    ASSUME TypeOK, NEW i \in Numbers
    PROVE  /\ Proper(runs) /\ i \in 1..Len(runs) /\ Len(runs) \in Nat
           /\ \E run \in Runs : run = runs[i]
           /\ runs[i].todo \in SUBSET Nat /\ runs[i].todo \subseteq 1..Len(runs)
           /\ runs[i].at \in {"list", "rerun"} => runs[i].event = "pull_request_review"
  <1>1. Proper(runs) /\ i \in 1..Len(runs) /\ runs \in Seq(Runs)
    BY TypeParts DEF Proper, Numbers
  <1>2. runs[i] \in Runs
    BY <1>1, ElementOfSeq
  <1> QED
    BY <1>1, <1>2 DEF Proper, Runs

LEMMA GotoCalls ==
    ASSUME TypeOK, NEW i \in Numbers, NEW at \in Calls \cup Results, Goto(i, at),
           at \in {"list", "rerun"} => runs[i].event = "pull_request_review",
           at \in {"success", "list", "rerun"} => ~NeedsReview \/ Approved
    PROVE  Calling
  <1>1. PICK run \in Runs : run = runs[i]
    BY Known
  <1>2. PICK r : r = [run EXCEPT !.at = at, !.shown = TRUE]
    OBVIOUS
  <1>3. /\ r \in Runs /\ r.at = at
        /\ r.event = run.event /\ r.rev = run.rev /\ r.todo = run.todo
    BY <1>2, Moved
  <1>4. Proper(runs) /\ Fits(runs, i, r)
    BY <1>1, <1>3, Known DEF Fits
  <1>5. runs' = [runs EXCEPT ![i] = r]
    BY <1>1, <1>2 DEF Goto
  <1>6. Proper(runs') /\ SameEvents(runs, runs') /\ Only(runs, i, r, runs')
    BY <1>4, <1>5, Rewritten
  <1> QED
    BY <1>3, <1>6 DEF Calling, Only, Passed, Numbers

LEMMA ListCalls ==
    ASSUME TypeOK, NEW i \in Numbers, ListFailed(i) PROVE Calling
  <1>1. PICK run \in Runs : run = runs[i]
    BY Known
  <1>2. PICK todo : todo = Failed(i, "pull_request")
    OBVIOUS
  <1>3. todo \in SUBSET Nat /\ todo \subseteq 1..Len(runs)
    BY <1>2, Known DEF Failed, Numbers
  <1>4. PICK r : r = WithTodo(run, todo)
    OBVIOUS
  <1>5. /\ r \in Runs /\ r.at \in {"success", "rerun"}
        /\ r.event = run.event /\ r.rev = run.rev /\ r.todo = todo
    BY <1>3, <1>4, Listing
  <1>6. run.at = "list" /\ run.event = "pull_request_review"
    BY <1>1, Known DEF ListFailed, At
  <1>7. Proper(runs) /\ Fits(runs, i, r)
    BY <1>1, <1>3, <1>5, <1>6, Known DEF Fits
  <1>8. runs' = [runs EXCEPT ![i] = r]
    BY <1>1, <1>2, <1>4 DEF ListFailed, Listed
  <1>9. Proper(runs') /\ SameEvents(runs, runs') /\ Only(runs, i, r, runs')
    BY <1>7, <1>8, Rewritten
  <1> QED
    BY <1>1, <1>6, <1>9 DEF Calling, Only, Passed, Numbers

LEMMA RerunCalls ==
    ASSUME TypeOK, NEW i \in Numbers, Rerun(i) PROVE Calling
  <1>1. PICK run \in Runs : run = runs[i]
    BY Known
  <1>2. run.at = "rerun" /\ run.event = "pull_request_review"
    BY <1>1, Known DEF Rerun, At
  <1>3. PICK j \in run.todo : \E s :
          /\ s = [runs EXCEPT ![i] = WithTodo(run, run.todo \ {j})]
          /\ runs' = s \/ runs' = [s EXCEPT ![j] = [@ EXCEPT !.at = "diff"]]
    BY <1>1 DEF Rerun
  <1>13. PICK next : /\ next = [runs EXCEPT ![i] = WithTodo(run, run.todo \ {j})]
                     /\ \/ runs' = next
                        \/ runs' = [next EXCEPT ![j] = [@ EXCEPT !.at = "diff"]]
    BY <1>3
  <1>4. PICK todo : todo = run.todo \ {j}
    OBVIOUS
  <1>5. todo \in SUBSET Nat /\ todo \subseteq 1..Len(runs) /\ j \in 1..Len(runs)
    BY <1>1, <1>3, <1>4, Known
  <1>6. PICK r : r = WithTodo(run, todo)
    OBVIOUS
  <1>7. /\ r \in Runs /\ r.at \in {"success", "rerun"}
        /\ r.event = run.event /\ r.rev = run.rev /\ r.todo = todo
    BY <1>5, <1>6, Listing
  <1>8. Proper(runs) /\ Fits(runs, i, r)
    BY <1>1, <1>2, <1>5, <1>7, Known DEF Fits
  <1>9. Proper(next) /\ SameEvents(runs, next) /\ Only(runs, i, r, next)
    BY <1>4, <1>6, <1>8, <1>13, Rewritten
  <1>10. \A k \in Numbers : Passed(next[k]) => Passed(runs[k])
    BY <1>1, <1>2, <1>9 DEF Only, Passed, Numbers
  <1>11. CASE runs' = next
    BY <1>9, <1>10, <1>11 DEF Calling
  <1>12. CASE runs' = [next EXCEPT ![j] = [@ EXCEPT !.at = "diff"]]
    <2>1. j \in 1..Len(next) /\ next \in Seq(Runs)
      BY <1>5, <1>9 DEF Proper, SameEvents
    <2>2. PICK old \in Runs : old = next[j]
      BY <2>1, ElementOfSeq
    <2>3. PICK new : new = [old EXCEPT !.at = "diff"]
      OBVIOUS
    <2>4. /\ new \in Runs /\ new.at = "diff"
          /\ new.event = old.event /\ new.rev = old.rev /\ new.todo = old.todo
      BY <2>3, Restarted
    <2>5. Fits(next, j, new)
      BY <1>9, <2>1, <2>2, <2>4 DEF Fits, Proper
    <2>6. runs' = [next EXCEPT ![j] = new]
      BY <1>12, <2>2, <2>3
    <2>7. Proper(runs') /\ SameEvents(next, runs') /\ Only(next, j, new, runs')
      BY <1>9, <2>5, <2>6, Rewritten
    <2>8. SameEvents(runs, runs')
      BY <1>9, <2>7 DEF SameEvents
    <2>9. \A k \in Numbers : Passed(runs'[k]) => Passed(next[k])
      BY <1>9, <2>4, <2>7 DEF Only, Passed, Numbers, SameEvents
    <2> QED
      BY <1>10, <2>7, <2>8, <2>9 DEF Calling
  <1> QED
    BY <1>11, <1>12, <1>13

LEMMA StepCalls ==
    ASSUME TypeOK, NEW i \in Numbers, RunStep(i)
    PROVE  Calling /\ Rest' /\ UNCHANGED <<branch, reviews>> /\ pr'.author = pr.author
                   /\ pr'.state = pr.state
  <1>1. /\ Calls = {"diff", "requests", "request", "reviews", "list", "rerun"}
        /\ Results = {"success", "failure"} /\ Rest
    BY TypeParts DEF Calls, Results
  <1>2. CASE Inspect(i)
    BY <1>1, <1>2, GotoCalls DEF Inspect, Reads, Rest
  <1>3. CASE ReadRequests(i)
    BY <1>1, <1>3, GotoCalls DEF ReadRequests, Reads, Rest
  <1>4. CASE RequestReview(i)
    <2>1. pr' \in {pr, [pr EXCEPT !.requested = TRUE]} /\ faults' \in {faults, faults + 1}
      BY <1>4 DEF RequestReview, Fault
    <2>3. pr' \in Pulls /\ pr'.author = pr.author /\ pr'.state = pr.state
      BY <1>1, <2>1 DEF Rest, Pulls
    <2>2. Calling
      BY <1>1, <1>4, GotoCalls DEF RequestReview
    <2> QED
      BY <1>1, <1>4, <2>1, <2>2, <2>3 DEF RequestReview, Rest
  <1>5. CASE ReadReviews(i)
    <2>1. runs[i].event # "pull_request_review" \/ runs[i].event = "pull_request_review"
      OBVIOUS
    <2> QED
      BY <1>1, <1>5, GotoCalls DEF ReadReviews, Reads, Rest
  <1>6. CASE ListFailed(i)
    BY <1>1, <1>6, ListCalls DEF ListFailed, Listed, Rest
  <1>7. CASE Rerun(i)
    <2>1. faults' \in {faults, faults + 1} /\ UNCHANGED <<branch, pr, reviews>>
      BY <1>7 DEF Rerun, Fault
    <2> QED
      BY <1>1, <1>7, <2>1, RerunCalls DEF Rest
  <1>8. CASE CallFails(i)
    BY <1>1, <1>8, GotoCalls DEF CallFails, Fault, Rest
  <1> QED
    BY <1>2, <1>3, <1>4, <1>5, <1>6, <1>7, <1>8 DEF RunStep
-----------------------------------------------------------------------------
(* Type correctness *)

LEMMA InitTyped == Init => TypeOK
  <1> SUFFICES ASSUME Init PROVE TypeOK
    OBVIOUS
  <1>1. NewRun("pull_request", 1) \in Runs /\ NewRun("pull_request", 1).at = "diff"
          /\ NewRun("pull_request", 1).todo = {}
    BY DEF NewRun, Runs, Events, Calls
  <1>2. runs \in Seq(Runs) /\ Len(runs) = 1 /\ runs[1] = NewRun("pull_request", 1)
    BY <1>1 DEF Init
  <1>3. Proper(runs)
    BY <1>1, <1>2 DEF Proper
  <1>4. branch \in Branches
    <2>1. PICK protected \in BOOLEAN : branch = [rev |-> 1, protected |-> protected,
                                               older |-> {}, pushes |-> 1]
      BY DEF Init
    <2> QED
      BY <2>1 DEF Branches
  <1>5. pr \in Pulls
    <2>1. PICK author \in Authors : pr = [state |-> "open", author |-> author,
                                         requested |-> FALSE]
      BY DEF Init
    <2> QED
      BY <2>1 DEF Pulls
  <1>6. reviews \in Seq(Reviews) /\ faults \in Nat
    BY DEF Init
  <1> QED
    BY <1>3, <1>4, <1>5, <1>6, TypeParts DEF Rest

\* An event of GitHub: a run comes on top.
Event ==
    \E event \in Events, rev \in Nat :
        rev = branch'.rev /\ runs' = Append(runs, NewRun(event, rev))

LEMMA EventTyped == ASSUME TypeOK, Event, Rest' PROVE TypeOK'
  BY TypeParts, Appended DEF Event

\* A push brings a head that is new, or one that was there.
LEMMA PushIs ==
    ASSUME TypeOK, Push
    PROVE  \E head \in Heads :
             /\ head \in branch.older \/ head.rev = branch.pushes + 1
             /\ branch' = PushTo(head) /\ branch' \in Branches
             /\ runs' = Append(runs, NewRun("pull_request", branch'.rev))
  <1>1. branch \in Branches
    BY DEF TypeOK
  <1>2. PICK head \in [rev : {branch.pushes + 1}, protected : BOOLEAN] \cup branch.older :
          branch' = PushTo(head) /\ runs' = Append(runs, NewRun("pull_request", head.rev))
    BY DEF Push
  <1>3. head \in Heads /\ (head \in branch.older \/ head.rev = branch.pushes + 1)
    BY <1>1 DEF Branches, Heads
  <1>4. [rev |-> branch.rev, protected |-> branch.protected] \in Heads
    BY <1>1 DEF Branches, Heads
  <1>5. branch' \in Branches /\ branch'.rev = head.rev
    BY <1>1, <1>2, <1>3, <1>4 DEF PushTo, Branches, Heads
  <1> QED
    BY <1>2, <1>3, <1>5

LEMMA PushEvent == ASSUME TypeOK, Push PROVE Event /\ Rest'
  <1>1. /\ branch' \in Branches
        /\ runs' = Append(runs, NewRun("pull_request", branch'.rev))
    BY PushIs
  <1>2. UNCHANGED <<pr, reviews, faults>>
    BY DEF Push
  <1> QED
    BY <1>1, <1>2, TypeParts DEF Event, Events, Rest, Branches

LEMMA ReviewIs ==
    ASSUME TypeOK, Review \/ Dismiss
    PROVE  /\ Event /\ Rest' /\ UNCHANGED branch
           /\ pr'.author = pr.author /\ pr'.state = pr.state
           /\ runs' = Append(runs, NewRun("pull_request_review", branch.rev))
           /\ Review => (Approved => Approved')
  <1>1. branch.rev \in Nat /\ Rest
    BY TypeParts DEF Rest, Branches
  <1>2. pr' \in Pulls /\ pr'.author = pr.author /\ pr'.state = pr.state
    BY <1>1 DEF Review, Dismiss, Rest, Pulls
  <1>3. CASE Review
    <2>1. PICK review \in Reviews : reviews' = Append(reviews, review)
      BY <1>3 DEF Review, Reviews
    <2>2. /\ reviews' \in Seq(Reviews) /\ Len(reviews') = Len(reviews) + 1
          /\ \A n \in 1..Len(reviews) : reviews'[n] = reviews[n]
      BY <1>1, <2>1, AppendProperties DEF Rest
    <2>3. Len(reviews) \in Nat
      BY <1>1 DEF Rest
    <2>4. Approved => Approved'
      BY <2>2, <2>3 DEF Approved
    <2> QED
      BY <1>1, <1>2, <1>3, <2>2, <2>4 DEF Review, ReviewRun, Event, Events, Rest
  <1>4. CASE Dismiss
    <2>1. PICK n \in 1..Len(reviews) : reviews' = [reviews EXCEPT ![n] = "dismissed"]
      BY <1>4 DEF Dismiss
    <2>2. reviews' \in Seq(Reviews)
      BY <1>1, <2>1, ExceptSeq DEF Rest, Reviews
    <2>3. ~Review
      <3>1. Len(reviews') = Len(reviews)
        BY <1>1, <2>1
      <3>2. ASSUME Review PROVE Len(reviews') = Len(reviews) + 1
        <4>1. PICK review \in Reviews : reviews' = Append(reviews, review)
          BY <3>2 DEF Review, Reviews
        <4> QED
          BY <1>1, <4>1, AppendProperties DEF Rest
      <3>3. Len(reviews) \in Nat
        BY <1>1 DEF Rest
      <3> QED
        BY <3>1, <3>2, <3>3
    <2> QED
      BY <1>1, <1>2, <1>4, <2>2, <2>3 DEF Dismiss, ReviewRun, Event, Events, Rest
  <1> QED
    BY <1>3, <1>4

LEMMA StateIs ==
    ASSUME TypeOK, Merge \/ Close
    PROVE  Rest' /\ UNCHANGED <<branch, reviews, runs>> /\ pr'.author = pr.author
  BY TypeParts DEF Merge, Close, Rest, Pulls

LEMMA ReopenIs ==
    ASSUME TypeOK, Reopen
    PROVE  /\ Event /\ Rest' /\ UNCHANGED <<branch, reviews>> /\ pr'.author = pr.author
           /\ runs' = Append(runs, NewRun("pull_request", branch.rev))
  <1>1. branch.rev \in Nat /\ Rest
    BY TypeParts DEF Rest, Branches
  <1>2. pr' \in Pulls /\ pr'.author = pr.author
    BY <1>1 DEF Reopen, Rest, Pulls
  <1>3. Rest' /\ UNCHANGED <<branch, reviews>>
    BY <1>1, <1>2 DEF Reopen, Rest
  <1>4. runs' = Append(runs, NewRun("pull_request", branch.rev))
    BY DEF Reopen
  <1> QED
    BY <1>1, <1>2, <1>3, <1>4 DEF Event, Events

LEMMA NextTyped == TypeOK /\ [Next]_vars => TypeOK'
  <1> SUFFICES ASSUME TypeOK, [Next]_vars PROVE TypeOK'
    OBVIOUS
  <1>1. CASE UNCHANGED vars
    BY <1>1 DEF vars, TypeOK
  <1>2. ASSUME NEW i \in Numbers, RunStep(i) PROVE TypeOK'
    BY <1>2, StepCalls, TypeParts DEF Calling
  <1>3. CASE Merge \/ Close
    BY <1>3, StateIs, TypeParts
  <1>4. CASE Push
    BY <1>4, PushEvent, EventTyped
  <1>5. CASE Reopen
    BY <1>5, ReopenIs, EventTyped
  <1>6. CASE Review \/ Dismiss
    BY <1>6, ReviewIs, EventTyped
  <1> QED
    BY <1>1, <1>2, <1>3, <1>4, <1>5, <1>6 DEF Next, SomeRunSteps

\* The state keeps its shape, and only runs for reviews rerun others.
THEOREM GateTypeCorrect == Spec => []TypeOK
  BY InitTyped, NextTyped, PTL DEF Spec
-----------------------------------------------------------------------------
(* Merges are approved *)

\* No run, and no head there has been, is of a revision that is yet to come.
NoneAhead ==
    /\ branch.rev <= branch.pushes
    /\ \A head \in branch.older : head.rev <= branch.pushes
    /\ \A i \in Numbers : runs[i].rev <= branch.pushes

OnHead(i) == runs[i].rev = branch.rev

\* Run k is for a review or for the push that brought the head back, and no run on the
\* head has passed since.
Answers(k) ==
    /\ OnHead(k) /\ (runs[k].event = "pull_request_review" \/ Returned)
    /\ \A i \in Numbers : i >= k /\ OnHead(i) => ~Passed(runs[i])

\* On the head of a pull request that has no approval (any more) no run has passed, or
\* none since a dismissal, or since the head came back.
Answered ==
    NeedsReview /\ ~Approved =>
        \/ \A i \in Numbers : OnHead(i) => ~Passed(runs[i])
        \/ \E k \in Numbers : Answers(k)

GateInv == TypeOK /\ NoneAhead /\ Answered

LEMMA InitGate == Init => GateInv
  <1> SUFFICES ASSUME Init PROVE GateInv
    OBVIOUS
  <1>1. /\ Len(runs) = 1 /\ runs[1] = NewRun("pull_request", 1)
        /\ branch.rev = 1 /\ branch.pushes = 1 /\ branch.older = {}
    BY DEF Init
  <1>2. \A i \in Numbers : i = 1
    BY <1>1 DEF Numbers
  <1> QED
    BY <1>1, <1>2, InitTyped DEF GateInv, NoneAhead, Answered, NewRun, Passed

LEMMA CallGate ==
    ASSUME GateInv, NEW i \in Numbers, RunStep(i) PROVE NoneAhead' /\ Answered'
  <1>1. /\ Calling /\ UNCHANGED <<branch, reviews>> /\ pr'.author = pr.author
    BY StepCalls DEF GateInv
  <1>2. (NeedsReview' <=> NeedsReview) /\ (Approved' <=> Approved)
    BY <1>1 DEF NeedsReview, Exempt, Approved
  <1>3. /\ Numbers' = Numbers
        /\ \A j \in Numbers : runs'[j].event = runs[j].event /\ runs'[j].rev = runs[j].rev
    BY <1>1 DEF Calling, SameEvents, Numbers
  <1>4. NoneAhead'
    BY <1>1, <1>3 DEF NoneAhead, GateInv
  <1>5. ASSUME NeedsReview, ~Approved
        PROVE  \A k \in Numbers : /\ OnHead(k)' <=> OnHead(k)
                                  /\ Passed(runs'[k]) => Passed(runs[k])
                                  /\ Answers(k) => Answers(k)'
    <2>1. \A k \in Numbers : Passed(runs'[k]) => Passed(runs[k])
      BY <1>1, <1>5 DEF Calling
    <2>2. \A k \in Numbers : OnHead(k)' <=> OnHead(k)
      BY <1>1, <1>3 DEF OnHead
    <2>3. Returned' <=> Returned
      BY <1>1 DEF Returned
    <2> QED
      BY <1>3, <2>1, <2>2, <2>3 DEF Answers
  <1>6. Answered'
    BY <1>2, <1>3, <1>5 DEF Answered, GateInv
  <1> QED
    BY <1>4, <1>6

\* What an event leaves of the runs before it.
LEMMA EventRuns ==
    ASSUME TypeOK, NEW event \in Events, NEW rev \in Nat,
           runs' = Append(runs, NewRun(event, rev))
    PROVE  /\ Len(runs) \in Nat /\ Numbers' = 1..(Len(runs) + 1)
           /\ \A j \in Numbers : runs'[j] = runs[j] /\ j \in Numbers' /\ j < Len(runs) + 1
           /\ \A j \in Numbers' : j \in Numbers \/ j = Len(runs) + 1
           /\ runs'[Len(runs) + 1].event = event /\ runs'[Len(runs) + 1].rev = rev
           /\ ~Passed(runs'[Len(runs) + 1])
  <1>1. PICK t : t = Append(runs, NewRun(event, rev))
    OBVIOUS
  <1>2. /\ Len(t) = Len(runs) + 1 /\ Len(runs) \in Nat
        /\ t[Len(runs) + 1] = NewRun(event, rev)
        /\ \A j \in 1..Len(runs) : t[j] = runs[j]
    BY <1>1, Appended, TypeParts
  <1>3. runs' = t
    BY <1>1
  <1> QED
    BY <1>2, <1>3 DEF Numbers, NewRun, Passed

\* An event on the same head, after which the pull request has an approval if it had one
\* before, or which is a review's.
LEMMA SameHead ==
    ASSUME GateInv, NEW event \in Events, branch' = branch, pr'.author = pr.author,
           runs' = Append(runs, NewRun(event, branch.rev)),
           event = "pull_request_review" \/ (Approved => Approved')
    PROVE  NoneAhead' /\ Answered'
  <1>1. branch.rev \in Nat
    BY TypeParts DEF GateInv, Rest, Branches
  <1>2. /\ Len(runs) \in Nat /\ Numbers' = 1..(Len(runs) + 1)
        /\ \A j \in Numbers : runs'[j] = runs[j] /\ j \in Numbers' /\ j < Len(runs) + 1
        /\ \A j \in Numbers' : j \in Numbers \/ j = Len(runs) + 1
        /\ runs'[Len(runs) + 1].event = event /\ runs'[Len(runs) + 1].rev = branch.rev
        /\ ~Passed(runs'[Len(runs) + 1])
    BY <1>1, EventRuns DEF GateInv
  <1>3. NoneAhead'
    BY <1>1, <1>2 DEF NoneAhead, GateInv
  <1>4. NeedsReview' <=> NeedsReview
    BY DEF NeedsReview, Exempt
  <1>5. CASE event = "pull_request_review"
    <2>1. PICK k : k = Len(runs) + 1
      OBVIOUS
    <2>2. k \in Numbers' /\ Answers(k)'
      BY <1>2, <1>5, <2>1 DEF Answers, OnHead, Numbers
    <2> QED
      BY <1>3, <2>2 DEF Answered
  <1>6. CASE NeedsReview /\ ~Approved
    <2>1. /\ \A j \in Numbers : OnHead(j)' <=> OnHead(j)
          /\ Returned' <=> Returned
      BY <1>2 DEF OnHead, Returned
    <2>2. CASE \A i \in Numbers : OnHead(i) => ~Passed(runs[i])
      <3>1. \A i \in Numbers' : OnHead(i)' => ~Passed(runs'[i])
        BY <1>2, <2>1, <2>2
      <3> QED
        BY <1>3, <3>1 DEF Answered
    <2>3. ASSUME NEW k \in Numbers, Answers(k) PROVE k \in Numbers' /\ Answers(k)'
      BY <1>2, <2>1, <2>3 DEF Answers
    <2> QED
      BY <1>3, <1>6, <2>2, <2>3 DEF GateInv, Answered
  <1> QED
    BY <1>3, <1>4, <1>5, <1>6 DEF Answered

LEMMA PushGate == ASSUME GateInv, Push PROVE NoneAhead' /\ Answered'
  <1>1. PICK head \in Heads :
          /\ head \in branch.older \/ head.rev = branch.pushes + 1
          /\ branch' = PushTo(head)
          /\ runs' = Append(runs, NewRun("pull_request", branch'.rev))
    BY PushIs DEF GateInv
  <1>2. /\ branch'.rev = head.rev /\ branch'.pushes = branch.pushes + 1
        /\ branch'.older = branch.older
                            \cup {[rev |-> branch.rev, protected |-> branch.protected]}
    BY <1>1 DEF PushTo
  <1>3. branch.pushes \in Nat /\ branch.rev \in Nat /\ head.rev \in Nat
        /\ \A h \in branch.older : h.rev \in Nat
    BY TypeParts DEF GateInv, Rest, Branches, Heads
  <1>4. /\ Len(runs) \in Nat /\ Numbers' = 1..(Len(runs) + 1)
        /\ \A j \in Numbers : runs'[j] = runs[j] /\ j \in Numbers' /\ j < Len(runs) + 1
        /\ \A j \in Numbers' : j \in Numbers \/ j = Len(runs) + 1
        /\ runs'[Len(runs) + 1].rev = head.rev
        /\ ~Passed(runs'[Len(runs) + 1])
    BY <1>1, <1>2, <1>3, EventRuns DEF GateInv, Events
  <1>5. \A j \in Numbers : runs[j].rev \in Nat
    <2>1. runs \in Seq(Runs)
      BY DEF GateInv, TypeOK
    <2>2. \A j \in Numbers : runs[j] \in Runs
      BY <2>1, ElementOfSeq DEF Numbers
    <2> QED
      BY <2>2 DEF Runs
  <1>6. NoneAhead'
    <2>1. head.rev <= branch.pushes + 1
      BY <1>1, <1>3 DEF GateInv, NoneAhead
    <2>2. \A h \in branch'.older : h.rev <= branch'.pushes
      BY <1>2, <1>3 DEF GateInv, NoneAhead
    <2>3. \A j \in Numbers' : runs'[j].rev <= branch'.pushes
      BY <1>2, <1>3, <1>4, <1>5, <2>1 DEF GateInv, NoneAhead
    <2> QED
      BY <1>2, <2>1, <2>2, <2>3 DEF NoneAhead
  <1>7. CASE head.rev = branch.pushes + 1
    <2>1. \A j \in Numbers' : OnHead(j)' => ~Passed(runs'[j])
      BY <1>2, <1>3, <1>4, <1>5, <1>7 DEF GateInv, NoneAhead, OnHead
    <2> QED
      BY <1>6, <2>1 DEF Answered
  <1>8. CASE head \in branch.older
    <2>1. PICK k : k = Len(runs) + 1
      OBVIOUS
    <2>2. Returned'
      BY <1>2, <1>8 DEF Returned
    <2>3. k \in Numbers' /\ Answers(k)'
      BY <1>2, <1>4, <2>1, <2>2 DEF Answers, OnHead, Numbers
    <2> QED
      BY <1>6, <2>3 DEF Answered
  <1> QED
    BY <1>1, <1>7, <1>8

LEMMA NextGate == GateInv /\ [Next]_vars => GateInv'
  <1> SUFFICES ASSUME GateInv, [Next]_vars PROVE NoneAhead' /\ Answered'
    BY NextTyped DEF GateInv
  <1>1. CASE UNCHANGED <<branch, reviews, runs>> /\ pr'.author = pr.author
    BY <1>1
    DEF GateInv, NoneAhead, Answered, Answers, OnHead, Returned, Numbers, NeedsReview, Exempt,
        Approved
  <1>2. CASE UNCHANGED vars
    BY <1>1, <1>2 DEF vars
  <1>3. CASE SomeRunSteps
    BY <1>3, CallGate DEF SomeRunSteps
  <1>4. CASE Merge \/ Close
    BY <1>1, <1>4, StateIs DEF GateInv
  <1>5. CASE Push
    BY <1>5, PushGate
  <1>6. CASE Reopen
    <2>1. Approved => Approved'
      BY <1>6, ReopenIs DEF GateInv, Approved
    <2> QED
      BY <1>6, <2>1, ReopenIs, SameHead DEF GateInv, Events
  <1>7. CASE Review \/ Dismiss
    BY <1>7, ReviewIs, SameHead DEF GateInv, Events
  <1> QED
    BY <1>2, <1>3, <1>4, <1>5, <1>6, <1>7 DEF Next

\* The last run that counts for an event has passed.
LEMMA GreenPassed ==
    ASSUME TypeOK, NEW rev, Green(rev), NEW event \in Events, NEW i \in Numbers,
           runs[i].event = event, runs[i].rev = rev, runs[i].shown
    PROVE  \E j \in Numbers : /\ runs[j].rev = rev /\ Passed(runs[j])
                              /\ \A k \in Numbers : runs[k].event = event /\ runs[k].rev = rev
                                                     /\ runs[k].shown => k <= j
  BY DEF Green, Passed, At

\* A pull request that touches protected files is merged on the owner's approval, or so
\* soon after a dismissal or a forced push that the gate's run for it has not begun, whatever
\* the number of pushes, reviews, reopenings and failed calls (templates.go 60, 95-148).
THEOREM MergesAreApproved == Spec => MergedApproved
  <1>1. ASSUME GateInv, Merge, NeedsReview, ~Approved PROVE CheckBehind
    <2>1. PICK event \in Events, i \in Numbers :
            runs[i].event = event /\ runs[i].rev = branch.rev /\ runs[i].shown
      BY <1>1 DEF Merge, Green
    <2>2. PICK j \in Numbers : runs[j].rev = branch.rev /\ Passed(runs[j])
      BY <1>1, <2>1, GreenPassed DEF GateInv, Merge
    <2>3. PICK k \in Numbers : Answers(k)
      BY <1>1, <2>2 DEF GateInv, Answered, OnHead
    <2>4. CASE ~runs[k].shown
      BY <2>3, <2>4 DEF Answers, OnHead, CheckBehind
    <2>5. CASE runs[k].shown
      <3>1. runs[k].event \in Events
        <4>1. runs \in Seq(Runs)
          BY <1>1 DEF GateInv, TypeOK
        <4>2. runs[k] \in Runs
          BY <4>1, ElementOfSeq DEF Numbers
        <4> QED
          BY <4>2 DEF Runs
      <3>2. PICK l \in Numbers :
              /\ runs[l].rev = branch.rev /\ Passed(runs[l])
              /\ \A n \in Numbers : runs[n].event = runs[k].event
                                     /\ runs[n].rev = branch.rev /\ runs[n].shown => n <= l
        BY <1>1, <2>3, <2>5, <3>1, GreenPassed DEF GateInv, Merge, Answers, OnHead
      <3>3. k <= l /\ l >= k
        BY <2>3, <2>5, <3>2 DEF Answers, OnHead, Numbers
      <3> QED
        BY <2>3, <3>2, <3>3 DEF Answers, OnHead
    <2> QED
      BY <2>4, <2>5
  <1>2. ASSUME TypeOK, [Next]_vars, Open, pr'.state = "merged" PROVE Merge
    <2>1. pr'.state # pr.state
      BY <1>2 DEF Open
    <2>2. ~SomeRunSteps
      BY <1>2, <2>1, StepCalls DEF SomeRunSteps
    <2>3. ~(Review \/ Dismiss)
      BY <1>2, <2>1, ReviewIs
    <2>4. pr \in Pulls /\ (Close => pr'.state = "closed")
      BY <1>2 DEF Close, TypeOK, Pulls
    <2> QED
      BY <1>2, <2>1, <2>2, <2>3, <2>4 DEF Next, vars, Push, Reopen, Open
  <1>3. GateInv /\ [Next]_vars =>
          [Open /\ pr'.state = "merged" /\ NeedsReview => Approved \/ CheckBehind]_vars
    BY <1>1, <1>2 DEF GateInv
  <1>4. Spec => []GateInv
    BY InitGate, NextGate, PTL DEF Spec
  <1> QED
    BY <1>3, <1>4, PTL DEF Spec, MergedApproved
-----------------------------------------------------------------------------
(* The owner is asked *)

\* Run i is on its way to ask the owner.
Asks(i) == runs[i].at \in {"diff", "requests", "request"}

\* While no call has failed, a pull request that waits for the owner has asked, or has a
\* run that is about to.
Asking ==
    faults = 0 /\ NeedsReview /\ ~Approved => pr.requested \/ \E i \in Numbers : Asks(i)

AskInv == TypeOK /\ Asking

LEMMA GotoMoves ==
    ASSUME TypeOK, NEW i \in Numbers, NEW at, Goto(i, at)
    PROVE  /\ Numbers' = Numbers /\ runs'[i].at = at
           /\ \A j \in Numbers : j # i => runs'[j] = runs[j]
  <1>1. PICK run \in Runs : run = runs[i]
    BY Known
  <1>2. PICK r : r = [run EXCEPT !.at = at, !.shown = TRUE]
    OBVIOUS
  <1>3. r.at = at
    BY <1>2 DEF Runs
  <1>4. i \in 1..Len(runs) /\ Len(runs) \in Nat /\ runs \in Seq(Runs)
    BY Known DEF Proper
  <1>5. runs' = [runs EXCEPT ![i] = r]
    BY <1>1, <1>2 DEF Goto
  <1> QED
    BY <1>3, <1>4, <1>5 DEF Numbers

\* A run that lists or reruns moves no run that is on its way, itself included.
LEMMA ListMoves ==
    ASSUME TypeOK, NEW i \in Numbers, ListFailed(i) \/ Rerun(i), NEW k \in Numbers, Asks(k)
    PROVE  Numbers' = Numbers /\ runs'[k] = runs[k]
  <1>1. k # i /\ runs \in Seq(Runs) /\ Len(runs) \in Nat /\ Numbers = 1..Len(runs)
    BY Known DEF ListFailed, Rerun, At, Asks, Proper, Numbers
  <1>2. CASE ListFailed(i)
    <2>1. PICK r : runs' = [runs EXCEPT ![i] = r]
      BY <1>2 DEF ListFailed, Listed
    <2> QED
      BY <1>1, <2>1 DEF Numbers
  <1>3. CASE Rerun(i)
    <2>1. PICK j, r : /\ j = k => ~Done(j)
                      /\ \/ runs' = [runs EXCEPT ![i] = r]
                         \/ /\ Done(j)
                            /\ runs' = [[runs EXCEPT ![i] = r]
                                         EXCEPT ![j] = [@ EXCEPT !.at = "diff"]]
      BY <1>3 DEF Rerun, Asks, Done, Results
    <2> QED
      BY <1>1, <2>1 DEF Numbers
  <1> QED
    BY <1>2, <1>3

LEMMA CallAsks ==
    ASSUME AskInv, NEW i \in Numbers, RunStep(i) PROVE Asking'
  <1>1. /\ TypeOK /\ UNCHANGED <<branch, reviews>> /\ pr'.author = pr.author
    BY StepCalls DEF AskInv
  <1>2. (NeedsReview' <=> NeedsReview) /\ (Approved' <=> Approved)
    BY <1>1 DEF NeedsReview, Exempt, Approved
  <1>3. faults \in Nat /\ pr \in Pulls
    BY <1>1 DEF TypeOK
  <1>4. faults' \in {faults, faults + 1} /\ (pr.requested => pr'.requested)
    <2>1. pr' = pr \/ pr' = [pr EXCEPT !.requested = TRUE]
      BY DEF RunStep, Inspect, ReadRequests, RequestReview, ReadReviews, Reads,
             ListFailed, Listed, Rerun, CallFails
    <2>2. faults' \in {faults, faults + 1}
      BY DEF RunStep, Inspect, ReadRequests, RequestReview, ReadReviews, Reads,
             ListFailed, Listed, Rerun, CallFails, Fault
    <2> QED
      BY <1>3, <2>1, <2>2 DEF Pulls
  <1> SUFFICES ASSUME faults' = 0, NeedsReview, ~Approved, ~pr.requested
               PROVE  pr'.requested \/ \E k \in Numbers' : Asks(k)'
    BY <1>2, <1>4 DEF Asking
  <1>5. PICK k \in Numbers : Asks(k)
    BY <1>3, <1>4 DEF AskInv, Asking
  <1>6. ASSUME NEW at, Goto(i, at), at \in {"requests", "request"} \/ ~Asks(i)
        PROVE  \E n \in Numbers' : Asks(n)'
    BY <1>1, <1>5, <1>6, GotoMoves DEF Asks
  <1>7. CASE Inspect(i)
    BY <1>6, <1>7 DEF Inspect, Reads
  <1>8. CASE ReadRequests(i)
    BY <1>6, <1>8 DEF ReadRequests, Reads
  <1>9. CASE RequestReview(i)
    <2>1. pr' = [pr EXCEPT !.requested = TRUE]
      BY <1>3, <1>9 DEF RequestReview, Fault
    <2> QED
      BY <1>3, <2>1 DEF Pulls
  <1>10. CASE ReadReviews(i)
    BY <1>6, <1>10 DEF ReadReviews, Reads, At, Asks
  <1>11. CASE ListFailed(i) \/ Rerun(i)
    BY <1>1, <1>5, <1>11, ListMoves DEF Asks
  <1>12. CASE CallFails(i)
    BY <1>3, <1>12 DEF CallFails, Fault
  <1> QED
    BY <1>7, <1>8, <1>9, <1>10, <1>11, <1>12 DEF RunStep

LEMMA EventAsks ==
    ASSUME TypeOK, Event, Rest' PROVE Asking'
  <1>1. PICK event \in Events, rev \in Nat : runs' = Append(runs, NewRun(event, rev))
    BY DEF Event
  <1>2. PICK t : t = Append(runs, NewRun(event, rev))
    OBVIOUS
  <1>3. Len(t) = Len(runs) + 1 /\ Len(runs) \in Nat /\ t[Len(t)] = NewRun(event, rev)
    BY <1>2, Appended, TypeParts
  <1>4. \E n \in Numbers' : Asks(n)'
    BY <1>1, <1>2, <1>3 DEF Numbers, Asks, NewRun
  <1> QED
    BY <1>4 DEF Asking

LEMMA NextAsks == AskInv /\ [Next]_vars => AskInv'
  <1> SUFFICES ASSUME AskInv, [Next]_vars PROVE Asking'
    BY NextTyped DEF AskInv
  <1>1. TypeOK
    BY DEF AskInv
  <1>2. CASE UNCHANGED vars
    BY <1>2 DEF vars, AskInv, Asking, Asks, Numbers, NeedsReview, Exempt, Approved
  <1>3. CASE SomeRunSteps
    BY <1>3, CallAsks DEF SomeRunSteps
  <1>4. CASE Merge \/ Close
    <2>1. pr'.requested = pr.requested /\ UNCHANGED faults
      BY <1>1, <1>4 DEF Merge, Close, TypeOK, Pulls
    <2> QED
      BY <1>1, <1>4, <2>1, StateIs
      DEF AskInv, Asking, Asks, Numbers, NeedsReview, Exempt, Approved
  <1>5. CASE Push
    BY <1>1, <1>5, PushEvent, EventAsks
  <1>6. CASE Reopen
    BY <1>1, <1>6, ReopenIs, EventAsks
  <1>7. CASE Review \/ Dismiss
    BY <1>1, <1>7, ReviewIs, EventAsks
  <1> QED
    BY <1>2, <1>3, <1>4, <1>5, <1>6, <1>7 DEF Next

\* Once the gate is through with a pull request that waits for the owner, the owner is
\* asked, unless a call failed, however often reviews take the request away and whatever
\* else comes in between (templates.go 122-127).
THEOREM OwnerIsAsked == Spec => []OwnerAsked
  <1>1. Init => AskInv
    <2> SUFFICES ASSUME Init PROVE AskInv
      OBVIOUS
    <2>1. 1 \in Numbers /\ runs[1].at = "diff"
      BY DEF Init, Numbers, NewRun
    <2> QED
      BY <2>1, InitTyped DEF AskInv, Asking, Asks
  <1>2. AskInv => OwnerAsked
    <2> SUFFICES ASSUME AskInv, ~OwnerAsked PROVE FALSE
      OBVIOUS
    <2>1. /\ NeedsReview /\ ~Approved /\ ~pr.requested /\ faults = 0
          /\ \A i \in Numbers : Done(i)
      BY DEF OwnerAsked, AskInv, TypeOK
    <2>2. PICK i \in Numbers : Asks(i)
      BY <2>1 DEF AskInv, Asking
    <2> QED
      BY <2>1, <2>2 DEF Done, Asks, Results
  <1> QED
    BY <1>1, <1>2, NextAsks, PTL DEF Spec
=============================================================================
