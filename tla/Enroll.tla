------------------------------- MODULE Enroll -------------------------------
(***************************************************************************)
(* The Enroll RPC of the speculate daemon: the gRPC handler, which funnels *)
(* concurrent calls through a singleflight group keyed by the spelling of  *)
(* the repository (cmd/speculate/server.go), and the enrollment pipeline   *)
(* it runs (pkg/enroll/pipeline.go) against GitHub (pkg/github/real.go)    *)
(* and the enrollment store (pkg/pstore).                                  *)
(*                                                                         *)
(* One action is one call the pipeline makes to the outside.  A call that  *)
(* writes may take effect and still be reported as failed, the leader's    *)
(* context may end at any time, the daemon may die between any two calls,  *)
(* and people push, edit the README and close issues meanwhile.            *)
(***************************************************************************)
EXTENDS Integers, FiniteSets

CONSTANTS
    Callers,      \* the clients of the daemon; each has one call open at most
    Spellings,    \* the trimmed strings that requests name a repository by
    Repos,        \* the repositories
    NoRepo,       \* what ParseRepo yields for a spelling it rejects
    Canon,        \* Canon[s]: the repository that spelling s parses to
    None,         \* the absent value
    Percentages,  \* the scores an evaluation may yield
    Durable,      \* TRUE: pstore; FALSE: the in-memory fallback store
    Faulty,       \* the calls that may fail though the context is live
    MaxCalls,     \* bound: calls per caller
    MaxFaults,    \* bound: failures of calls whose context is live
    MaxCrashes,   \* bound: deaths of the daemon
    MaxRevs,      \* bound: pushes to each repository
    MaxIssues,    \* bound: issues of each repository (people stop closing)
    MaxEdits,     \* bound: human edits of each README
    MaxClock      \* bound: readings of the clock

Kinds == {"noseed", "empty", "specs"}
Labels == {"loop", "seed"}

\* The calls of the pipeline, named for what it waits on.
Reads  == {"clone", "seed", "eval", "find", "card"}
Writes == {"comment", "close", "labels", "badge", "create", "save"}
Steps  == Reads \cup Writes \cup {"parse", "readme", "get"}

ASSUME CanonType == Canon \in [Spellings -> Repos \cup {NoRepo}] /\ NoRepo \notin Repos
ASSUME NoneFresh == None \notin Callers
ASSUME PercentagesType == Percentages \subseteq 0..100
ASSUME DurableType == Durable \in BOOLEAN /\ Faulty \subseteq Steps
ASSUME BoundsType ==
    {MaxCalls, MaxFaults, MaxCrashes, MaxRevs, MaxIssues, MaxEdits, MaxClock} \subseteq Nat

VARIABLES
    status,      \* status[c]: where the call of c stands in the handler
    key,         \* key[c]: the spelling that c's open request names
    answer,      \* answer[c]: what the handler returned to c
    ctx,         \* ctx[c]: the context of c's open request
    flight,      \* flight[s]: the caller whose goroutine runs the flight of s
    pc,          \* pc[c]: the next call of the pipeline that c leads
    job,         \* job[c]: the local variables of that pipeline
    calls,       \* calls[c]: how many calls c has made
    issues,      \* the issues on GitHub
    issueCount,  \* issueCount[r]: the last issue number given out in r
    labels,      \* labels[r]: the required labels that exist in r
    readme,      \* readme[r]: README.md on main
    record,      \* record[r]: the enrollment record in the store
    head,        \* head[r]: the revision of main and what its seed files hold
    clock,       \* time.Now().Unix()
    faults,      \* failures so far
    crashes      \* deaths so far

callVars   == <<status, key, answer, ctx, flight, calls>>
githubVars == <<issues, issueCount, labels, readme>>
envVars    == <<head, clock, crashes>>
vars == <<callVars, pc, job, githubVars, record, envVars, faults>>
-----------------------------------------------------------------------------
(* Types *)

Failed  == [ok |-> FALSE, pct |-> 0, issue |-> 0]
Answers == [ok : BOOLEAN, pct : 0..100, issue : Nat]
Issues  == [repo : Repos, num : Nat, label : Labels, open : BOOLEAN, noted : BOOLEAN]
Readmes == [exists : BOOLEAN, text : Nat, badge : -1..100]
Absent  == [exists |-> FALSE, text |-> 0, badge |-> -1]
Plain   == [exists |-> TRUE, text |-> 0, badge |-> -1]
Records == [pct : 0..100, issue : Nat, enrolledAt : Nat, evaluatedAt : Nat, rev : Nat]
Heads   == [rev : Nat, kind : Kinds]
\* issue, seed: issue numbers, 0 for nil. base: README as UpdateReadmeBadge read it.
\* misread is history: GetEnrollment failed, whatever the store holds.
Jobs    == [rev : Nat, kind : Kinds, seed : Nat, pct : 0..100, base : Readmes,
            now : Nat, enrolledAt : Nat, issue : Nat, misread : BOOLEAN]
NoJob   == [rev |-> 0, kind |-> "noseed", seed |-> 0, pct |-> 0, base |-> Absent,
            now |-> 0, enrolledAt |-> 0, issue |-> 0, misread |-> FALSE]

\* Every variable keeps the shape the code gives it.
TypeOK ==
    /\ status \in [Callers -> {"idle", "waiting", "running", "answered"}]
    /\ key \in [Callers -> Spellings \cup {None}]
    /\ answer \in [Callers -> Answers]
    /\ ctx \in [Callers -> {"live", "ending", "gone"}]
    /\ flight \in [Spellings -> Callers \cup {None}]
    /\ pc \in [Callers -> Steps \cup {"idle"}]
    /\ job \in [Callers -> Jobs]
    /\ calls \in [Callers -> Nat]
    /\ issues \subseteq Issues
    /\ issueCount \in [Repos -> Nat]
    /\ labels \in [Repos -> SUBSET Labels]
    /\ readme \in [Repos -> Readmes]
    /\ record \in [Repos -> Records \cup {None}]
    /\ head \in [Repos -> Heads]
    /\ clock \in Nat /\ faults \in Nat /\ crashes \in Nat

\* A repository starts unenrolled, with or without the seed issue that `speculate init`
\* opens when it finds no seed files, with or without a README.
Init ==
    /\ status = [c \in Callers |-> "idle"]
    /\ key = [c \in Callers |-> None]
    /\ answer = [c \in Callers |-> Failed]
    /\ ctx = [c \in Callers |-> "live"]
    /\ flight = [s \in Spellings |-> None]
    /\ pc = [c \in Callers |-> "idle"]
    /\ job = [c \in Callers |-> NoJob]
    /\ calls = [c \in Callers |-> 0]
    /\ issueCount = [r \in Repos |-> 1]
    /\ \E seeded \in SUBSET Repos :
         issues = {[repo |-> r, num |-> 1, label |-> "seed", open |-> TRUE, noted |-> FALSE]
                     : r \in seeded}
    /\ labels = [r \in Repos |-> {}]
    /\ readme \in [Repos -> {Absent, Plain}]
    /\ record = [r \in Repos |-> None]
    /\ head \in [Repos -> [rev : {0}, kind : Kinds]]
    /\ clock = 1 /\ faults = 0 /\ crashes = 0
-----------------------------------------------------------------------------
(* The handler and the singleflight group *)

Repo(c) == Canon[key[c]]
OpenIssues(r, label) == {i \in issues : i.repo = r /\ i.label = label /\ i.open}

\* A request with a blank repository is turned away before the group.
RejectBlank(c) ==
    /\ status[c] \in {"idle", "answered"} /\ calls[c] < MaxCalls
    /\ calls' = [calls EXCEPT ![c] = @ + 1]
    /\ status' = [status EXCEPT ![c] = "answered"]
    /\ answer' = [answer EXCEPT ![c] = Failed]
    /\ UNCHANGED <<key, ctx, flight, pc, job, githubVars, record, envVars, faults>>

\* Mutant of Call: no singleflight, every call runs a pipeline of its own.
CallAlwaysLeads(c, s) ==
    /\ status[c] \in {"idle", "answered"} /\ calls[c] < MaxCalls
    /\ calls' = [calls EXCEPT ![c] = @ + 1]
    /\ key' = [key EXCEPT ![c] = s]
    /\ answer' = [answer EXCEPT ![c] = Failed]
    /\ flight' = [flight EXCEPT ![s] = c]
    /\ status' = [status EXCEPT ![c] = "running"]
    /\ pc' = [pc EXCEPT ![c] = "parse"]
    /\ UNCHANGED <<ctx, job, githubVars, record, envVars, faults>>

\* s.Do(repo, ...): c leads the flight of its spelling when there is none, else it waits.
Call(c, s) ==
    /\ status[c] \in {"idle", "answered"} /\ calls[c] < MaxCalls
    /\ calls' = [calls EXCEPT ![c] = @ + 1]
    /\ key' = [key EXCEPT ![c] = s]
    /\ answer' = [answer EXCEPT ![c] = Failed]
    /\ \/ /\ flight[s] = None
          /\ flight' = [flight EXCEPT ![s] = c]
          /\ status' = [status EXCEPT ![c] = "running"]
          /\ pc' = [pc EXCEPT ![c] = "parse"]
       \/ /\ flight[s] # None
          /\ status' = [status EXCEPT ![c] = "waiting"]
          /\ UNCHANGED <<flight, pc>>
    /\ UNCHANGED <<ctx, job, githubVars, record, envVars, faults>>

\* Mutant of Flight: the waiting callers are never woken.
FlightLeaderOnly(c) == {c}

\* The callers that return with the flight of c: c and everyone waiting on its spelling.
Flight(c) == {c} \cup {d \in Callers : key[d] = key[c] /\ status[d] = "waiting"}

\* The pipeline led by c returns result: the flight ends and all its callers get it.
Finish(c, result) ==
    /\ answer' = [d \in Callers |-> IF d \in Flight(c) THEN result ELSE answer[d]]
    /\ status' = [d \in Callers |-> IF d \in Flight(c) THEN "answered" ELSE status[d]]
    /\ key' = [d \in Callers |-> IF d \in Flight(c) THEN None ELSE key[d]]
    /\ ctx' = [d \in Callers |-> IF d \in Flight(c) THEN "live" ELSE ctx[d]]
    /\ flight' = [flight EXCEPT ![key[c]] = None]
    /\ pc' = [pc EXCEPT ![c] = "idle"]
    /\ job' = [job EXCEPT ![c] = NoJob]
    /\ UNCHANGED calls

\* The pipeline goes on to its next call with the locals j.
Goto(c, step, j) ==
    /\ pc' = [pc EXCEPT ![c] = step]
    /\ job' = [job EXCEPT ![c] = j]
    /\ UNCHANGED callVars
-----------------------------------------------------------------------------
(* How a call of the pipeline can end *)

At(c, step) == pc[c] = step

\* The in-memory store never looks at the context and never fails.
Remote(step) == Durable \/ step # "save"
Granted(c)   == ctx[c] = "live" \/ ~Remote(pc[c])

\* A live call fails only of itself, within the bound.
Fault(step) ==
    /\ step \in Faulty
    /\ faults < MaxFaults
    /\ faults' = faults + 1

\* The call took effect, but the pipeline sees an error: its context ended while the
\* call was on the wire, or the reply was lost.
LostReply(c) ==
    /\ Remote(pc[c])
    /\ \/ ctx[c] = "live" /\ Fault(pc[c])
       \/ ctx[c] = "ending" /\ UNCHANGED faults
    /\ Finish(c, Failed)

\* A write returns: on to the next call with the locals j, or its reply is lost.
WriteReturns(c, step, j) ==
    \/ Granted(c) /\ Goto(c, step, j) /\ UNCHANGED faults
    \/ LostReply(c)

\* A read returns.
ReadReturns(c, step, j) ==
    /\ ctx[c] = "live"
    /\ Goto(c, step, j)
    /\ UNCHANGED <<githubVars, record, envVars, faults>>

\* The call has no effect and the pipeline returns its error.
CallFails(c) ==
    /\ pc[c] \in Reads \cup Writes
    /\ Remote(pc[c])
    /\ At(c, "badge") => job[c].base.badge # job[c].pct
    /\ \/ ctx[c] = "live" /\ Fault(pc[c])
       \/ ctx[c] # "live" /\ UNCHANGED faults
    /\ Finish(c, Failed)
    /\ UNCHANGED <<githubVars, record, envVars>>

\* The pipeline returns an error of its own.
Refuse(c) ==
    /\ Finish(c, Failed)
    /\ UNCHANGED <<githubVars, record, envVars, faults>>
-----------------------------------------------------------------------------
(* The pipeline, call by call *)

\* ParseRepo: many spellings name one repository, some name none.
Parse(c) ==
    /\ At(c, "parse")
    /\ \/ Repo(c) = NoRepo /\ Refuse(c)
       \/ /\ Repo(c) # NoRepo
          /\ Goto(c, "clone", NoJob)
          /\ UNCHANGED <<githubVars, record, envVars, faults>>

\* Mutant of Clone: an enrolled repository is read from a cached clone of its first revision.
CloneCached(c) ==
    LET r == Repo(c)
        rev == IF record[r] = None THEN head[r].rev ELSE 0
    IN
    /\ At(c, "clone")
    /\ \/ head[r].kind = "noseed" /\ ctx[c] = "live" /\ Refuse(c)
       \/ /\ head[r].kind # "noseed"
          /\ ReadReturns(c, "seed", [job[c] EXCEPT !.rev = rev, !.kind = head[r].kind])

\* A shallow clone, then the checks of proto/ and specs/ in it.
Clone(c) ==
    /\ At(c, "clone")
    /\ \/ head[Repo(c)].kind = "noseed" /\ ctx[c] = "live" /\ Refuse(c)
       \/ /\ head[Repo(c)].kind # "noseed"
          /\ ReadReturns(c, "seed", [job[c] EXCEPT !.rev = head[Repo(c)].rev,
                                                   !.kind = head[Repo(c)].kind])

\* Mutant of FindSeed: the comment is forgotten.
FindSeedNoComment(c) ==
    /\ At(c, "seed")
    /\ \/ OpenIssues(Repo(c), "seed") = {} /\ ReadReturns(c, "eval", job[c])
       \/ \E i \in OpenIssues(Repo(c), "seed") :
            ReadReturns(c, "close", [job[c] EXCEPT !.seed = i.num])

\* The open seed issue, if any, is next in line to be commented on and closed.
FindSeed(c) ==
    /\ At(c, "seed")
    /\ \/ OpenIssues(Repo(c), "seed") = {} /\ ReadReturns(c, "eval", job[c])
       \/ \E i \in OpenIssues(Repo(c), "seed") :
            ReadReturns(c, "comment", [job[c] EXCEPT !.seed = i.num])

IsSeed(c, i) == i.repo = Repo(c) /\ i.num = job[c].seed

CommentSeed(c) ==
    /\ At(c, "comment")
    /\ issues' = {IF IsSeed(c, i) THEN [i EXCEPT !.noted = TRUE] ELSE i : i \in issues}
    /\ WriteReturns(c, "close", job[c])
    /\ UNCHANGED <<issueCount, labels, readme, record, envVars>>

CloseSeed(c) ==
    /\ At(c, "close")
    /\ issues' = {IF IsSeed(c, i) THEN [i EXCEPT !.open = FALSE] ELSE i : i \in issues}
    /\ WriteReturns(c, "eval", job[c])
    /\ UNCHANGED <<issueCount, labels, readme, record, envVars>>

\* Mutant of Evaluate: a score in per mille.
EvaluatePerMille(c) ==
    /\ At(c, "eval")
    /\ \E p \in IF job[c].kind = "empty" THEN {0} ELSE Percentages :
         ReadReturns(c, "labels", [job[c] EXCEPT !.pct = 10 * p])

\* ParseTestDir and Evaluate: a spec without requirements scores 0, any other what the
\* LLM says of it.
Evaluate(c) ==
    /\ At(c, "eval")
    /\ \E p \in IF job[c].kind = "empty" THEN {0} ELSE Percentages :
         ReadReturns(c, "labels", [job[c] EXCEPT !.pct = p])

\* One label after the other; an error in between leaves the first ones created.
EnsureLabels(c) ==
    /\ At(c, "labels")
    /\ \/ /\ labels' = [labels EXCEPT ![Repo(c)] = Labels]
          /\ WriteReturns(c, "readme", job[c])
       \/ /\ labels' = [labels EXCEPT ![Repo(c)] = @ \cup {"loop"}]
          /\ LostReply(c)
    /\ UNCHANGED <<issues, issueCount, readme, record, envVars>>

\* UpdateReadmeBadge reads README.md first and takes any error for an empty file.
ReadReadme(c) ==
    /\ At(c, "readme")
    /\ \/ ReadReturns(c, "badge", [job[c] EXCEPT !.base = readme[Repo(c)]])
       \/ /\ \/ ctx[c] = "live" /\ Fault("readme") /\ UNCHANGED callVars
             \/ /\ ctx[c] # "live"
                /\ ctx' = [ctx EXCEPT ![c] = "gone"]
                /\ UNCHANGED <<status, key, answer, flight, calls, faults>>
          /\ job' = [job EXCEPT ![c].base = Absent]
          /\ pc' = [pc EXCEPT ![c] = "badge"]
          /\ UNCHANGED <<githubVars, record, envVars>>

\* Mutant of WriteBadge: the commit does not name the blob it replaces.
WriteBadgeUnguarded(c) ==
    LET r == Repo(c)  base == job[c].base IN
    /\ At(c, "badge")
    /\ readme' = [readme EXCEPT ![r] = [base EXCEPT !.exists = TRUE, !.badge = job[c].pct]]
    /\ WriteReturns(c, "get", job[c])
    /\ UNCHANGED <<issues, issueCount, labels, record, envVars>>

\* No commit when the badge is there already; else UpdateFile with the blob the badge was
\* put into, which GitHub refuses if main holds another one.
WriteBadge(c) ==
    LET r == Repo(c)  base == job[c].base IN
    /\ At(c, "badge")
    /\ \/ /\ base.badge = job[c].pct
          /\ Goto(c, "get", job[c])
          /\ UNCHANGED <<readme, faults>>
       \/ /\ base.badge # job[c].pct
          /\ readme[r] = base
          /\ readme' = [readme EXCEPT ![r] = [base EXCEPT !.exists = TRUE,
                                                          !.badge = job[c].pct]]
          /\ WriteReturns(c, "get", job[c])
       \/ /\ base.badge # job[c].pct
          /\ readme[r] # base
          /\ ctx[c] = "live"
          /\ Finish(c, Failed)
          /\ UNCHANGED <<readme, faults>>
    /\ UNCHANGED <<issues, issueCount, labels, record, envVars>>

\* Mutant of GetRecord: a re-enrollment stamps the record anew.
GetRecordFresh(c) ==
    /\ At(c, "get")
    /\ ctx[c] = "live" \/ ~Durable
    /\ Goto(c, IF job[c].pct = 100 THEN "save" ELSE "find",
            [job[c] EXCEPT !.now = clock, !.enrolledAt = clock])
    /\ UNCHANGED <<githubVars, record, envVars, faults>>

\* Mutant of GetRecord: no early return for a fully aligned repository.
GetRecordNoReturn(c) ==
    LET r == Repo(c) IN
    /\ At(c, "get")
    /\ ctx[c] = "live" \/ ~Durable
    /\ Goto(c, "find",
            [job[c] EXCEPT !.now = clock,
                           !.enrolledAt = IF record[r] # None THEN record[r].enrolledAt
                                                              ELSE clock])
    /\ UNCHANGED <<githubVars, record, envVars, faults>>

\* The time, then GetEnrollment: a record found keeps its enrolledAt, any error counts
\* as no record.
GetRecord(c) ==
    LET r == Repo(c)
        next == IF job[c].pct = 100 THEN "save" ELSE "find"
        Found(at) == [job[c] EXCEPT !.now = clock, !.enrolledAt = at]
    IN
    /\ At(c, "get")
    /\ \/ /\ ctx[c] = "live" \/ ~Durable
          /\ Goto(c, next, Found(IF record[r] # None THEN record[r].enrolledAt ELSE clock))
          /\ UNCHANGED faults
       \/ /\ Durable
          /\ pc' = [pc EXCEPT ![c] = next]
          /\ job' = [job EXCEPT ![c] = [Found(clock) EXCEPT !.misread = TRUE]]
          /\ \/ ctx[c] = "live" /\ Fault("get") /\ UNCHANGED ctx
             \/ ctx[c] # "live" /\ ctx' = [ctx EXCEPT ![c] = "gone"] /\ UNCHANGED faults
          /\ UNCHANGED <<status, key, answer, flight, calls>>
    /\ UNCHANGED <<githubVars, record, envVars>>

\* Mutant of FindLoop: an open loop issue is not looked for.
FindLoopNever(c) ==
    /\ At(c, "find")
    /\ ReadReturns(c, "card", job[c])

\* An open loop issue is reused.
FindLoop(c) ==
    /\ At(c, "find")
    /\ \/ OpenIssues(Repo(c), "loop") = {} /\ ReadReturns(c, "card", job[c])
       \/ \E i \in OpenIssues(Repo(c), "loop") :
            ReadReturns(c, "save", [job[c] EXCEPT !.issue = i.num])

\* The scenario card for the next requirement.
MakeCard(c) ==
    /\ At(c, "card")
    /\ job[c].kind = "specs"
    /\ ReadReturns(c, "create", job[c])

CreateLoop(c) ==
    LET r == Repo(c)  n == issueCount[r] + 1 IN
    /\ At(c, "create")
    /\ issueCount' = [issueCount EXCEPT ![r] = n]
    /\ issues' = issues \cup
         {[repo |-> r, num |-> n, label |-> "loop", open |-> TRUE, noted |-> FALSE]}
    /\ WriteReturns(c, "save", [job[c] EXCEPT !.issue = n])
    /\ UNCHANGED <<labels, readme, record, envVars>>

\* Mutant of Save: an error of SaveEnrollment is logged and ignored.
SaveIgnoringErrors(c) ==
    LET r == Repo(c)  j == job[c] IN
    /\ At(c, "save")
    /\ \/ Granted(c) /\ Fault("save") /\ UNCHANGED record
       \/ /\ Granted(c)
          /\ record' = [record EXCEPT ![r] =
                [pct |-> j.pct, issue |-> j.issue, rev |-> j.rev,
                 enrolledAt |-> j.enrolledAt, evaluatedAt |-> j.now]]
          /\ UNCHANGED faults
    /\ Finish(c, [ok |-> TRUE, pct |-> j.pct, issue |-> j.issue])
    /\ UNCHANGED <<githubVars, envVars>>

\* Mutant of Save: the issue of the old record is carried over, as its enrolledAt is.
SaveKeepsIssue(c) ==
    LET r == Repo(c)  j == job[c]
        issue == IF record[r] # None THEN record[r].issue ELSE j.issue
    IN
    /\ At(c, "save")
    /\ record' = [record EXCEPT ![r] = [pct |-> j.pct, issue |-> issue, rev |-> j.rev,
                                        enrolledAt |-> j.enrolledAt, evaluatedAt |-> j.now]]
    /\ \/ /\ Granted(c)
          /\ Finish(c, [ok |-> TRUE, pct |-> j.pct, issue |-> j.issue])
          /\ UNCHANGED faults
       \/ LostReply(c)
    /\ UNCHANGED <<githubVars, envVars>>

\* SaveEnrollment overwrites the record, and the pipeline answers.
Save(c) ==
    LET r == Repo(c)  j == job[c] IN
    /\ At(c, "save")
    /\ record' = [record EXCEPT ![r] = [pct |-> j.pct, issue |-> j.issue, rev |-> j.rev,
                                        enrolledAt |-> j.enrolledAt, evaluatedAt |-> j.now]]
    /\ \/ /\ Granted(c)
          /\ Finish(c, [ok |-> TRUE, pct |-> j.pct, issue |-> j.issue])
          /\ UNCHANGED faults
       \/ LostReply(c)
    /\ UNCHANGED <<githubVars, envVars>>
-----------------------------------------------------------------------------
(* The death of the daemon *)

\* Every open call is cut off, and the in-memory store is gone.
Die ==
    /\ answer' = [c \in Callers |-> IF status[c] = "answered" THEN answer[c] ELSE Failed]
    /\ status' = [c \in Callers |-> IF status[c] = "idle" THEN "idle" ELSE "answered"]
    /\ flight' = [s \in Spellings |-> None]
    /\ pc' = [c \in Callers |-> "idle"]
    /\ job' = [c \in Callers |-> NoJob]
    /\ record' = IF Durable THEN record ELSE [r \in Repos |-> None]
    /\ key' = [c \in Callers |-> None]
    /\ ctx' = [c \in Callers |-> "live"]
    /\ UNCHANGED <<calls, githubVars, head, clock, faults>>

\* stage.Requirements[0] of a spec without requirements panics, and singleflight passes
\* the panic on: the process dies.
PanicNoRequirement(c) ==
    /\ At(c, "card")
    /\ job[c].kind = "empty"
    /\ Die
    /\ UNCHANGED crashes

Crash ==
    /\ crashes < MaxCrashes
    /\ crashes' = crashes + 1
    /\ Die
-----------------------------------------------------------------------------
(* The world around *)

\* Mutant of Cancel: a leader that goes away makes the group forget its flight.
CancelForgets(c) ==
    /\ status[c] \in {"running", "waiting"} /\ ctx[c] = "live"
    /\ ctx' = [ctx EXCEPT ![c] = "ending"]
    /\ flight' = IF status[c] = "running" THEN [flight EXCEPT ![key[c]] = None] ELSE flight
    /\ UNCHANGED <<status, key, answer, calls, pc, job, githubVars, record, envVars, faults>>

\* The client of an open call goes away or its deadline passes.
Cancel(c) ==
    /\ status[c] \in {"running", "waiting"} /\ ctx[c] = "live"
    /\ ctx' = [ctx EXCEPT ![c] = "ending"]
    /\ UNCHANGED <<status, key, answer, flight, calls, pc, job, githubVars, record,
                   envVars, faults>>

Push(r) ==
    /\ head[r].rev < MaxRevs
    /\ \E k \in Kinds : head' = [head EXCEPT ![r] = [rev |-> @.rev + 1, kind |-> k]]
    /\ UNCHANGED <<callVars, pc, job, githubVars, record, clock, crashes, faults>>

\* A person (or the merge of the generated test) closes an open loop issue.
CloseByHand(r) ==
    /\ issueCount[r] < MaxIssues
    /\ \E i \in OpenIssues(r, "loop") :
         issues' = (issues \ {i}) \cup {[i EXCEPT !.open = FALSE]}
    /\ UNCHANGED <<callVars, pc, job, issueCount, labels, readme, record, envVars, faults>>

EditReadme(r) ==
    /\ readme[r].text < MaxEdits
    /\ readme' = [readme EXCEPT ![r].exists = TRUE, ![r].text = @ + 1]
    /\ UNCHANGED <<callVars, pc, job, issues, issueCount, labels, record, envVars, faults>>

Tick ==
    /\ clock < MaxClock
    /\ clock' = clock + 1
    /\ UNCHANGED <<callVars, pc, job, githubVars, record, head, crashes, faults>>
-----------------------------------------------------------------------------
PipelineStep(c) ==
    \/ Parse(c) \/ Clone(c) \/ FindSeed(c) \/ CommentSeed(c) \/ CloseSeed(c)
    \/ Evaluate(c) \/ EnsureLabels(c) \/ ReadReadme(c) \/ WriteBadge(c)
    \/ GetRecord(c) \/ FindLoop(c) \/ MakeCard(c) \/ CreateLoop(c) \/ Save(c)
    \/ CallFails(c) \/ PanicNoRequirement(c)

WorldStep(r) == Push(r) \/ CloseByHand(r) \/ EditReadme(r)

Next ==
    \/ \E c \in Callers :
         \/ RejectBlank(c)
         \/ \E s \in Spellings : Call(c, s)
         \/ PipelineStep(c)
         \/ Cancel(c)
    \/ \E r \in Repos : WorldStep(r)
    \/ Tick
    \/ Crash

\* The calls of a pipeline return; nothing else is owed.
Fairness == \A c \in Callers : WF_vars(PipelineStep(c))

Spec == Init /\ [][Next]_vars /\ Fairness
-----------------------------------------------------------------------------
(* Properties *)

\* Each repository is named by one spelling only: what the handler takes for granted when
\* it keys the singleflight group by the spelling (server.go 39-40).
OneSpelling ==
    \A s, t \in Spellings : Canon[s] = Canon[t] /\ Canon[s] # NoRepo => s = t

\* No repository ever has two open loop issues: concurrent and repeated enrollments reuse
\* the issue FindOpenIssueByLabel finds instead of opening another (pipeline.go 244-299).
OneOpenLoopIssue ==
    \A i, j \in issues :
        /\ i.repo = j.repo
        /\ i.label = "loop" /\ j.label = "loop"
        /\ i.open /\ j.open
        => i = j

\* Two pipelines never work on one repository at a time: "deduplicating concurrent calls
\* for the same repository" (server.go 32-33).
OnePipelinePerRepo ==
    \A c, d \in Callers :
        /\ pc[c] \notin {"idle", "parse"} /\ pc[d] \notin {"idle", "parse"}
        /\ Repo(c) = Repo(d)
        => c = d

\* A waiting call always has a leader at work on its spelling, and a spelling's leader
\* runs the only pipeline of that spelling (singleflight, server.go 40-42).
FlightsLed ==
    /\ \A c \in Callers : status[c] = "waiting" =>
         flight[key[c]] # None /\ status[flight[key[c]]] = "running"
    /\ \A c \in Callers : pc[c] # "idle" => status[c] = "running" /\ flight[key[c]] = c

\* The pipeline closes a seed issue only once its closing comment is posted
\* (pipeline.go 176-184), whatever failed or was retried in between.
SeedClosedWithNotice ==
    \A i \in issues : i.label = "seed" /\ ~i.open => i.noted

\* The record of a repository points at a loop issue of that very repository or, fully
\* aligned, at none (pipeline.go 217-239, 301-313).
RecordNamesIssue ==
    \A r \in Repos : record[r] # None =>
        IF record[r].pct = 100
        THEN record[r].issue = 0
        ELSE \E i \in issues :
               i.repo = r /\ i.num = record[r].issue /\ i.label = "loop"

\* A call answered with success leaves behind what it reports: the record with its score
\* and issue, every required label and the badge (pipeline.go 199-320).
AnswerBacked ==
    [][\A c \in Callers :
         status[c] \in {"running", "waiting"} /\ status'[c] = "answered" /\ answer'[c].ok =>
           LET r == Repo(c) IN
           /\ record'[r] # None
           /\ record'[r].pct = answer'[c].pct
           /\ record'[r].issue = answer'[c].issue
           /\ labels'[r] = Labels
           /\ readme'[r].badge = answer'[c].pct]_vars

\* The record never goes back to the verdict on an older revision or an older time
\* (pipeline.go 209, 301-313): flights of one repository do not overtake each other.
RecordMonotone ==
    [][\A r \in Repos : record[r] # None /\ record'[r] # None =>
         /\ record'[r].rev >= record[r].rev
         /\ record'[r].evaluatedAt >= record[r].evaluatedAt]_vars

\* Enrolling again keeps the time of the first enrollment, unless the very flight that
\* saves the record failed to read the old one (pipeline.go 209-215): no other failure,
\* crash or interleaving moves it.
EnrolledAtKept ==
    [][\A r \in Repos : record[r] # None /\ record'[r] # None =>
         \/ record'[r].enrolledAt = record[r].enrolledAt
         \/ \E c \in Callers : At(c, "save") /\ Repo(c) = r /\ job[c].misread]_vars

\* The badge commit never undoes what a person wrote into the README meanwhile
\* (real.go 420-438).
NoLostReadmeEdit == [][\A r \in Repos : readme'[r].text >= readme[r].text]_vars

\* Every call is answered in the end, its own leader's death included.
EveryCallAnswered ==
    \A c \in Callers : status[c] \in {"running", "waiting"} ~> status[c] = "answered"
=============================================================================
