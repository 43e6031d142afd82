-------------------------------- MODULE Prober --------------------------------
(***************************************************************************)
(* The speculate prober (cmd/prober/main.go): a job that probes the        *)
(* system once, records metrics, files an alert issue when it failed       *)
(* (pkg/alerter/alerter.go), offers its metrics for a scrape and exits.    *)
(* In evaluator mode it writes a generated test into the target directory  *)
(* and runs `go test` there (pkg/synthesizer/synthesizer.go).              *)
(*                                                                         *)
(* One action is one call to the outside.  Probers are started by the      *)
(* CronJob, which restarts a failed one, or by hand; a run may be killed   *)
(* at any point, calls fail, and one deadline of 120 s covers the probe    *)
(* and the offer of the metrics, but not the alert.  Alerts are looked for *)
(* in GitHub's search index, which trails the issues.                      *)
(***************************************************************************)
EXTENDS Integers, FiniteSets

CONSTANTS
    Probers,       \* the places a prober is started from: the CronJob, a workstation
    None,          \* the absent value
    CommandLines,  \* the command lines it is started with
    Overlap,       \* FALSE: concurrencyPolicy Forbid, one run at a time
    MaxRuns,       \* bound: runs per prober
    MaxFaults,     \* bound: runs whose alert GitHub fails
    MaxKills       \* bound: runs killed

\* mode: evaluator, clients, enroll, or one the prober does not know.
\* place: the target is a local directory that outlives the run, or a fresh clone.
\* dry: mocks instead of live services.  filing: issue filing is off or without a token,
\* on, or on for a repository whose name does not parse.
\* metrics: not served, held for a while, or held without a timeout of its own.
Modes == {"evaluator", "clients", "enroll", "unknown"}
Lines == [mode : Modes, place : {"local", "clone"}, dry : BOOLEAN,
          filing : {"off", "on", "misnamed"}, metrics : {"off", "timed", "untimed"}]

ASSUME LinesType == CommandLines \subseteq Lines
ASSUME OverlapType == Overlap \in BOOLEAN
ASSUME NoneType == None \notin [run : [by : Probers, n : Nat], torn : BOOLEAN]
ASSUME ProberBounds == {MaxRuns, MaxFaults, MaxKills} \subseteq Nat

VARIABLES
    pc,      \* pc[p]: the next call of the run, or "off"
    line,    \* line[p]: the command line of the run
    runs,    \* runs[p]: the number of the run
    job,     \* job[p]: the local variables of the run
    file,    \* mutation_probe_test.go in the local tests directory
    clones,  \* the runs whose temporary clone is on disk
    alerts,  \* the alert issues on GitHub, and what its search has of them
    faults,  \* history: the runs whose alert GitHub failed
    ends     \* history: how each run ended

vars == <<pc, line, runs, job, file, clones, alerts, faults, ends>>
-----------------------------------------------------------------------------
(* Types *)

Steps == {"resolve", "parse", "evaluate", "card", "write", "build", "test", "github", "dcm",
          "enroll", "again", "daemon", "direct", "record", "search", "create", "listen",
          "hold", "exit"}
EvaluatorSteps == {"parse", "evaluate", "card", "write", "build", "test"}
Runs  == [by : Probers, n : Nat]
Files == [run : Runs, torn : BOOLEAN]

\* listed: the search for open issues answers with it.
Alerts == [by : Runs, title : Modes, open : BOOLEAN, listed : BOOLEAN]

\* over: the 120 s are over. err: runErr # nil. padded (history): a probe file of an
\* earlier run went into the score. saw: the probe file that `go test` compiled.
\* outcome: what `go test` found; "blind" is any failure that is not its own test's.
\* filed: what became of the alert. scraped: Prometheus has read /metrics.
Jobs  == [over : BOOLEAN, err : BOOLEAN, padded : Files \cup {None},
          saw : {"none", "own", "other", "broken"},
          outcome : {"none", "red", "green", "blind"},
          filed : {"none", "opened", "found", "failed"}, scraped : BOOLEAN]
NoJob == [over |-> FALSE, err |-> FALSE, padded |-> None, saw |-> "none",
          outcome |-> "none", filed |-> "none", scraped |-> FALSE]
NoLine == [mode |-> "unknown", place |-> "local", dry |-> TRUE, filing |-> "off",
           metrics |-> "off"]

\* Every variable keeps the shape the code gives it, and the evaluator's steps are taken
\* in evaluator mode only.
TypeOK ==
    /\ \A p \in Probers : pc[p] \in EvaluatorSteps => line[p].mode = "evaluator"
    /\ pc \in [Probers -> Steps \cup {"off"}]
    /\ line \in [Probers -> Lines]
    /\ runs \in [Probers -> Nat]
    /\ job \in [Probers -> Jobs]
    /\ file \in Files \cup {None}
    /\ clones \subseteq Runs
    /\ alerts \subseteq Alerts
    /\ faults \subseteq Runs
    /\ ends \subseteq [run : Runs, end : {"pass", "fail", "killed"}]

Init ==
    /\ pc = [p \in Probers |-> "off"]
    /\ line = [p \in Probers |-> NoLine]
    /\ runs = [p \in Probers |-> 0]
    /\ job = [p \in Probers |-> NoJob]
    /\ file = None
    /\ clones = {} /\ alerts = {} /\ faults = {} /\ ends = {}
-----------------------------------------------------------------------------
(* How a step of a run goes on *)

Run(p)   == [by |-> p, n |-> runs[p]]
At(p, s) == pc[p] = s
Live(p)  == ~job[p].over

\* On to the next call with the locals j.
Goto(p, s, j) ==
    /\ pc' = [pc EXCEPT ![p] = s]
    /\ job' = [job EXCEPT ![p] = j]
    /\ UNCHANGED <<line, runs, ends>>

\* The probe is through, with an error or without.
Probed(p, j, failed) == Goto(p, "record", [j EXCEPT !.err = failed])

\* A call of the probe that changes nothing here: it returns while the deadline is not
\* over, or it fails.
Call(p, s) ==
    /\ \/ Live(p) /\ Goto(p, s, job[p])
       \/ Probed(p, job[p], TRUE)
    /\ UNCHANGED <<file, clones, alerts, faults>>

\* The last one.
LastCall(p) ==
    /\ \/ Live(p) /\ Probed(p, job[p], FALSE)
       \/ Probed(p, job[p], TRUE)
    /\ UNCHANGED <<file, clones, alerts, faults>>

\* The run is over and its process gone.
Ended(p, end) ==
    /\ pc' = [pc EXCEPT ![p] = "off"]
    /\ line' = [line EXCEPT ![p] = NoLine]
    /\ job' = [job EXCEPT ![p] = NoJob]
    /\ ends' = ends \cup {[run |-> Run(p), end |-> end]}
    /\ UNCHANGED runs
-----------------------------------------------------------------------------
(* main: the modes *)

FirstStep(l) == CASE l.mode = "clients" -> "github"
                  [] l.mode = "enroll"  -> IF l.dry THEN "enroll" ELSE "daemon"
                  [] OTHER              -> "resolve"

\* The CronJob fires, its controller restarts a failed run, or a person starts one.
Start(p) ==
    /\ At(p, "off") /\ runs[p] < MaxRuns
    /\ Overlap \/ \A q \in Probers : At(q, "off")
    /\ \E l \in CommandLines :
         /\ line' = [line EXCEPT ![p] = l]
         /\ pc' = [pc EXCEPT ![p] = FirstStep(l)]
    /\ runs' = [runs EXCEPT ![p] = @ + 1]
    /\ UNCHANGED <<job, file, clones, alerts, faults, ends>>

\* Mutant of Resolve: any other mode is taken for the evaluator.
ResolveAnyMode(p) ==
    /\ At(p, "resolve")
    /\ Goto(p, "parse", job[p])
    /\ \/ line[p].place = "local" /\ UNCHANGED clones
       \/ line[p].place = "clone" /\ Live(p) /\ clones' = clones \cup {Run(p)}
    /\ UNCHANGED <<file, alerts, faults>>

\* resolveTargetDir; only then is the mode found to be unknown.
Resolve(p) ==
    LET known == line[p].mode = "evaluator" IN
    /\ At(p, "resolve")
    /\ \/ /\ IF known THEN Goto(p, "parse", job[p]) ELSE Probed(p, job[p], TRUE)
          /\ \/ line[p].place = "local" /\ UNCHANGED clones
             \/ line[p].place = "clone" /\ Live(p) /\ clones' = clones \cup {Run(p)}
       \/ line[p].place = "clone" /\ Probed(p, job[p], TRUE) /\ UNCHANGED clones
    /\ UNCHANGED <<file, alerts, faults>>
-----------------------------------------------------------------------------
(* Evaluator mode *)

Local(p) == line[p].place = "local"

\* ParseTestDir counts every *_test.go file there is.
ParseTarget(p) ==
    /\ At(p, "parse")
    /\ \/ /\ Local(p) /\ file # None => ~file.torn
          /\ Goto(p, "evaluate",
                  [job[p] EXCEPT !.padded = IF Local(p) THEN file ELSE None])
       \/ Probed(p, job[p], TRUE)
    /\ UNCHANGED <<file, clones, alerts, faults>>

\* The LLM's verdict; a target without a next requirement is an error too.
EvaluateTarget(p) == At(p, "evaluate") /\ Call(p, "card")

\* The card from the LLM and the test built on it, parsed for its syntax.
MakeCard(p) == At(p, "card") /\ Call(p, "write")

Torn(p) == [run |-> Run(p), torn |-> TRUE]

\* os.WriteFile; when it fails half way, the file stays.
WriteProbe(p) ==
    /\ At(p, "write")
    /\ \/ /\ Goto(p, "build", job[p])
          /\ file' = IF Local(p) THEN [run |-> Run(p), torn |-> FALSE] ELSE file
       \/ /\ Probed(p, job[p], TRUE)
          /\ file' \in IF Local(p) THEN {file, Torn(p)} ELSE {file}
    /\ UNCHANGED <<clones, alerts, faults>>

\* What there is to compile when `go test` starts; it may not build, and the image has
\* no go to start.
BuildProbe(p) ==
    /\ At(p, "build")
    /\ \E saw \in {"broken",
                   IF ~Local(p) THEN "own"
                   ELSE IF file = None THEN "none"
                   ELSE IF file.torn THEN "broken"
                   ELSE IF file.run = Run(p) THEN "own" ELSE "other"} :
         Goto(p, "test", [job[p] EXCEPT !.saw = saw])
    /\ UNCHANGED <<file, clones, alerts, faults>>

\* What `go test ./...` may find: its own test fails, all tests pass, or something else
\* makes it fail (no build, another test, the deadline's kill).
Outcomes(p) ==
    CASE ~Live(p) \/ job[p].saw = "broken" -> {"blind"}
      [] Live(p) /\ job[p].saw = "own"     -> {"red", "green", "blind"}
      [] OTHER                             -> {"green", "blind"}

\* Mutant of RunTest: the probe file is not removed.
RunTestNoRemove(p) ==
    /\ At(p, "test")
    /\ \E o \in Outcomes(p) : Probed(p, [job[p] EXCEPT !.outcome = o], o = "green")
    /\ UNCHANGED <<file, clones, alerts, faults>>

\* Any error of `go test` counts as RED, and the probe file goes, whoever wrote it.
RunTest(p) ==
    /\ At(p, "test")
    /\ \E o \in Outcomes(p) : Probed(p, [job[p] EXCEPT !.outcome = o], o = "green")
    /\ file' = IF Local(p) THEN None ELSE file
    /\ UNCHANGED <<clones, alerts, faults>>
-----------------------------------------------------------------------------
(* Clients and enroll mode *)

\* The GitHub adapter: the mock, which neither fails nor looks at the deadline, or the
\* labels and main of the live repository.
ProbeGitHub(p) ==
    /\ At(p, "github")
    /\ \/ line[p].dry /\ Goto(p, "dcm", job[p]) /\ UNCHANGED <<file, clones, alerts, faults>>
       \/ ~line[p].dry /\ Call(p, "dcm")

\* The devcontainer-manager adapter, over gRPC in both cases.
ProbeDCM(p) == At(p, "dcm") /\ LastCall(p)

\* A dry run enrolls twice against mocks and compares.
FirstEnroll(p) == At(p, "enroll") /\ Call(p, "again")
SecondEnroll(p) == At(p, "again") /\ LastCall(p)

\* A live run asks the daemon, and takes any error of it for its absence.
AskDaemon(p) ==
    /\ At(p, "daemon")
    /\ \/ Live(p) /\ Probed(p, job[p], FALSE)
       \/ Goto(p, "direct", job[p])
    /\ UNCHANGED <<file, clones, alerts, faults>>

\* The pipeline in the prober's own process, under what is left of the deadline.
RunDirect(p) == At(p, "direct") /\ LastCall(p)

\* It panics on a specification without requirements (Enroll's PanicNoRequirement), and
\* nobody recovers: the process dies without recording, alert and metrics.
PanicDirect(p) ==
    /\ At(p, "direct") /\ Live(p)
    /\ Ended(p, "fail")
    /\ UNCHANGED <<file, clones, alerts, faults>>
-----------------------------------------------------------------------------
(* main: what follows the probe *)

\* The deadline of main's context passes: two minutes after the start.
Deadline(p) ==
    /\ pc[p] # "off" /\ Live(p)
    /\ job' = [job EXCEPT ![p].over = TRUE]
    /\ UNCHANGED <<pc, line, runs, file, clones, alerts, faults, ends>>

AfterAlert(p) == IF line[p].metrics = "off" THEN "exit" ELSE "listen"

\* recordProberResult; the alert is for failures.
Record(p) ==
    /\ At(p, "record")
    /\ Goto(p, IF job[p].err /\ line[p].filing # "off" THEN "search" ELSE AfterAlert(p), job[p])
    /\ UNCHANGED <<file, clones, alerts, faults>>

\* A call to GitHub fails under the alert's own 30 s context.
Fault(p) ==
    /\ Cardinality(faults) < MaxFaults
    /\ faults' = faults \cup {Run(p)}
    /\ Goto(p, AfterAlert(p), [job[p] EXCEPT !.filed = "failed"])

\* GET /search/issues: it answers from an index.
SearchIssues(p) == {i \in alerts : i.listed /\ i.title = line[p].mode}

\* No alert among them is open: one that was closed since may come with that state, which
\* the code looks at, or without.
NoneOpen(p) == \A i \in SearchIssues(p) : ~i.open

\* Mutant of SearchAlert: it runs under main's context.
SearchAlertUnderDeadline(p) ==
    /\ At(p, "search")
    /\ \/ /\ ~Live(p) \/ line[p].filing = "misnamed"
          /\ Goto(p, AfterAlert(p), [job[p] EXCEPT !.filed = "failed"])
       \/ /\ Live(p) /\ SearchIssues(p) # {}
          /\ Goto(p, AfterAlert(p), [job[p] EXCEPT !.filed = "found"])
       \/ Live(p) /\ NoneOpen(p) /\ Goto(p, "create", job[p])
    /\ UNCHANGED <<file, clones, alerts, faults>>

\* Mutant of SearchAlert: no search.
SearchAlertNever(p) ==
    /\ At(p, "search")
    /\ Goto(p, "create", job[p])
    /\ UNCHANGED <<file, clones, alerts, faults>>

\* An alert of the same title that the search has as open is left to speak for this
\* failure too; without a repository to search, the alert is given up.
SearchAlert(p) ==
    /\ At(p, "search")
    /\ IF line[p].filing = "misnamed"
       THEN /\ Goto(p, AfterAlert(p), [job[p] EXCEPT !.filed = "failed"])
            /\ UNCHANGED faults
       ELSE \/ /\ SearchIssues(p) # {}
               /\ Goto(p, AfterAlert(p), [job[p] EXCEPT !.filed = "found"])
               /\ UNCHANGED faults
            \/ NoneOpen(p) /\ Goto(p, "create", job[p]) /\ UNCHANGED faults
            \/ Fault(p)
    /\ UNCHANGED <<file, clones, alerts>>

\* A failed call may have opened the issue all the same; the search has it later.
CreateAlert(p) ==
    LET opened == alerts \cup
                    {[by |-> Run(p), title |-> line[p].mode, open |-> TRUE,
                      listed |-> FALSE]} IN
    /\ At(p, "create")
    /\ \/ /\ alerts' = opened
          /\ Goto(p, AfterAlert(p), [job[p] EXCEPT !.filed = "opened"])
          /\ UNCHANGED faults
       \/ alerts' \in {alerts, opened} /\ Fault(p)
    /\ UNCHANGED <<file, clones>>

\* serveMetricsUntilScraped; without its address it only warns.
Listen(p) ==
    /\ At(p, "listen")
    /\ \E s \in {"hold", "exit"} : Goto(p, s, job[p])
    /\ UNCHANGED <<file, clones, alerts, faults>>

\* Prometheus reads /metrics.
Scrape(p) ==
    /\ At(p, "hold") /\ ~job[p].scraped
    /\ Goto(p, "hold", [job[p] EXCEPT !.scraped = TRUE])
    /\ UNCHANGED <<file, clones, alerts, faults>>

\* Mutant of EndHold: the select has no case for the deadline.
EndHoldNoDeadline(p) ==
    /\ At(p, "hold")
    /\ job[p].scraped \/ line[p].metrics = "timed"
    /\ Goto(p, "exit", job[p])
    /\ UNCHANGED <<file, clones, alerts, faults>>

\* Scraped, held long enough, or main's context is over.
EndHold(p) ==
    /\ At(p, "hold")
    /\ job[p].scraped \/ line[p].metrics = "timed" \/ ~Live(p)
    /\ Goto(p, "exit", job[p])
    /\ UNCHANGED <<file, clones, alerts, faults>>

\* Mutant of Exit: os.Exit ends every run.
ExitBeforeCleanup(p) ==
    /\ At(p, "exit")
    /\ Ended(p, IF job[p].err THEN "fail" ELSE "pass")
    /\ UNCHANGED <<clones, file, alerts, faults>>

\* main returns and its deferred cleanup runs, or os.Exit(1) skips it.
Exit(p) ==
    /\ At(p, "exit")
    /\ Ended(p, IF job[p].err THEN "fail" ELSE "pass")
    /\ clones' = IF job[p].err THEN clones ELSE clones \ {Run(p)}
    /\ UNCHANGED <<file, alerts, faults>>
-----------------------------------------------------------------------------
(* The world around *)

\* The node, the memory limit or activeDeadlineSeconds kills the run, perhaps in the
\* middle of writing a file or cloning.
Kill(p) ==
    /\ pc[p] # "off"
    /\ Cardinality({e \in ends : e.end = "killed"}) < MaxKills
    /\ Ended(p, "killed")
    /\ file' \in IF At(p, "write") /\ Local(p) THEN {file, Torn(p)} ELSE {file}
    /\ clones' \in IF At(p, "resolve") /\ ~Local(p)
                   THEN {clones, clones \cup {Run(p)}} ELSE {clones}
    /\ UNCHANGED <<alerts, faults>>

\* A person resolves an alert.
CloseAlert ==
    /\ \E i \in alerts : i.open /\ alerts' = (alerts \ {i}) \cup {[i EXCEPT !.open = FALSE]}
    /\ UNCHANGED <<pc, line, runs, job, file, clones, faults, ends>>

\* GitHub's index takes in that an alert was opened or closed, sooner or later.
Reindex ==
    /\ \E i \in alerts : /\ i.listed # i.open
                        /\ alerts' = (alerts \ {i}) \cup {[i EXCEPT !.listed = i.open]}
    /\ UNCHANGED <<pc, line, runs, job, file, clones, faults, ends>>
-----------------------------------------------------------------------------
Step(p) ==
    \/ Resolve(p) \/ ParseTarget(p) \/ EvaluateTarget(p) \/ MakeCard(p) \/ WriteProbe(p)
    \/ BuildProbe(p) \/ RunTest(p) \/ ProbeGitHub(p) \/ ProbeDCM(p) \/ FirstEnroll(p)
    \/ SecondEnroll(p) \/ AskDaemon(p) \/ RunDirect(p) \/ PanicDirect(p) \/ Record(p)
    \/ SearchAlert(p) \/ CreateAlert(p) \/ Listen(p) \/ EndHold(p) \/ Exit(p)

Next ==
    \/ \E p \in Probers : Start(p) \/ Step(p) \/ Deadline(p) \/ Scrape(p) \/ Kill(p)
    \/ CloseAlert \/ Reindex

\* Calls return and time passes.  Nobody owes a scrape, and GitHub no index.
Fairness == \A p \in Probers : WF_vars(Step(p)) /\ WF_vars(Deadline(p))

Spec == Init /\ [][Next]_vars /\ Fairness
-----------------------------------------------------------------------------
(* Properties *)

\* "The prober will not file duplicate alert issues while an issue with this title remains
\* open" (alerter.go:224).
NoDuplicateAlert ==
    \A i, j \in alerts : i.open /\ j.open /\ i.title = j.title => i = j

\* Whoever searches, the index has every open alert of that title.
SearchComplete ==
    \A p \in Probers :
        At(p, "search") => \A i \in alerts : i.open /\ i.title = line[p].mode => i.listed

\* What the search is good for: while it never misses an open alert, there is one open
\* alert per failing probe, over restarts, kills, lost replies and people who close alerts,
\* as long as runs do not overlap; nothing but a lagging index makes two (alerter.go
\* 245-273).
OneAlertIfIndexed == []SearchComplete => []NoDuplicateAlert

\* A failed run that may file an alert, and names a repository for it, has one when it goes
\* on to its metrics, opened by itself or found (by the index, still open), unless GitHub
\* failed that very run: that the deadline is what failed it makes no difference (main.go
\* 173-175, 196).
FailureAlerted ==
    \A p \in Probers :
        At(p, "listen") \/ At(p, "hold") \/ At(p, "exit") =>
            (job[p].err /\ line[p].filing = "on" =>
                \/ /\ job[p].filed \in {"opened", "found"}
                   /\ \E i \in alerts : i.title = line[p].mode
                \/ job[p].filed = "failed" /\ Run(p) \in faults)

\* A score counts the repository's own tests only; the probe file of an earlier run gets
\* into it only if that run was killed (synthesizer.go 164-169, test_parser.go 33-56).
ScoreOfRepositoryTests ==
    \A p \in Probers :
        job[p].padded # None => [run |-> job[p].padded.run, end |-> "killed"] \in ends

\* What a finished run leaves on disk, it leaves by failing or by being killed; a whole
\* probe file only by being killed (main.go 149, 184-186; synthesizer.go 164-169).
LeftoversExplained ==
    \A e \in ends :
        /\ e.end = "pass" => e.run \notin clones
        /\ e.end = "pass" /\ file # None => file.run # e.run
        /\ e.end = "fail" /\ file # None /\ file.run = e.run => file.torn

\* Every run ends, scraped or not.
RunEnds == \A p \in Probers : pc[p] # "off" ~> pc[p] = "off"

\* A run that passes in evaluator mode has seen its own test fail: it "verifies that the
\* test properly fails (RED) against the un-implemented server" (synthesizer.go 161-162).
RedIsOwnTest ==
    \A p \in Probers :
        At(p, "exit") /\ line[p].mode = "evaluator" /\ ~job[p].err =>
            job[p].outcome = "red"
=============================================================================
