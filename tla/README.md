# Speculate, specified

TLA+ modules, model-checking configurations and machine-checked proofs for
`speculate`, the program in this repository that enrols Git repositories into an
alignment loop: it measures how well a repository's tests cover its written
specification, publishes the score as a README badge, and keeps one open issue
asking for the next missing test.

Every definition is translated from the Go source; `PROJECT.json` maps each one to
the lines it stands for.

## The system

| Part | State it keeps | Operations | Interacts with |
|---|---|---|---|
| Enroll handler, `cmd/speculate/server.go` | a singleflight group: one flight per *spelling* of a repository | `Enroll` | clients (gRPC); runs the pipeline in the leader's goroutine under the leader's context |
| Pipeline, `pkg/enroll/pipeline.go` | locals of one enrollment | `Enroll`: clone, seed issue, evaluate, labels, badge, store, loop issue, store | git, GitHub client, evaluator, synthesizer, store |
| Store, `pkg/pstore` | one record per `owner/repo`, in pstore or (fallback) in memory | `SaveEnrollment`, `GetEnrollment` | pstore (gRPC) |
| GitHub client, `pkg/github` | none; GitHub's issues, labels, files, branches, pull requests | issue, label, badge, branch, PR calls; `ParseRepo` | GitHub (REST) |
| Evaluator, `pkg/evaluator/evaluator.go` | coverage per requirement, stage metrics | `Evaluate`: heuristics, then the LLM, then the frontier | LLM client |
| LLM client, `pkg/evaluator/client.go` | attempt counter, backoff | `Complete`: bounded retries | an OpenAI-compatible HTTP endpoint |
| Parser, `pkg/parser` | none | spec files and test files to data | files |
| Synthesizer, `pkg/synthesizer` | files of the probed package | `GenerateScenarioCard`, `SynthesizeTest`, `MutationProbe` | LLM client, `go test` |
| Setup, `pkg/setup/setup.go` | the working copy, a branch, a pull request, repository settings | `Run`: scaffold, test, commit, push, PR, wait for the merge, rulesets, seed issue | git, `gh`, GitHub (REST) |
| Workflow templates, `pkg/setup/templates.go` | GitHub workflow runs | review gate, auto-merge, tests, create-PR | GitHub Actions |
| Prober, `cmd/prober/main.go` | metrics of one run | evaluator, clients and enroll probes, alert, metrics until scraped | all of the above |
| Alerter, `pkg/alerter` | none; the alert issue | `HandleProberFailure`: search, create | GitHub (REST) |
| DCM client, `pkg/dcm` | a compose environment | `Up`, `WaitForReady`, `HealthCheck`, `Down` | docker |
| Daemon, `cmd/speculate/main.go` | servers, the choice of the store | start, signal, stop | Kubernetes |

The behaviours that are hard: concurrent calls for one repository, calls to GitHub
that take effect although their reply is lost, contexts that end half-way, a
daemon that dies between two calls and comes back without its in-memory store,
people who push, edit the README and close issues meanwhile, retries of what was
half done. `PROJECT.json` lists each hazard at its line.

What makes each part correct:

- *Enroll handler*: a call is answered, whatever becomes of its leader; one pipeline
  per repository at a time.
- *Pipeline and store*: one open loop issue per repository; a seed issue is closed
  only with its notice; an answer of success is backed by record, labels and badge; the
  record names an issue that exists, never goes back, keeps its enrollment time; people's
  README edits survive.
- *Evaluator*: the score is 100 only if every requirement has a test; below 100 there is
  a requirement to ask for, and what it builds on has tests.
- *LLM client*: at most the configured attempts, retrying only what can pass, none after
  the context ends.
- *Setup*: a run ends; the ruleset comes only after what the run pushed was merged; the
  first run that completes delivers; people's uncommitted files survive; one seed issue.
- *Prober and alerter*: a failing probe leads to an alert, and to one open alert issue as long as
  GitHub's search misses none; a run ends; it leaves files behind only by failing or being
  killed, and none that falsify a later score.
- *Review gate*: protected files are merged on the owner's approval only; the owner is asked
  for it; once given, it turns the check green.

## Modules

### `Enroll`: handler, pipeline, GitHub, store

One action per call the pipeline makes to the outside; `pc[c]` names the call that
the pipeline led by caller `c` makes next.

| Model | Code |
|---|---|
| `status`, `key`, `answer`, `ctx` | an open `Enroll` RPC of a client: idle, waiting on a flight, leading one, answered; the trimmed request string; what it returned; its context |
| `flight` | the map of `singleflight.Group` |
| `pc`, `job` | where `Pipeline.Enroll` stands, and its locals. `job[c].misread` is history: whether `GetEnrollment` failed |
| `issues`, `issueCount`, `labels`, `readme`, `head` | the repository on GitHub |
| `record` | the enrollment store |
| `clock`, `faults`, `crashes`, `calls` | time, and the counters the bounds are on |
| `RejectBlank`, `Call`, `Finish` | `server.go` 34-53 |
| `Parse` ... `Save` | `pipeline.go` 80-321, call by call |
| `CallFails`, `LostReply` | the call fails without effect; it takes effect and fails |
| `PanicNoRequirement` | `combinedSpec.Stages[0].Requirements[0]` of a specification without requirements |
| `Crash`, `Cancel`, `Push`, `CloseByHand`, `EditReadme`, `Tick` | the world |

A context goes `live` -> `ending` -> `gone`. The call on the wire when it ends may
have taken effect (`ending`); a call begun later has none (`gone` matters after the two
reads whose error the code swallows: README.md and the record). The in-memory store
looks at no context.

Data is reduced to what the properties tell apart: a score, an issue number, a
revision, a README of a human part and a badge. The LLM may return any score; a
specification without requirements scores 0.

Assumed of the outside, and not in `src/`: a write that GitHub or pstore applies is
applied no later than its failure is reported; GitHub's issue list shows an issue once
its creation was answered; people close loop issues but do not open or reopen them.

### `EnrollProofs`

The theorems about `Enroll`, see below.

### `Ledger` and `EnrollLedger`: what enrollment promises

`Ledger` is the abstract specification. Per repository it knows three things: the numbers of the
loop issues ever opened, those that are open, and the verdict in the store. Loop issues are
opened one at a time under fresh numbers; people close them; a verdict is fully aligned, or
names a loop issue that was opened in that repository; an in-memory store forgets.
There is no call, no pipeline and no caller in it.

`EnrollLedger` maps the state of `Enroll` to it: `issues` to the numbers opened and open,
`record` to the verdict. `KeepsPromise` (`Promise!Spec`) says that every step of handler,
pipeline and world is a step of the ledger or a stutter: an issue is opened atomically although
looking for one and creating it are two calls, and a verdict is entered although the issue
it names was created calls before.

### `EnrollLedgerProofs`, `EnrollRecordProofs`

The refinement and two invariants of `Enroll`; and what store, labels and README hold of a
repository while pipelines come and go. See below.

### `MCEnroll`

Instances for TLC: two callers, one or two repositories and spellings.

### `Setup`: `speculate init`

`Run` (`setup.go` 1252-1447) is sequential; what makes it hard is that it works on state
it shares with git, GitHub, the workflows it installs itself and people, that it may stop
at any call, and that it is then run again on what it left. One action per call; `pc`
names the next.

| Model | Code |
|---|---|
| `run`, `result`, `runs` | the flags and locals of the latest run (`perms`, `prURL`; `pushed` is history), how it ended, how many were started |
| `on`, `localMain`, `branch`, `work` | the clone: what is checked out, its main, its feature branch, the working tree |
| `main`, `remote`, `prs` | GitHub: main, the pushed feature branch, its pull requests |
| `settings`, `secret`, `ruleset`, `seedIssues` | what the repository is configured with, and the open seed issues |
| `Generate`, `SetupTemplateFiles` | steps 1-5: write what is absent; overwrite a differing template if forced or told to |
| `VerifyLocalTests` ... `CheckScaffoldingChanges` | steps 6-8 |
| `CheckoutBranch`, `Commit`, `Push`, `FindPR`, `CreatePR` | `GitCommitAndPushBranch` and `CreatePullRequest`, call by call |
| `EnableAutoMerge`, `PollPRStatus`, `PollTimeout` | `EnableAutoMerge`, `PollPRStatus` |
| `CheckoutMain`, `PullMain`, `DeleteBranch` | `SyncMainBranch` |
| `ConfigureRulesets`, `CheckSeedFiles`, `ListSeedIssues`, `CreateSeedIssue` | the ruleset and `finalizeSeedCheck` |
| `Abort` | a returned error, Ctrl-C or a kill before or after the call took effect |
| `Start` | a run, with any of the flags |
| `EditSeed`, `PushSeed`, `GoBackToMain`, `UpdateMain`, `MergePR`, `ClosePR`, `CloseSeedIssue` | people (and GitHub's auto-merge) |
| `CreatePRWorkflow`, `ReportChecks` | the installed workflows |

A tree is a version of each of five parts: the four that `Run` generates and the seed
files, which people write and `Run` stages with the rest. Git is modelled by its rules on
such trees: a checkout or a fast-forward carries uncommitted changes over, or refuses
when both sides touch a part; a squash merge applies what the branch changed since it
was cut, and conflicts when main changed it otherwise. These rules, GitHub's merge rules
and the ruleset's required checks are not in `src/` and are marked external.

Whether auto-merge is on is no state of its own: an open, mergeable pull request may be
merged at any time anyway, by a person. The clone has one user who commits nothing to
main by hand. `GitCommitAndPush` and `SetRulesetEnforcement` have no caller and are left
out. Two things that `src/README.md` says are noted here and are not runs: line 156 has
the commit pushed to `origin HEAD` and line 164 the ruleset paused meanwhile, which was
so before pull requests; and line 143 has `create-pr.yml` look for an *open* pull request,
where `gh pr view` finds a closed one too, so that after one was closed the workflow opens
no other (`CreatePRWorkflow`).

### `SetupProofs`, `SetupDeliveryProofs`

The theorems about `Setup`, see below: what a run may do on its way, and what it leaves when
it completes.

### `MCSetup`

Instances for TLC: an empty main and one with the owner's own workflows, module and
tests; a collaborator, an owner, an owner who skips the push. An owner's run takes every way of a
collaborator's (when the permissions cannot be read) and of a forced one (when the questions
are answered with yes), so `setup_runs` starts runs by an owner, with and without the push.

### `Evaluator`: evaluator, LLM client, choice of the next requirement

The evaluator turns a specification and the cloned tests into a score and a frontier;
the pipeline asks for the first requirement that is missing there. In between lies the
retry loop of the client.

| Model | Code |
|---|---|
| `spec` | the stages of all files of `specs/`, appended (`pipeline.go` 139-164): name, dependencies, number of requirements |
| `Id` | the ID that the parser gives a requirement: its stage's name and its place in it |
| `tested`, `suite` | what the tests on main exercise; what those that were cloned do |
| `pc`, `attempt`, `ended` | where the evaluation stands, the loop variable of `Complete`, the caller's context |
| `covered`, `score` | the IDs whose status is covered, `result.Percentage` |
| `asked` | the requirement in the loop issue that is created |
| `Evaluate` | the heuristics of `Evaluate`, and its way out when there are no test scenarios |
| `Attempt`, `SendFails`, `BadStatus`, `BadReply`, `Elapsed`, `WaitEnds` | `OllamaClient.Complete` |
| `Reply` | an answer, and what `queryLLMCoverage` and `Evaluate` make of it |
| `Percentage`, `StageCompletion`, `Ready`, `Frontier`, `PopulateMetrics` | `PopulateMetrics` |
| `Candidates`, `Choose`, `GiveUp` | `pipeline.go` 249-274, and every way not to get there |
| `PushTests`, `EndContext` | people; the caller |

The LLM is taken at its best. What it says is covered has a test, but it may answer for
any part of the requirements only. So whatever goes wrong with the score goes wrong in
the code around it. `Judged` is why IDs matter: answers are matched by ID, in the order in
which the requirements were asked about.

`Percentage` is `int(float64(c) / float64(t) * 100)`. In binary floating point the exact
results 29, 57 and 58 come out one short (29 of 50, say, gives 57 for 58): the quotient is
that of 29/100 and so on, whatever the two numbers. No other result differs from integer
division, since one that is no integer is further from the next than rounding reaches.

An empty stage is never completed, so that it stays the frontier with no requirement to
offer, and stages in a circle are never ready. The evaluator then names no next
requirement below 100, or names a stage at 100; the pipeline copes by falling back to
the first uncovered requirement of all. `SomethingToAsk` says that this suffices.

The loop issue that is already open is `Enroll`'s matter; a mere error of the
evaluation, too. The lengths of the waits, the badge's URL and the reading of the files
are left out.

### `Appraisal`: what an evaluation promises

`Appraisal` is the abstract specification: what the pipeline takes an evaluation to be. The
tests, as they were when it began, are judged in one stroke; that gives a score, or nothing.
What is found covered is tested. The score never flatters, is short of the exact percentage by
less than 2, and is 100 exactly when all is covered. Below 100 a requirement is asked for
that this judgement found missing, and that, if the specification is in order, builds on what it
found. There are no attempts, replies, IDs or stages in it.

`Evaluator` maps itself to it at its end: wherever it stands in the retry loop, or before its
metrics, it is `judging`; what is covered counts from the score on (`Found`), and stages become what
each requirement builds on (`Needs`). `JudgesInOneStroke` (`Judgement!Spec`) says that every
step of client, evaluator, pipeline and people is a step of `Appraisal` or a stutter. It is also
what entitles `Enroll` to make the evaluation one step: its action `Evaluate` is `Judge`, with the
score drawn from `Percentages` (within 0 to 100, and 0 for a specification without requirements),
`CallFails` is `GiveUp`, and `MakeCard` starts from `Ask`.

### `EvaluatorProofs`

The theorems about `Evaluator`, see below.

### `Prober`: prober, alerter, mutation probe

A run of the prober is one process with one deadline of 120 s, under which it clones or
finds the target, probes, runs `go test`, and holds its metrics for a scrape. Only the alert
has a context of its own.

| Model | Code |
|---|---|
| `pc`, `line`, `runs` | what the run of a prober does next, its flags, how many were started |
| `job` | `runErr`, whether the deadline has passed, what became of the alert and the scrape; what `go test` found; `padded` and `saw` are history |
| `file` | `mutation_probe_test.go` in a local target directory, which outlives the run |
| `clones` | temporary clones on disk |
| `alerts` | the alert issues on GitHub: open or closed, and whether the search has them as open (`listed`) |
| `faults`, `ends` | history: whose alert GitHub failed, and how each run ended |
| `Resolve` | `resolveTargetDir` and the choice of the mode |
| `ParseTarget` ... `MakeCard` | `runEvaluatorProber` up to the mutation probe |
| `WriteProbe`, `BuildProbe`, `RunTest` | `MutationProbe` (`synthesizer.go`): write, `go test`, remove |
| `ProbeGitHub`, `ProbeDCM` | `runClientsProber` |
| `FirstEnroll`, `SecondEnroll`, `AskDaemon`, `RunDirect`, `PanicDirect` | `runEnrollProber`, dry and live; the pipeline's panic on a specification without requirements |
| `Record`, `SearchAlert`, `CreateAlert` | `recordProberResult`, `HandleProberFailure` (`alerter.go`), its error for a repository that does not parse included |
| `SearchIssues`, `NoneOpen`, `Reindex` | `GET /search/issues` and the index it answers from |
| `Listen`, `Scrape`, `EndHold`, `Exit` | `serveMetricsUntilScraped`, the deferred cleanup, `os.Exit` |
| `Start`, `Kill`, `Deadline`, `CloseAlert` | CronJob (`k8s/cronjob-prober.yaml`) or person, kernel or Kubernetes, time, people |

The alerter looks for an open alert with GitHub's issue search, which answers from an index that
trails the issues. An alert is created unlisted, a closed one stays listed, until `Reindex`; when
that comes is up to GitHub and may be never. An alert that is listed but closed is passed over if
the answer shows its state, and found if it does not. An alert found open makes a second
failure silent; so the state keeps no text of an alert. Metric values are left out. The file of a run in a clone is nobody
else's and is not tracked. What the live enroll mode does to a repository is `Enroll`'s:
`RunDirect` is a pipeline outside the daemon's singleflight group, as a second spelling is
(`enroll_spellings`).

### `ProberProofs`

The theorems about `Prober`, see below.

### `MCProber`

Command lines for TLC: the evaluator on a local directory and on a clone, the other modes
live and dry, with filing, without it and for a repository that does not parse, and a mode that
`main` does not know.

### `ReviewGate`: the installed workflow `review-gate.yml`

GitHub starts one run of this workflow per push and per review; runs work side by side on
whatever the pull request has become by then. One action per `gh` call.

| Model | Code |
|---|---|
| `branch` | the head and whether it changes protected files; `older`, the heads that pushes replaced |
| `pr` | the pull request, its author, whether the owner is asked |
| `reviews` | the owner's reviews (nobody else's are looked at) |
| `runs` | the runs in the order of their events; `at` is the next `gh` call or the conclusion |
| `Inspect` | `templates.go` 95-120: diff and author, which never changes and is read with it |
| `ReadRequests`, `RequestReview` | 122-127 |
| `ReadReviews` | 129-148 |
| `ListFailed`, `Rerun` | 135-142: an approval reruns the failed runs of its commit |
| `CallFails` | `bash -e`, the default shell of a step |
| `Green`, `Merge` | the check a ruleset waits for (`setup.go` 756-766), merging by auto-merge or hand |
| `Push`, `Reopen`, `Review`, `Dismiss`, `Close` | the events, lines 54-66, and people; a push may be forced and bring an older head back, with the runs it had |

Left out: an edit of a review's text, which starts a run like another comment, and what the
merge waits for besides (the check `test`, the code owners' review), which can only make
merges fewer. How GitHub makes one check of several runs is not in `src/`; the model takes
the last run that has begun for each kind of event.

Two limits of the workflow show in how the properties are worded. GitHub may merge between
the dismissal of an approval and the beginning of the run that would turn the check red, and
between a forced push back to a head that is green (because its pull request was approved
then) and the beginning of the run for that push: `MergedApproved` excepts just these
(`CheckBehind`). And an approval only reruns runs that *have failed* by
then: one that is still under way with the old reviews stays red until the next event, and
a run that ended on a failed call is not rerun if the diff is by then unprotected.
`ApprovalReleases` therefore speaks of an approval that comes when the other runs are over.

### `ReviewGateProofs`

The theorems about `ReviewGate`, see below.

### `MCEvaluator`

Specifications for TLC: a chain, one written backwards, a fork, a circle, an unknown
dependency, an empty stage, nothing but an empty stage, and two files with a stage of the
same name. It also checks `Percentage` for up to 300 requirements.

## Runs

| Run | Question | Bounds |
|---|---|---|
| `enroll_calls` | Does every call get its answer, with blank and unparsable requests, clients that leave, people's README edits and a crash that empties the in-memory store, and does the emptied store bring no second loop issue? | 2 callers, 2 calls each, a valid and an invalid spelling, 1 fault, 1 crash, 1 README edit |
| `enroll_retries` | Do issues, record and answers stay consistent over retries, and is the ledger kept? | 2 callers (symmetric), 2 calls each, any 1 call fails or loses its reply, 1 crash, 1 push, 3 issues, scores 40 and 100, 2 clock values |
| `enroll_spellings` | Is one repository under two spellings deduplicated? It is not. | 2 callers, 2 spellings of one repository, no faults |
| `setup_runs` | What does a completed run promise, what may no run do, and does every run end, wherever earlier runs stopped and whatever people and GitHub leave undone? | 2 runs, 1 edit, both starting trees, an owner with and without the push |
| `setup_admin` | Does an admin's completed run leave main protected? It may not. | 2 runs, 1 edit, the empty tree, a collaborator or an owner |
| `setup_rerun` | Does a run that merged its pull request leave main scaffolded? It may not. | 2 runs, 1 edit, the empty tree, a collaborator or an owner |
| `evaluator_scores` | Do score and next requirement mean what they say, is each evaluation one judgement on the cloned tests, and does it end? | 7 specifications of at most 4 requirements, 3 attempts |
| `evaluator_names` | Does a score of 100 mean the same if stages share a name? It does not. | the same, and 1 specification of two files |
| `prober` | One alert per failing probe while no search misses one, and no failure without, only explained leftovers, own tests in the score, an end to every run? | 3 runs in any of 7 command lines, 1 failing alert, 1 kill |
| `prober_alerts` | Does the search before it keep the alerter from a second alert? It does not. | 2 runs on a clone as in the CronJob, 1 failing alert, 1 kill |
| `prober_red` | Has a passing mutation probe seen its own test fail? Not necessarily. | 2 runs on a clone as in the CronJob, 1 failing alert, 1 kill |
| `review_gate` | Is nothing protected merged unapproved, is the owner asked, does an approval release the check? | 3 pushes, 4 runs (the first and three events of any kind), 1 review and its dismissal, 1 failing call, by the owner or another |

Two callers are enough for every race of the group: a third caller joins a flight
like the second, and the proofs hold for any number. Two calls per caller give a
retry after every way a first one can end. One fault, one crash and one push can
fall between any two steps. The third issue lets a loop issue be closed and a second
one opened. The callers of `enroll_retries` are interchangeable (no definition tells them apart and
the run checks no liveness), so TLC explores them up to symmetry. Deadlock is not checked:
a bounded number of calls ends.

Two runs of `init` are enough for a rerun on everything a first run can leave behind:
`Abort` stops the first anywhere, and people may move the clone, the branch and the
pull request in between. One edit may fall between any two calls, in the clone or on
main; it is the third version of the seed files beside those of the clone and of main.
The number of pull requests needs no bound: a run opens at most one, the workflow one.
`RunEnds` is checked with `setup_runs`, on the same states as the promises.
Deadlock is not checked: `init` is over when no run is left to start.

`Evaluator` needs no bound besides its constants: its state space is finite, though tests
come and go and evaluations follow each other for ever. Four requirements make three
stages in each of the shapes that dependencies can have; three attempts have a first, a
middle and a last one.

Three runs of the prober let a third one find what one failed and one killed run left, and
an alert that a person closed in between, with the index behind on any of them; more faults and
kills only repeat these. Three pushes make a pull request with two revisions and a forced return
to the first, so that every run may be about the head, about an older one, or about one that
comes back. Four runs are the first and three events, of any kind and in any order: an
approval, its dismissal and a push or reopening before, between or after; or two pushes and a
review. All four runs may be under way at once.
Deadlock is not checked in either: no run, and no event, is left to come.

Fairness: every call a pipeline makes returns, with a result or an error
(`WF_vars(PipelineStep(c))`): git, GitHub, pstore and the LLM client are all called
under a context or a client timeout and the goroutine is scheduled. Nothing is owed by
callers, people or the clock. For `init`, likewise: the call a run is at returns
(`WF_vars(RunStep)`), prompts included, and polling ends at `PollTimeout`. Nothing is
owed by people, GitHub's merges, checks or workflows: `RunEnds` holds although the pull
request may stay open for ever. For the prober: its calls return and the deadline passes
(`WF` of `Step` and `Deadline`), which all of its clients observe; nobody owes a scrape, and
`RunEnds` holds without one, even if the hold has no timeout of its own; and GitHub owes its
index no update. For the review gate:
the calls of its runs return (`WF` of `SomeRunSteps`; GitHub ends a step that hangs), and
since they are finitely many until the next event, it needs no fairness between runs.

### What the violations show

`enroll_spellings`. The comment on `SpeculateServer.Enroll` promises deduplication "for the same
repository", but the group's key is the trimmed request string; `o/r`,
`https://github.com/o/r` and `o/r.git` get a flight each and two pipelines run on one
repository. The theorems below say that this is the only way: with one spelling per
repository, it cannot happen.

`setup_admin`. The last line of a run without admin permissions tells the owner to run
`init` again to apply the rulesets. But the second run finds the clone equal to HEAD and
returns after the seed check, before it gets to the ruleset; so does the rerun of an
admin whose first run stopped after its commit.

`setup_rerun`. A run that stops after its commit leaves the clone on the feature branch
with the scaffolding committed there. If seed files changed since, the next run cuts
the branch anew from main with `checkout -B`, which drops the committed scaffolding from
branch and working tree, then commits, pushes and merges the seed files alone and reports
completion. `FirstRunDelivers` says that a first run does deliver, and this is why it
speaks of the first only.

`evaluator_names`. The parser numbers the requirements within their stage and names them
after it, the pipeline appends the stages of every file, and the evaluator keeps one status
per ID. If two files each have a stage "Core", an answer for the first requirement of the one
is an answer for that of the other, and both are counted: one test of two makes 100, and no
test is asked for. `HundredMeansTested` says that this is the only way.

`prober_alerts`. The text of every alert promises that no duplicate is filed "while an issue with
this title remains open". But the search that is to see to this asks an index, and a new issue is
not in it at once. The CronJob restarts a failed run (`restartPolicy: OnFailure`), which may
search again before it is, find nothing, and create a second alert of the same title; so does a
run after one whose create call took effect although its reply was lost. `OneAlertIfIndexed` says that
a lagging index is the only way.

`prober_red`. `MutationProbe` takes every error of `go test` for the failure of the generated
test: a missing `go`, a test that does not compile, another failing test, the deadline's
kill. The CronJob's image contains no `go`, so that there the probe passes whatever the test
is worth.

## Proofs

`EnrollProofs` proves, for any callers, spellings, repositories, scores and bounds:

| Theorem | States |
|---|---|
| `TypeCorrect` | `Spec => []TypeOK` |
| `FlightsAreLed` | `Spec => []FlightsLed` |
| `OnePipeline` | `OneSpelling => (Spec => []OnePipelinePerRepo)` |
| `OneIssue` | `OneSpelling => (Spec => []OneOpenLoopIssue)` |

Assumed: the named assumptions of `Enroll` on its constants, and for the last two
`OneSpelling`: no repository has two spellings, what the handler takes for granted.

The argument. `FlightInv` is the book-keeping of the group: exactly the leaders run
pipelines, a leader is entered as its spelling's flight, a flight's entry is a running
leader, a waiting call's spelling has a flight. Alone it is inductive with `TypeOK`
(`FlightsKept`); `FlightsLed` does not say that entries are leaders, and so is not.
Under `OneSpelling` it gives one pipeline per repository (`AloneOnRepo`).
`OneOpenLoopIssue` needs `CreatorInv`: while a pipeline is about to create a loop
issue none is open. It holds because a pipeline gets there only past the empty
answer of `FindOpenIssueByLabel` (`ReachesCreate`), because nobody else opens one in
its repository meanwhile (`AloneOnRepo`), and because every other step opens none
(`Settles`).

`EnrollLedgerProofs` proves, for any of the same:

| Theorem | States |
|---|---|
| `NoticeFirst` | `Spec => []SeedClosedWithNotice` |
| `VerdictsNameIssues` | `Spec => []RecordNamesIssue` |
| `LedgerKept` | `OneSpelling => (Spec => KeepsPromise)` |

The argument. `BookInv` is what a pipeline knows at each call: which seed issue it found and
that it is commented on before it is closed, that the issue it will save was opened in its
repository, and that there is none yet, or none to be, before. It survives what other
pipelines, people and crashes do because issues are never removed nor renumbered (`Grows`,
`Kept`) and numbers are handed out once (`NumInv`). The first two theorems need no
`OneSpelling`. The refinement does, in one place: when an issue is created none is open
(`CreatorInv`). `enroll_retries` shows it with a durable store; the theorem covers the
in-memory one as well, whose `Forget` needs the daemon to die. (That an emptied store brings no
second loop issue is checked in `enroll_calls`, too.)

`EnrollRecordProofs` proves, for any of the same:

| Theorem | States |
|---|---|
| `NoOlderVerdict` | `OneSpelling => (Spec => RecordMonotone)` |
| `FirstTimeKept` | `OneSpelling => (Spec => EnrolledAtKept)` |
| `SuccessIsBacked` | `OneSpelling => (Spec => AnswerBacked)` |
| `EditsOfReadmeSurvive` | `Spec => NoLostReadmeEdit` |

Assumed: the named assumptions of `Enroll`, and `NoneNoRecord` of `EnrollLedger` (the absent
record is none).

The argument. The first three speak of the step that saves, and what it saves was read and
written calls before. `RecordInv` says what a pipeline knows at each call: from the clone
on, the record is of no later revision than the clone (`KnowsMain`); from reading the record on,
it is of no later time than the pipeline's, and the first time is the one it read
(`KnowsTime`); from making the labels on, they are all there (`KnowsLabels`); and from writing the
badge on, it is the score, also when the README already had it and nothing was written
(`KnowsBase`, `KnowsBadge`). This knowledge is about a record, labels and a README that
others write too: it survives because only a pipeline gives verdicts, badges and labels, and only
to its own repository (`PipelineUndisturbed`), of which it is the only one under `OneSpelling`
(`OthersUndisturbed`). Pushes, edits, the clock, closed issues and the death of the process at most
forget the record (`WorldUndisturbed`, `DieUndisturbed`). A call answered with success is
answered by the step that saves (`OnlySaveSucceeds`, `SuccessSaves`), whose pipeline knows all
four (`SaveKnows`). With two spellings two pipelines overtake each other, and the first three
fail. The fourth does not need any of this: the write of the badge is refused when the README is
not the version that was read.

`SetupProofs` proves, for any starting trees, ways to run and bounds:

| Theorem | States |
|---|---|
| `SetupTypeCorrect` | `Spec => []TypeOK` |
| `RulesetComesAfterMerge` | `Spec => RulesetAfterMerge` |
| `EditsSurvive` | `Spec => UncommittedKept` |
| `NeverTwoSeedIssues` | `Spec => []OneSeedIssue` |

Assumed: the named assumptions of `Setup` on its constants.

The argument. `TypeOK` carries what the calls rely on: a run that is past finding its
pull request has one, commits happen on the feature branch and pulls on main, and at
most one pull request is open (`CreatePR` and the workflow see none open before they
open one). `RulesetAfterMerge` speaks of one step and needs the invariant `PRInv` over
everything before it: from its push on, the remote branch is what the run pushed, or
gone; from the moment the run holds a pull request, no other can be open, so that whatever
merge happens is one of the run's own push, and if that pull request is merged, main
has the pushed parts; past polling it is merged. The step lemmas come in four shapes: a
step outside the stretch from branch to ruleset (`EarlyOrLate`), one that opens and
merges nothing (`Quiet`), a merge by whomever (`MergeCarries`, `MergedPR`), and the few
that establish a part (`PushPR`, `FindPRPR`, `CreatePRPR`). `OneSeedIssue` is inductive
only with `SeedInv`: none is open when one is about to be created. `EditsSurvive`
follows from `TypeOK` and the rule of git that a switch keeps what differs from HEAD
(`SwitchKeeps`).

`SetupDeliveryProofs` proves, from the same assumptions and on top of `PRInv`:

| Theorem | States |
|---|---|
| `ClonesStayInSync` | `Spec => []LocalInSync` |
| `FirstRunsDeliver` | `Spec => []FirstRunDelivers` |

The argument. For `LocalInSync`, `SyncInv` follows what the run generated: from the commit
to the return to main the working tree agrees with HEAD in all of it (`Committed`), so that
the checkout and the pull take it from main; and once the run's own pull request is merged
no other is open (`NoneOpen`), so that main does not move on under the clone
(`Synchronised`). For `FirstRunDelivers`, `DeliveryInv` adds that everything has been
generated by the time it is committed (`Written`), that on the first run nothing was ever
pushed (`Untouched`: main has no directories, so that the run cannot find its clone equal to
HEAD and skip the commit), and that what it pushes is scaffolded, and main once it is
merged (`Delivers`, `Delivered`). `Untouched` is what a second run lacks.

`EvaluatorProofs` proves, for any specifications and number of attempts:

| Theorem | States |
|---|---|
| `EvaluatorTypeCorrect` | `Spec => []TypeOK` |
| `HundredMeansTested` | `Spec => [](UniqueNames => FullScoreTested)` |
| `AlwaysSomethingToAsk` | `Spec => []SomethingToAsk` |
| `DependenciesAreTested` | `Spec => []DependenciesFirst` |
| `OneJudgement` | `UniqueSpecs => (Spec => JudgesInOneStroke)` |

Assumed: the named assumptions of `Evaluator` on its constants. `UniqueNames` and
`WellFormed` are conditions of the properties, on the specification at hand. `UniqueSpecs` says
that no specification has two stages of one name; `evaluator_names` shows why it is needed.

The argument. `TypeOK` is not inductive: that the loop variable stays in its range needs
`Waits` (a wait is for an attempt that is left), and that the requirement asked for exists
needs `Scored` (a score is that of the statuses as they are). The latter gives
`SomethingToAsk` with `FullScore`: the score is 100 exactly when everything is covered,
because a part is less than 100 percent (`PartBelow`), the whole is 100 (`WholeIs100`), and
a subset of the same cardinality is the set. `JudgedFairly` carries what the LLM said to
the tests that were cloned, by unique names (`ReplyFair`). `DependenciesFirst` rests on a
minimal counterexample: of the stages that are not completed, one of the least rank has
only completed dependencies (`SomeReady`), so that there is a frontier, it has an uncovered
requirement, and the pipeline needs no fallback (`CandidatesReady`).

The refinement goes step by step. An evaluation that is under way has no score (`Scored`), so
that attempts, waits and replies are stutters (`Unseen`); a failure anywhere is `GiveUp`
(`FailGivesUp`). The step that matters is `PopulateMetrics` (`MetricsJudge`): that the score means
what it says is arithmetic of the integer division and the three results that come out one
short (`Quotient`, `PercentageHonest`, `ScoreMeans`). `Choose` is `Ask` by `CandidateLeft` and
`ChooseAsked` (`ChooseAsks`).

`ProberProofs` proves, for any probers, command lines and bounds:

| Theorem | States |
|---|---|
| `ProberTypeCorrect` | `Spec => []TypeOK` |
| `FailuresAreAlerted` | `Spec => []FailureAlerted` |
| `OneAlert` | `~Overlap => (Spec => OneAlertIfIndexed)` |
| `LeftoversAreExplained` | `Spec => []LeftoversExplained` |
| `ScoresAreOwn` | `~Overlap => (Spec => []ScoreOfRepositoryTests)` |

`~Overlap` is what `concurrencyPolicy: Forbid` gives: no run starts while one is under way. A
prober started by hand beside the CronJob breaks it, and two then do open two alerts or
read each other's probe file.

`OneAlertIfIndexed` is `[]SearchComplete => []NoDuplicateAlert`: whoever searches, the index
has every open alert of that title. Nothing guarantees that; without it, `prober_alerts` is what
happens.

The argument. For `OneAlert`: who is about to create an alert searched an index that missed
none, so that none is open (`Cleared`), and nobody else is there to open one (`Alone`);
`NextAlert` shows that every step keeps this as long as `SearchComplete` holds. For `LeftoversAreExplained`: the
probe file on disk belongs to a run that is between writing and removing it, or that was killed,
or that tore it (`FileInv`); a run that passed has removed its clone (`PassedCloneGone`); and a
run ends once (`EndsInv`). `ScoresAreOwn` adds that nobody writes the file while another
run parses it.

`ReviewGateProofs` proves, for any authors and bounds:

| Theorem | States |
|---|---|
| `GateTypeCorrect` | `Spec => []TypeOK` |
| `MergesAreApproved` | `Spec => MergedApproved` |
| `OwnerIsAsked` | `Spec => []OwnerAsked` |

The argument. `MergedApproved` speaks of the step that merges; what holds all along is
`Answered`: if a pull request that needs an approval has none (any more), then either no run on its
head has passed, or none has since some run `k` on it (`Answers`) that is for a review, or that is
on a head which a push brought back. It is inductive: a run passes only after seeing an
approval, or no need for one (`StepCalls`); a dismissal brings the run `k` with it (`SameHead`); a push
to a new revision moves the head past all runs (`NoneAhead`), and a forced push to an older one
brings its own run (`PushGate`). When the check is green, the last runs that have begun have
passed. So some run on the head has passed, and the run `k`, or one of its event after it, has
not begun: that is `CheckBehind`, the exception that the property makes.

`OwnerAsked` is about a gate that is through; before that, `Asking` holds: while no call has
failed, a pull request that waits for the owner has asked, or has a run that is still on its way
to ask. Every event that could make it untrue, a push of protected files, a dismissal, a review
that takes the request away, brings a run that starts from the beginning (`EventAsks`); and the
runs that list and rerun others never touch one that is under way (`ListMoves`).

Model-checked only: `EveryCallAnswered`, `RunEnds` of `Setup` and of `Prober`, `EvaluationEnds`
and `ApprovalReleases`, because liveness is out of the prover's reach. Every invariant and
every action property of the passing runs is a theorem, and so are both refinements and
`OneAlertIfIndexed`.

What the properties do not catch, because they are worded around it: a record read with an error
that the pipeline takes for no record (`misread` in `EnrolledAtKept`); the probe file of a killed
run, or of a write that failed half-way, and the clones of failed runs
(`ScoreOfRepositoryTests`, `LeftoversExplained`); an owner who was not asked because the call
failed (`OwnerAsked`); an approval that arrives while other runs are under way
(`ApprovalReleases`). The hazards in `PROJECT.json` say so at their lines.
The scores at which floating-point division comes out one short need at least fifty requirements;
no run gets there, and what covers them is the assumption on `Percentage` in `MCEvaluator`,
which TLC evaluates for up to 300, and the theorems, which hold for any number.

## Not modelled

- The data-chain manager client beyond the prober's check of it: `Up`, `PushPrompt` and
  `WaitForReady` have no caller but one against the in-process mock, whose containers are
  ready at once.
- Branches, pull requests and merges of `pkg/github`: no caller.
- `SynthesizeTest`: no caller.
- The parsing of specification and test files, beyond what the evaluator sees of it: text to
  data, without state.
- `auto-merge.yml` and `tests.yml`: `Setup` and `ReviewGate` let GitHub merge, and checks
  report, at any time they may. The `status` and `check_suite` triggers of auto-merge look
  up a pull request by `--head` with a commit, where `gh` expects a branch; they find none, and
  the `pull_request` trigger is what enables auto-merge.
- The daemon's listening, health service and graceful stop; the flags of the commands: I/O.
- The generated Go of the protocol, the example service: no logic of speculate's own.
