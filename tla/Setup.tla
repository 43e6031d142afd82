-------------------------------- MODULE Setup --------------------------------
(***************************************************************************)
(* `speculate init` (pkg/setup/setup.go): it scaffolds a clone, configures *)
(* the GitHub repository, carries the scaffolding to main through a pull   *)
(* request, and protects main with a ruleset.  One action is one call that *)
(* Run makes.  A run may be killed or fail at any call and be started      *)
(* again on what it left: the clone, the remote branch, the pull requests. *)
(* Meanwhile people edit and push, and GitHub runs the workflows that the  *)
(* scaffolding installs.                                                   *)
(*                                                                         *)
(* A tree is a version of each part of a checkout.  Git is modelled by its *)
(* rules: a checkout carries uncommitted changes over or refuses, and a    *)
(* pull request merges its branch three-way against where it was cut.      *)
(***************************************************************************)
EXTENDS Integers, Sequences

CONSTANTS
    None,      \* the absent value
    Mains,     \* the trees that main may start as
    Modes,     \* the ways to start a run: flags, and whether the token is an admin's
    MaxRuns,   \* bound: runs
    MaxEdits   \* bound: new versions of the seed files

\* The parts Run generates: 0 absent, 1 as generated, 2 the owner's own. The seed files
\* (proto/*.proto and specs/*.md) are the people's, and are staged with the rest.
Generated == {"directories", "templates", "module", "tests"}
Parts     == Generated \cup {"seed"}

\* The repositories of interest were never scaffolded.
ASSUME MainsType == Mains \subseteq {t \in [Parts -> 0..2] : t["directories"] = 0}
ASSUME ModesType == Modes \subseteq [admin : BOOLEAN, force : BOOLEAN, skip : BOOLEAN]
ASSUME BoundsType == {MaxRuns, MaxEdits} \subseteq Nat

VARIABLES
    pc,         \* the next call of Run, "idle" when no run is under way
    run,        \* the flags and local variables of the latest run
    result,     \* how the latest run ended
    runs,       \* runs started
    on,         \* the branch that the clone has checked out
    localMain,  \* the clone's main
    branch,     \* the clone's feature branch
    work,       \* the clone's working tree
    main,       \* main on GitHub
    remote,     \* the feature branch on GitHub
    prs,        \* the pull requests of that branch, oldest first
    settings,   \* the repository settings that runs have turned on
    secret,     \* the PERSONAL_TOKEN secret exists
    ruleset,    \* the ruleset "main" is active
    seedIssues, \* open seed issues
    edits       \* versions of the seed files made by people

local  == <<on, localMain, branch, work>>
github == <<main, remote, prs, settings, secret, ruleset, seedIssues>>
vars   == <<pc, run, result, runs, local, github, edits>>
-----------------------------------------------------------------------------
(* Types *)

Trees  == [Parts -> Nat]
\* A branch: its tree, and the tree of main that it was cut from.
Branches == [tree : Trees, base : Trees]
\* Whether auto-merge is on needs no field: an open pull request that can be merged may be
\* merged at any time, by GitHub or by a person.
PRs    == [state : {"open", "merged", "closed"}, checks : {"pending", "ok", "failed"}]
NewPR  == [state |-> "open", checks |-> "pending"]
OpenPR(n) == prs[n].state = "open"

\* perms: perms.Admin. pr: prURL, 0 for none. pushed is history: what the run pushed.
Runs   == [admin : BOOLEAN, force : BOOLEAN, skip : BOOLEAN, perms : BOOLEAN,
           pr : Nat, pushed : Branches \cup {None}]
Local(m) == [admin |-> m.admin, force |-> m.force, skip |-> m.skip, perms |-> FALSE,
             pr |-> 0, pushed |-> None]
Calls  == {"directories", "templates", "module", "tests", "verify", "permissions", "merge",
           "collaborator", "actions", "secret", "check", "branch", "commit", "push", "find",
           "create", "relist", "automerge", "poll", "checkout", "pull", "delete", "ruleset",
           "seedcheck", "seedlist", "seedcreate"}

\* Every variable keeps the shape the code gives it; the clone is never left on a branch
\* that does not exist, commits and pushes happen on the feature branch and pulls on main; a
\* run works with a pull request that exists, and at most one of the branch is open.
TypeOK ==
    /\ pc \in Calls \cup {"idle"} /\ result \in {"none", "running", "completed", "failed"}
    /\ run \in Runs \cup {None} /\ (pc # "idle" => run \in Runs /\ run.pr \in 0..Len(prs))
    /\ pc \in {"automerge", "poll"} => run.pr # 0
    /\ runs \in Nat /\ edits \in Nat
    /\ localMain \in Trees /\ work \in Trees /\ branch \in Branches \cup {None}
    /\ on \in {"main", "feature"} /\ (on = "feature" => branch \in Branches)
    /\ pc \in {"commit", "push"} => on = "feature"
    /\ pc \in {"pull", "delete"} => on = "main"
    /\ main \in Trees /\ remote \in Branches \cup {None}
    /\ prs \in Seq(PRs) /\ (\A m, n \in DOMAIN prs : OpenPR(m) /\ OpenPR(n) => m = n)
    /\ settings \subseteq {"merge", "collaborator", "actions"}
    /\ secret \in BOOLEAN /\ ruleset \in BOOLEAN /\ seedIssues \in Nat

\* A fresh clone of a repository that no run has touched.
Init ==
    /\ pc = "idle" /\ run = None /\ result = "none" /\ runs = 0 /\ edits = 0
    /\ main \in Mains /\ on = "main" /\ localMain = main /\ work = main /\ branch = None
    /\ remote = None /\ prs = <<>> /\ settings = {} /\ secret = FALSE
    /\ ruleset = FALSE /\ seedIssues = 0
-----------------------------------------------------------------------------
(* Git and GitHub *)

HEAD == IF on = "main" THEN localMain ELSE branch.tree

\* Mutant of Switched: checkout --force.
SwitchedForced(w, h, b) == b

\* git checkout from commit h to commit b carries the uncommitted changes of tree w over;
\* it refuses when b and the uncommitted changes touch the same part.
Switchable(w, h, b) == \A i \in Parts : w[i] = h[i] \/ h[i] = b[i] \/ w[i] = b[i]
Switched(w, h, b)   == [i \in Parts |-> IF w[i] = h[i] THEN b[i] ELSE w[i]]

\* A squash merge changes what the branch changed since it was cut.
Mergeable(b)  == \A i \in Parts : b.tree[i] = b.base[i] \/ main[i] \in {b.base[i], b.tree[i]}
MergedTree(b) == [i \in Parts |-> IF b.tree[i] = b.base[i] THEN main[i] ELSE b.tree[i]]

NoOpenPR  == \A n \in DOMAIN prs : ~OpenPR(n)

\* The ruleset requires the checks. ConfigureRepoSettings has branches deleted on merge.
CanMerge(n) == OpenPR(n) /\ remote # None /\ Mergeable(remote) /\ (ruleset => prs[n].checks = "ok")
Merge(n) ==
    /\ CanMerge(n)
    /\ main' = MergedTree(remote)
    /\ prs' = [prs EXCEPT ![n].state = "merged"]
    /\ remote' = IF "merge" \in settings THEN None ELSE remote

\* `gh pr merge --auto --squash` on an open pull request: it merges at once what can be
\* merged, else leaves it to GitHub if the repository allows auto-merge.
Arm(n) ==
    \/ Merge(n)
    \/ OpenPR(n) /\ "merge" \in settings /\ UNCHANGED <<main, prs, remote>>
-----------------------------------------------------------------------------
(* The run *)

Goto(step)  == pc' = step /\ UNCHANGED <<result, runs, edits>>
Complete    == pc' = "idle" /\ result' = "completed" /\ UNCHANGED <<run, runs, edits>>
Fail        == /\ pc' = "idle" /\ result' = "failed" /\ run' = None
               /\ UNCHANGED <<runs, edits, local, github>>

Start(m) ==
    /\ pc = "idle" /\ runs < MaxRuns
    /\ runs' = runs + 1 /\ run' = Local(m) /\ result' = "running" /\ pc' = "directories"
    /\ UNCHANGED <<local, github, edits>>

\* A returned error, Ctrl-C or a kill, before or after the call took effect.
Abort == pc # "idle" /\ Fail

\* SetupDirectories, EnsureGoModule, EnsurePassingTests: write what is absent.
Generate(i, next) ==
    /\ pc = i /\ Goto(next)
    /\ work' = IF work[i] = 0 THEN [work EXCEPT ![i] = 1] ELSE work
    /\ UNCHANGED <<run, on, localMain, branch, github>>

\* A file that differs from its template is overwritten if forced or if the user says so.
SetupTemplateFiles ==
    /\ pc = "templates" /\ Goto("module")
    /\ \E overwrite \in BOOLEAN :
         /\ run.force => overwrite
         /\ work' = IF overwrite \/ work["templates"] = 0 THEN [work EXCEPT !["templates"] = 1]
                    ELSE work
    /\ UNCHANGED <<run, on, localMain, branch, github>>

\* Failing tests end the run (Abort).
VerifyLocalTests == pc = "verify" /\ Goto("permissions") /\ UNCHANGED <<run, local, github>>

\* An error is taken for the lack of permissions.
CheckPermissions ==
    /\ pc = "permissions"
    /\ \E granted \in BOOLEAN :
         /\ granted => run.admin
         /\ run' = [run EXCEPT !.perms = granted]
         /\ Goto(IF granted THEN "merge" ELSE "check")
    /\ UNCHANGED <<local, github>>

\* ConfigureRepoSettings, ConfigureCollaborator (if one is named) and
\* ConfigureWorkflowPermissions: errors only warn.
Configure(setting, next) ==
    /\ pc = setting /\ Goto(next)
    /\ settings' \in {settings, settings \cup {setting}}
    /\ UNCHANGED <<run, local, main, remote, prs, secret, ruleset, seedIssues>>

\* An existing secret is kept unless forced; every failure to provide one ends the run.
EnsurePersonalToken ==
    /\ pc = "secret" /\ Goto("check")
    /\ secret' = TRUE
    /\ UNCHANGED <<run, local, main, remote, prs, settings, ruleset, seedIssues>>

\* Everything is staged; without a difference from HEAD there is nothing to do but seeds.
CheckScaffoldingChanges ==
    /\ pc = "check"
    /\ Goto(CASE work = HEAD                      -> "seedcheck"
              [] work # HEAD /\ ~run.skip         -> "branch"
              [] work # HEAD /\ run.skip          -> IF run.perms THEN "ruleset" ELSE "seedcheck")
    /\ UNCHANGED <<run, local, github>>

\* checkout -b, or checkout -B of an existing branch, which cuts it anew from local main.
CheckoutBranch ==
    /\ pc = "branch"
    /\ IF branch # None /\ ~Switchable(work, HEAD, localMain) THEN Fail
       ELSE /\ Goto("commit")
            /\ on' = "feature" /\ branch' = [tree |-> localMain, base |-> localMain]
            /\ work' = Switched(work, HEAD, localMain)
            /\ UNCHANGED <<run, localMain, github>>

Commit ==
    /\ pc = "commit" /\ Goto("push")
    /\ branch' = [branch EXCEPT !.tree = work]
    /\ UNCHANGED <<run, on, localMain, work, github>>

\* --force-with-lease, then --force: the remote branch is replaced whatever it holds, and
\* the checks of an open pull request start over.
Push ==
    /\ pc = "push" /\ Goto("find")
    /\ remote' = branch
    /\ run' = [run EXCEPT !.pushed = branch]
    /\ prs' = [n \in DOMAIN prs |-> IF OpenPR(n) THEN [prs[n] EXCEPT !.checks = "pending"] ELSE prs[n]]
    /\ UNCHANGED <<local, main, settings, secret, ruleset, seedIssues>>

\* Mutant of FindPR: pull requests of any state are listed.
FindPRAnyState ==
    /\ pc \in {"find", "relist"}
    /\ \/ \E n \in DOMAIN prs :
            run' = [run EXCEPT !.pr = n] /\ Goto("automerge") /\ UNCHANGED <<local, github>>
       \/ prs = <<>> /\ pc = "find" /\ Goto("create") /\ UNCHANGED <<run, local, github>>
       \/ prs = <<>> /\ pc = "relist" /\ Fail

\* findOpenPRURL, before the attempt to create and after it failed.
FindPR ==
    /\ pc \in {"find", "relist"}
    /\ \/ \E n \in DOMAIN prs :
            OpenPR(n) /\ run' = [run EXCEPT !.pr = n] /\ Goto("automerge") /\ UNCHANGED <<local, github>>
       \/ NoOpenPR /\ pc = "find" /\ Goto("create") /\ UNCHANGED <<run, local, github>>
       \/ NoOpenPR /\ pc = "relist" /\ Fail

\* gh refuses when the branch is gone or has an open pull request already.
CreatePR ==
    /\ pc = "create"
    /\ IF NoOpenPR /\ remote # None
       THEN /\ Goto("automerge")
            /\ prs' = Append(prs, NewPR)
            /\ run' = [run EXCEPT !.pr = Len(prs) + 1]
            /\ UNCHANGED <<local, main, remote, settings, secret, ruleset, seedIssues>>
       ELSE Goto("relist") /\ UNCHANGED <<run, local, github>>

\* A merged pull request is left as it is; a closed one is an error.
EnableAutoMerge ==
    /\ pc = "automerge"
    /\ \/ /\ Goto("poll") /\ Arm(run.pr)
          /\ UNCHANGED <<run, local, settings, secret, ruleset, seedIssues>>
       \/ prs[run.pr].state = "merged" /\ Goto("poll") /\ UNCHANGED <<run, local, github>>
       \/ OpenPR(run.pr) /\ ~CanMerge(run.pr) /\ "merge" \notin settings /\ Fail
       \/ prs[run.pr].state = "closed" /\ Fail

\* Mutant of PollPRStatus: a closed pull request is done with.
PollPRStatusClosedIsDone ==
    /\ pc = "poll"
    /\ \/ prs[run.pr].checks = "failed" /\ Fail
       \/ /\ prs[run.pr].checks # "failed" /\ ~OpenPR(run.pr)
          /\ Goto("checkout") /\ UNCHANGED <<run, local, github>>

\* A failed check ends the run even if the pull request is merged; an open pull request
\* is asked about again until the time is up.
PollPRStatus ==
    /\ pc = "poll"
    /\ LET pr == prs[run.pr] IN
       \/ pr.checks = "failed" /\ Fail
       \/ pr.checks # "failed" /\ pr.state = "closed" /\ Fail
       \/ /\ pr.checks # "failed" /\ pr.state = "merged"
          /\ Goto("checkout") /\ UNCHANGED <<run, local, github>>

\* Mutant of PollTimeout: no deadline is set, and polling goes on.
PollTimeoutUnset == pc = "poll" /\ UNCHANGED vars

PollTimeout == pc = "poll" /\ Fail

\* Mutant of CheckoutMain: the clone stays on the feature branch.
CheckoutMainForgotten == pc = "checkout" /\ Goto("pull") /\ UNCHANGED <<run, local, github>>

CheckoutMain ==
    /\ pc = "checkout"
    /\ IF ~Switchable(work, HEAD, localMain) THEN Fail
       ELSE /\ Goto("pull")
            /\ on' = "main" /\ work' = Switched(work, HEAD, localMain)
            /\ UNCHANGED <<run, localMain, branch, github>>

\* Mutant of PullMain: what was merged is not fetched.
PullMainForgotten == pc = "pull" /\ Goto("delete") /\ UNCHANGED <<run, local, github>>

\* The clone's main has no commits of its own: the pull is a fast-forward.
PullMain ==
    /\ pc = "pull"
    /\ IF ~Switchable(work, localMain, main) THEN Fail
       ELSE /\ Goto("delete")
            /\ localMain' = main /\ work' = Switched(work, localMain, main)
            /\ UNCHANGED <<run, on, branch, github>>

DeleteBranch ==
    /\ pc = "delete" /\ Goto(IF run.perms THEN "ruleset" ELSE "seedcheck")
    /\ branch' = None
    /\ UNCHANGED <<run, on, localMain, work, github>>

ConfigureRulesets ==
    /\ pc = "ruleset" /\ Goto("seedcheck")
    /\ ruleset' = TRUE
    /\ UNCHANGED <<run, local, main, remote, prs, settings, secret, seedIssues>>

\* finalizeSeedCheck: whatever fails here, the run has completed.
CheckSeedFiles ==
    /\ pc = "seedcheck"
    /\ IF work["seed"] # 0 THEN Complete ELSE Goto("seedlist") /\ UNCHANGED run
    /\ UNCHANGED <<local, github>>

\* Mutant of ListSeedIssues: an open issue is not looked for.
ListSeedIssuesForgotten ==
    /\ pc = "seedlist"
    /\ Goto("seedcreate") /\ UNCHANGED <<run, local, github>>

ListSeedIssues ==
    /\ pc = "seedlist"
    /\ \/ Complete
       \/ seedIssues = 0 /\ Goto("seedcreate") /\ UNCHANGED run
    /\ UNCHANGED <<local, github>>

CreateSeedIssue ==
    /\ pc = "seedcreate" /\ Complete
    /\ seedIssues' \in {seedIssues, seedIssues + 1}
    /\ UNCHANGED <<local, main, remote, prs, settings, secret, ruleset>>

RunStep ==
    \/ Generate("directories", "templates") \/ SetupTemplateFiles
    \/ Generate("module", "tests") \/ Generate("tests", "verify") \/ VerifyLocalTests
    \/ CheckPermissions \/ Configure("merge", "collaborator")
    \/ Configure("collaborator", "actions") \/ Configure("actions", "secret")
    \/ EnsurePersonalToken \/ CheckScaffoldingChanges
    \/ CheckoutBranch \/ Commit \/ Push \/ FindPR \/ CreatePR \/ EnableAutoMerge
    \/ PollPRStatus \/ PollTimeout \/ CheckoutMain \/ PullMain \/ DeleteBranch
    \/ ConfigureRulesets \/ CheckSeedFiles \/ ListSeedIssues \/ CreateSeedIssue
-----------------------------------------------------------------------------
(* People and GitHub *)

Outside == UNCHANGED <<pc, run, result, runs>>

\* Someone writes seed files in the clone, at any time.
EditSeed ==
    /\ edits < MaxEdits /\ edits' = edits + 1
    /\ work' = [work EXCEPT !["seed"] = edits' + 2]
    /\ Outside /\ UNCHANGED <<on, localMain, branch, github>>

\* A teammate's seed files reach main.
PushSeed ==
    /\ edits < MaxEdits /\ edits' = edits + 1
    /\ main' = [main EXCEPT !["seed"] = edits' + 2]
    /\ Outside /\ UNCHANGED <<local, remote, prs, settings, secret, ruleset, seedIssues>>

\* After a run has ended on the feature branch its user may go back to main by hand.
GoBackToMain ==
    /\ pc = "idle" /\ on = "feature" /\ Switchable(work, HEAD, localMain)
    /\ on' = "main" /\ work' = Switched(work, HEAD, localMain)
    /\ Outside /\ UNCHANGED <<localMain, branch, github, edits>>

UpdateMain ==
    /\ pc = "idle" /\ on = "main" /\ localMain # main /\ Switchable(work, localMain, main)
    /\ localMain' = main /\ work' = Switched(work, localMain, main)
    /\ Outside /\ UNCHANGED <<on, branch, github, edits>>

\* create-pr.yml, which a pushed branch carries. It leaves a branch alone that ever had a
\* pull request (gh pr view shows closed ones too).
CreatePRWorkflow ==
    /\ remote # None /\ remote.tree["templates"] = 1 /\ (secret \/ "actions" \in settings)
    /\ prs = <<>> /\ prs' = <<NewPR>>
    /\ Outside /\ UNCHANGED <<local, main, remote, settings, secret, ruleset, seedIssues, edits>>

\* A check of a pull request's head reports, for the first time or after a rerun.
ReportChecks ==
    /\ \E n \in DOMAIN prs, outcome \in {"ok", "failed"} :
         prs[n].state # "closed" /\ prs' = [prs EXCEPT ![n].checks = outcome]
    /\ Outside /\ UNCHANGED <<local, main, remote, settings, secret, ruleset, seedIssues, edits>>

\* By a person, by auto-merge.yml, or by GitHub once auto-merge is on.
MergePR ==
    /\ \E n \in DOMAIN prs : Merge(n)
    /\ Outside /\ UNCHANGED <<local, settings, secret, ruleset, seedIssues, edits>>

ClosePR ==
    /\ \E n \in DOMAIN prs : OpenPR(n) /\ prs' = [prs EXCEPT ![n].state = "closed"]
    /\ Outside /\ UNCHANGED <<local, main, remote, settings, secret, ruleset, seedIssues, edits>>

\* Enroll closes the seed issue, or a person does.
CloseSeedIssue ==
    /\ seedIssues > 0 /\ seedIssues' = seedIssues - 1
    /\ Outside /\ UNCHANGED <<local, main, remote, prs, settings, secret, ruleset, edits>>

Environment ==
    \/ EditSeed \/ PushSeed \/ GoBackToMain \/ UpdateMain \/ CreatePRWorkflow
    \/ ReportChecks \/ MergePR \/ ClosePR \/ CloseSeedIssue

Next == (\E m \in Modes : Start(m)) \/ RunStep \/ Abort \/ Environment

\* The calls of a run return; nobody need start, stop or help one.
Spec == Init /\ [][Next]_vars /\ WF_vars(RunStep)
-----------------------------------------------------------------------------
(* Properties *)

Scaffolded(t) == \A i \in Generated : t[i] # 0
Merged == result = "completed" /\ run.pr # 0

\* The ruleset is laid on main only after the scaffolding that this run pushed is there:
\* whichever pull request the run found, made or lost a race for, it is the one that
\* carried its push, and it was merged (Run's steps 9 to 14).
RulesetAfterMerge ==
    [][ruleset' /\ ~ruleset /\ ~run.skip =>
         /\ run.pr # 0 /\ prs[run.pr].state = "merged"
         /\ \A i \in Generated :
              run.pushed.tree[i] # run.pushed.base[i] => main[i] = run.pushed.tree[i]]_vars

\* A completed run that went through a pull request leaves the clone on main, in step
\* with GitHub in all that runs generate, the feature branch gone (SyncMainBranch).
LocalInSync ==
    Merged => /\ on = "main" /\ branch = None
              /\ \A i \in Generated : work[i] = main[i] /\ localMain[i] = main[i]

\* The first run on a repository, if it completes, leaves main scaffolded, and protected
\* if the run found itself admin, whatever GitHub, its workflows and the people did
\* meanwhile. (Of later runs this does not hold: see the next section.)
FirstRunDelivers ==
    runs = 1 /\ result = "completed" /\ ~run.skip =>
        Scaffolded(main) /\ (run.perms => ruleset)

\* What people wrote to the seed files of the clone and did not commit survives every
\* checkout and pull of a run: git refuses, and the run fails, before it is overwritten.
UncommittedKept ==
    [][work["seed"] # HEAD["seed"] /\ edits' = edits => work'["seed"] = work["seed"]]_vars

\* Runs and reruns, killed between any two calls, never open a second seed issue.
OneSeedIssue == seedIssues <= 1

\* A run ends, though nobody merges or closes its pull request and no check reports.
RunEnds == pc # "idle" ~> pc = "idle"
-----------------------------------------------------------------------------
(* What the program says of itself and does not keep *)

\* "Run 'speculate init --token=<admin-token>' as repository owner to apply rulesets."
\* (setup.go:1441): a run with admin permissions that completes has main protected.
AdminRunProtects == result = "completed" /\ run.perms => ruleset

\* "Initial speculate scaffolding (directory structure, GitHub workflows, and
\* CODEOWNERS)." (setup.go:1013, the body of the pull request): once it is merged and
\* the run has completed, main is scaffolded.
MergedRunScaffolds == Merged => Scaffolded(main)
=============================================================================
