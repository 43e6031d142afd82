------------------------ MODULE SetupDeliveryProofs ------------------------
(* What a run of `speculate init` that completes leaves in the clone and on main, *)
(* whatever people and workflows do meanwhile.                                    *)
EXTENDS SetupProofs

Same(s, t) == \A i \in Generated : s[i] = t[i]

\* The calls before there is a pull request.
Before == {"directories", "templates", "module", "tests", "verify", "permissions", "merge",
           "collaborator", "actions", "secret", "check", "branch", "commit", "push", "find",
           "create", "relist"}
\* The calls between the commit and the return to main.
Clean == {"push", "find", "create", "relist", "automerge", "poll", "checkout", "pull"}
Last  == {"ruleset", "seedcheck", "seedlist", "seedcreate"}

Phases ==
    /\ pc # "idle" => result = "running"
    /\ result = "completed" => run \in Runs
    /\ pc \in Before => run.pr = 0

\* A run does not touch what it generated once it has committed it.
Committed == pc \in Clean => Same(work, HEAD)

\* The run is past its pull request.
Through ==
    /\ pc \in Last \cup {"delete"} \/ result = "completed"
    /\ run.pr # 0

Synchronised ==
    Through => /\ on = "main" /\ (pc # "delete" => branch = None)
               /\ DOMAIN prs # {} /\ NoOpenPR
               /\ Same(localMain, main) /\ Same(work, main)

SyncInv == Phases /\ Committed /\ Synchronised

LEMMA StepPhases == TypeOK /\ Phases /\ [Next]_vars => Phases'
  <1> SUFFICES ASSUME TypeOK, Phases, [Next]_vars PROVE Phases'
    OBVIOUS
  <1>1. CASE UNCHANGED <<pc, run, result>>
    BY <1>1 DEF Phases
  <1>2. CASE Fail
    BY <1>2 DEF Fail, Phases, Before
  <1>3. CASE Complete /\ pc # "idle"
    BY <1>3 DEF Complete, Phases, Before, TypeOK
  <1>4. ASSUME pc # "idle", NEW step, Goto(step), run' = run,
               step \in Before => pc \in Before, step # "idle"
        PROVE  Phases'
    BY <1>4 DEF Goto, Phases
  <1>5. CASE CheckPermissions
    BY <1>5 DEF CheckPermissions, Goto, Phases, Before, TypeOK, Runs
  <1>6. CASE Push
    BY <1>6 DEF Push, Goto, Phases, Before, TypeOK, Runs
  <1>7. CASE \E n \in DOMAIN prs : run' = [run EXCEPT !.pr = n] /\ pc # "idle" /\ Goto("automerge")
    BY <1>7 DEF Goto, Phases, Before, TypeOK, Runs
  <1>8. CASE run' = [run EXCEPT !.pr = Len(prs) + 1] /\ pc # "idle" /\ Goto("automerge")
    BY <1>8 DEF Goto, Phases, Before, TypeOK, Runs
  <1>9. CASE \E m \in Modes : Start(m)
    BY <1>9 DEF Start, Local, Phases
  <1>10. CASE RunStep
    <2>1. CASE \/ Generate("directories", "templates") \/ SetupTemplateFiles
               \/ Generate("module", "tests") \/ Generate("tests", "verify")
               \/ VerifyLocalTests \/ Configure("merge", "collaborator")
               \/ Configure("collaborator", "actions") \/ Configure("actions", "secret")
               \/ EnsurePersonalToken \/ CheckScaffoldingChanges \/ Commit
      BY <2>1, <1>4 DEF Generate, SetupTemplateFiles, VerifyLocalTests, Configure,
         EnsurePersonalToken, CheckScaffoldingChanges, Commit, Before
    <2>2. CASE CheckoutBranch
      BY <2>2, <1>2, <1>4 DEF CheckoutBranch, Before
    <2>3. CASE FindPR
      BY <2>3, <1>2, <1>4, <1>7 DEF FindPR, Before
    <2>4. CASE CreatePR
      BY <2>4, <1>4, <1>8 DEF CreatePR, Before
    <2>5. CASE EnableAutoMerge \/ PollPRStatus \/ PollTimeout
      BY <2>5, <1>2, <1>4 DEF EnableAutoMerge, PollPRStatus, PollTimeout, Before
    <2>6. CASE CheckoutMain \/ PullMain \/ DeleteBranch \/ ConfigureRulesets
      BY <2>6, <1>2, <1>4 DEF CheckoutMain, PullMain, DeleteBranch, ConfigureRulesets, Before
    <2>7. CASE CheckSeedFiles \/ ListSeedIssues \/ CreateSeedIssue
      BY <2>7, <1>3, <1>4 DEF CheckSeedFiles, ListSeedIssues, CreateSeedIssue, Before
    <2> QED
      BY <1>10, <1>5, <1>6, <2>1, <2>2, <2>3, <2>4, <2>5, <2>6, <2>7 DEF RunStep
  <1>11. CASE Environment
    BY <1>11, <1>1 DEF Environment, EditSeed, PushSeed, GoBackToMain, UpdateMain,
       CreatePRWorkflow, ReportChecks, MergePR, ClosePR, CloseSeedIssue, Outside
  <1> QED
    BY <1>1, <1>2, <1>9, <1>10, <1>11 DEF Next, Abort, vars

\* A checkout or pull from a tree that agrees in all that runs generate.
LEMMA SwitchSame ==
    ASSUME NEW w, NEW h, NEW b, Same(w, h) PROVE Same(Switched(w, h, b), b)
  BY DEF Same, Switched, Parts

LEMMA EditSame ==
    ASSUME NEW w \in Trees, NEW v, NEW t, Same(w, t)
    PROVE  Same([w EXCEPT !["seed"] = v], t) /\ Same(t, [w EXCEPT !["seed"] = v])
  BY DEF Same, Trees, Generated, Parts

LEMMA StepCommitted == TypeOK /\ Committed /\ [Next]_vars => Committed'
  <1> SUFFICES ASSUME TypeOK, Committed, [Next]_vars PROVE Committed'
    OBVIOUS
  <1>1. CASE UNCHANGED local /\ (pc' \in Clean => pc \in Clean)
    BY <1>1 DEF local, Committed, Same, HEAD
  <1>2. CASE pc' \notin Clean
    BY <1>2 DEF Committed
  <1>3. CASE Commit
    BY <1>3 DEF Commit, Committed, Same, HEAD, TypeOK, Branches
  <1>4. CASE CheckoutMain /\ ~Fail
    BY <1>4, SwitchSame DEF CheckoutMain, Committed, HEAD, Clean
  <1>5. CASE EditSeed
    BY <1>5, EditSame DEF EditSeed, Outside, Committed, HEAD, TypeOK
  <1>6. CASE RunStep
    BY <1>6, <1>1, <1>2, <1>3, <1>4
       DEF RunStep, Generate, SetupTemplateFiles, VerifyLocalTests, CheckPermissions,
           Configure, EnsurePersonalToken, CheckScaffoldingChanges, CheckoutBranch,
           Push, FindPR, CreatePR, EnableAutoMerge, PollPRStatus, PollTimeout, CheckoutMain,
           PullMain, DeleteBranch, ConfigureRulesets, CheckSeedFiles, ListSeedIssues,
           CreateSeedIssue, Goto, Fail, Complete, Clean
  <1>7. CASE Environment
    BY <1>7, <1>1, <1>2, <1>5
       DEF Environment, PushSeed, GoBackToMain, UpdateMain, CreatePRWorkflow,
           ReportChecks, MergePR, ClosePR, CloseSeedIssue, Outside, local, Clean
  <1> QED
    BY <1>1, <1>2, <1>6, <1>7 DEF Next, Abort, Fail, Start, vars, Clean

\* No pull request is open once the run's own is merged.
LEMMA NoneOpen == ASSUME PRInv, Past(Synced) PROVE NoOpenPR /\ run.pr # 0
  BY DEF PRInv, Past, Synced, WithPR, NoOpenPR, OpenPR

\* Steps that leave the clone alone, and all that runs generate on main.
LEMMA QuietSync ==
    ASSUME TypeOK, Synchronised, UNCHANGED local, \A i \in Generated : main'[i] = main[i],
           \A n \in DOMAIN prs' : OpenPR(n)' => n \in DOMAIN prs /\ OpenPR(n),
           DOMAIN prs # {} => DOMAIN prs' # {},
           Through' => Through /\ (pc' # "delete" => pc # "delete")
    PROVE  Synchronised'
  BY DEF Synchronised, NoOpenPR, OpenPR, Same, local

LEMMA RunSynchronised ==
    ASSUME TypeOK, PRInv, SyncInv, RunStep PROVE Synchronised'
  <1>1. CASE pc' \notin Last \cup {"delete"} /\ result' # "completed"
    BY <1>1 DEF Synchronised, Through
  <1>2. pc # "idle" /\ result # "completed"
    BY DEF SyncInv, Phases, RunStep, Generate, SetupTemplateFiles, VerifyLocalTests,
       CheckPermissions, Configure, EnsurePersonalToken, CheckScaffoldingChanges,
       CheckoutBranch, Commit, Push, FindPR, CreatePR, EnableAutoMerge, PollPRStatus,
       PollTimeout, CheckoutMain, PullMain, DeleteBranch, ConfigureRulesets, CheckSeedFiles,
       ListSeedIssues, CreateSeedIssue
  <1>3. CASE Fail
    BY <1>1, <1>3 DEF Fail, Last
  <1>5. CASE PullMain /\ ~Fail
    <2>1. /\ pc = "pull" /\ pc' = "delete" /\ UNCHANGED <<run, on, branch, main, prs>>
          /\ localMain' = main /\ work' = Switched(work, localMain, main)
      BY <1>5 DEF PullMain, Goto, github
    <2>2. on = "main" /\ Same(work, localMain)
      BY <2>1 DEF TypeOK, SyncInv, Committed, Clean, HEAD
    <2>3. NoOpenPR /\ run.pr # 0
      BY <2>1, NoneOpen DEF Past, Synced
    <2>5. prs \in Seq(PRs) /\ run.pr \in 0..Len(prs)
      BY <2>1 DEF TypeOK
    <2>6. DOMAIN prs # {}
      <3>1. DOMAIN prs = 1..Len(prs) /\ Len(prs) \in Nat
        BY <2>5
      <3>2. run.pr \in 1..Len(prs)
        BY <2>3, <2>5, <3>1
      <3> QED
        BY <3>1, <3>2
    <2>4. Same(work', main) /\ Same(localMain', main)
      BY <2>1, <2>2, SwitchSame DEF Same
    <2> QED
      BY <2>1, <2>2, <2>3, <2>4, <2>6 DEF Synchronised, NoOpenPR, OpenPR, Same
  <1>6. CASE DeleteBranch
    <2>1. /\ pc = "delete" /\ pc' # "delete" /\ branch' = None
          /\ UNCHANGED <<run, on, localMain, work, main, prs>>
      BY <1>6 DEF DeleteBranch, Goto, github
    <2>2. Through
      BY <2>1, NoneOpen DEF Through, Past, Synced
    <2> QED
      BY <2>1, <2>2 DEF SyncInv, Synchronised, NoOpenPR, OpenPR, Same
  <1>7. CASE ConfigureRulesets \/ CheckSeedFiles \/ ListSeedIssues \/ CreateSeedIssue
    <2>1. pc \in Last /\ UNCHANGED <<run, local, main, prs>> /\ pc' # "delete"
      BY <1>7 DEF ConfigureRulesets, CheckSeedFiles, ListSeedIssues, CreateSeedIssue, Goto,
         Complete, github, Last
    <2>2. Through' => Through /\ pc # "delete"
      BY <2>1 DEF Through, Last
    <2> QED
      BY <2>1, <2>2, QuietSync DEF SyncInv, OpenPR
  <1>8. CASE CheckScaffoldingChanges
    BY <1>8 DEF CheckScaffoldingChanges, Synchronised, Through, SyncInv, Phases, Before
  <1> QED
    BY <1>1, <1>2, <1>3, <1>5, <1>6, <1>7, <1>8
       DEF RunStep, Generate, SetupTemplateFiles, VerifyLocalTests, CheckPermissions,
           Configure, EnsurePersonalToken, CheckoutBranch, Commit, Push, FindPR, CreatePR,
           EnableAutoMerge, PollPRStatus, PollTimeout, CheckoutMain, PullMain, Goto, Last

LEMMA EnvironmentSynchronised ==
    ASSUME TypeOK, PRInv, SyncInv, Environment PROVE Synchronised'
  <1>1. Outside /\ (Through' <=> Through)
    BY DEF Environment, EditSeed, PushSeed, GoBackToMain, UpdateMain, CreatePRWorkflow,
           ReportChecks, MergePR, ClosePR, CloseSeedIssue, Outside, Through
  <1>2. ASSUME UNCHANGED local, \A i \in Generated : main'[i] = main[i],
               \A n \in DOMAIN prs' : OpenPR(n)' => n \in DOMAIN prs /\ OpenPR(n),
               DOMAIN prs # {} => DOMAIN prs' # {}
        PROVE  Synchronised'
    BY <1>1, <1>2, QuietSync DEF Outside, SyncInv
  <1>3. CASE ~Through
    BY <1>1, <1>3 DEF Synchronised
  <1>4. CASE EditSeed
    <2>1. work' = [work EXCEPT !["seed"] = edits' + 2] /\ work \in Trees
      BY <1>4 DEF EditSeed, TypeOK
    <2>2. Same(work, main) => Same(work', main)
      BY <2>1, EditSame
    <2>3. UNCHANGED <<on, localMain, branch, main, prs>>
      BY <1>4 DEF EditSeed, github
    <2> QED
      BY <1>1, <2>2, <2>3 DEF Outside, SyncInv, Synchronised, NoOpenPR, OpenPR, Same
  <1>5. CASE PushSeed
    BY <1>2, <1>5 DEF PushSeed, OpenPR, TypeOK, Trees, Generated
  <1>6. CASE GoBackToMain
    BY <1>3, <1>6 DEF GoBackToMain, SyncInv, Synchronised
  <1>7. CASE UpdateMain /\ Through
    <2>1. /\ localMain' = main /\ work' = Switched(work, localMain, main)
          /\ UNCHANGED <<on, branch, main, prs>>
      BY <1>7 DEF UpdateMain, github
    <2>2. Same(work, localMain)
      BY <1>7 DEF SyncInv, Synchronised, Same
    <2>3. Same(work', main) /\ Same(localMain', main)
      BY <2>1, <2>2, SwitchSame DEF Same
    <2> QED
      BY <1>1, <1>7, <2>1, <2>3 DEF Outside, SyncInv, Synchronised, NoOpenPR, OpenPR, Same
  <1>8. CASE CreatePRWorkflow
    <2>1. prs = <<>> /\ DOMAIN prs = {}
      BY <1>8 DEF CreatePRWorkflow
    <2> QED
      BY <1>3, <2>1 DEF SyncInv, Synchronised
  <1>9. CASE ReportChecks \/ ClosePR
    <2>1. PICK n \in DOMAIN prs : \E p :
            /\ prs' = [prs EXCEPT ![n] = p] /\ (p.state = "open" => OpenPR(n))
      <3>1. \A n \in DOMAIN prs : prs[n] \in PRs
        BY ElementOfSeq, TypeParts DEF GithubType
      <3>2. CASE ReportChecks
        BY <3>1, <3>2 DEF ReportChecks, PRs, OpenPR
      <3>3. CASE ClosePR
        BY <3>1, <3>3 DEF ClosePR, PRs, OpenPR
      <3> QED
        BY <1>9, <3>2, <3>3
    <2>2. /\ \A m \in DOMAIN prs' : OpenPR(m)' => m \in DOMAIN prs /\ OpenPR(m)
          /\ DOMAIN prs' = DOMAIN prs
      BY <2>1 DEF OpenPR
    <2> QED
      BY <1>2, <1>9, <2>2 DEF ReportChecks, ClosePR
  <1>10. CASE MergePR
    BY <1>3, <1>10 DEF MergePR, Merge, CanMerge, SyncInv, Synchronised, NoOpenPR
  <1>11. CASE CloseSeedIssue
    BY <1>2, <1>11 DEF CloseSeedIssue, OpenPR
  <1> QED
    BY <1>3, <1>4, <1>5, <1>6, <1>7, <1>8, <1>9, <1>10, <1>11 DEF Environment

LEMMA StepSync == TypeOK /\ PRInv /\ SyncInv /\ [Next]_vars => SyncInv'
  <1> SUFFICES ASSUME TypeOK, PRInv, SyncInv, [Next]_vars PROVE Synchronised'
    BY StepPhases, StepCommitted DEF SyncInv
  <1>1. CASE UNCHANGED vars
    BY <1>1, QuietSync DEF vars, github, OpenPR, Through, SyncInv
  <1>2. CASE Abort
    BY <1>2 DEF Abort, Fail, Synchronised, Through, Last
  <1>3. CASE \E m \in Modes : Start(m)
    BY <1>3 DEF Start, Synchronised, Through, Last
  <1> QED
    BY <1>1, <1>2, <1>3, RunSynchronised, EnvironmentSynchronised DEF Next

LEMMA InitSync == Init => SyncInv
  BY DEF Init, SyncInv, Phases, Committed, Synchronised, Through, Before, Clean, Last

\* A run that completes by way of a pull request leaves the clone on a main that is
\* GitHub's in all that runs generate, whoever else merges, pushes and pulls (SyncMainBranch).
THEOREM ClonesStayInSync == Spec => []LocalInSync
  <1>1. SyncInv => LocalInSync
    BY DEF SyncInv, Phases, Synchronised, Through, LocalInSync, Merged, Same
  <1> QED
    BY <1>1, InitSync, StepSync, InitPR, StepPR, SetupTypeCorrect, PTL DEF Spec
-----------------------------------------------------------------------------
(* The first run delivers *)

\* The calls before the commit, in order.
Drafts == {"directories", "templates", "module", "tests", "verify", "permissions", "merge",
           "collaborator", "actions", "secret", "check", "branch"}

\* What has been generated when.
Written ==
    /\ pc \in Drafts \ {"directories"} => work["directories"] # 0
    /\ pc \in Drafts \ {"directories", "templates"} => work["templates"] # 0
    /\ pc \in Drafts \ {"directories", "templates", "module"} => work["module"] # 0
    /\ pc \in Drafts \ {"directories", "templates", "module", "tests"} => work["tests"] # 0

\* Nothing was ever pushed: the clone's main is GitHub's in all that runs generate.
Untouched == remote = None /\ Same(localMain, main) /\ main["directories"] = 0

\* The merge of a branch leaves main scaffolded.
Delivers(b) == /\ \A i \in Generated : b.tree[i] # 0
               /\ \A i \in Generated : b.tree[i] = b.base[i] => main[i] # 0

\* What the first run carries from call to call.
FirstInv ==
    /\ runs = 0 => pc = "idle" /\ result = "none" /\ on = "main" /\ Untouched
    /\ runs = 1 /\ pc \in Drafts => on = "main" /\ Untouched
    /\ runs = 1 /\ pc \in {"commit", "push"} => remote = None /\ Same(branch.base, main)
    /\ runs = 1 /\ pc = "commit" => Scaffolded(work)
    /\ runs = 1 /\ pc = "push" => Scaffolded(branch.tree)
    /\ runs = 1 /\ Past(AfterPush) => Delivers(run.pushed)

Finishing == pc \in Last \ {"ruleset"} \/ result = "completed"
Delivered == runs = 1 /\ Finishing =>
                 run.skip \/ (run.pr # 0 /\ Scaffolded(main) /\ (run.perms => ruleset))

DeliveryInv == Written /\ FirstInv /\ Delivered

LEMMA StepWritten == TypeOK /\ Written /\ [Next]_vars => Written'
  <1> SUFFICES ASSUME TypeOK, Written, [Next]_vars PROVE Written'
    OBVIOUS
  <1>1. CASE pc' \notin Drafts \/ pc' = "directories"
    BY <1>1 DEF Written
  <1>2. ASSUME \A i \in Generated : work'[i] = work[i],
               pc' = pc \/ pc \in Drafts \ {"directories", "templates", "module", "tests"}
        PROVE  Written'
    BY <1>2 DEF Written, Generated
  <1>3. CASE \/ Generate("directories", "templates") \/ SetupTemplateFiles
             \/ Generate("module", "tests") \/ Generate("tests", "verify")
    <2>1. work \in Trees
      BY DEF TypeOK
    <2>2. CASE Generate("directories", "templates")
      BY <2>1, <2>2 DEF Generate, Goto, Written, Drafts, Trees, Parts, Generated
    <2>3. CASE SetupTemplateFiles
      <3>1. /\ pc = "templates" /\ pc' = "module"
            /\ work' = [work EXCEPT !["templates"] = 1] \/ (work' = work /\ work["templates"] # 0)
        BY <2>3 DEF SetupTemplateFiles, Goto
      <3>2. work'["directories"] = work["directories"] /\ work'["templates"] # 0
        BY <2>1, <3>1 DEF Trees, Parts, Generated
      <3> QED
        BY <3>1, <3>2 DEF Written, Drafts
    <2>4. CASE Generate("module", "tests")
      BY <2>1, <2>4 DEF Generate, Goto, Written, Drafts, Trees, Parts, Generated
    <2>5. CASE Generate("tests", "verify")
      BY <2>1, <2>5 DEF Generate, Goto, Written, Drafts, Trees, Parts, Generated
    <2> QED
      BY <1>3, <2>2, <2>3, <2>4, <2>5
  <1>4. CASE VerifyLocalTests \/ CheckPermissions \/ Configure("merge", "collaborator")
             \/ Configure("collaborator", "actions") \/ Configure("actions", "secret")
             \/ EnsurePersonalToken \/ CheckScaffoldingChanges
    BY <1>4, <1>2 DEF VerifyLocalTests, CheckPermissions, Configure, EnsurePersonalToken,
                      CheckScaffoldingChanges, local, Drafts
  <1>5. CASE RunStep
    BY <1>5, <1>1, <1>3, <1>4
       DEF RunStep, CheckoutBranch, Commit, Push, FindPR, CreatePR, EnableAutoMerge,
           PollPRStatus, PollTimeout, CheckoutMain, PullMain, DeleteBranch,
           ConfigureRulesets, CheckSeedFiles, ListSeedIssues, CreateSeedIssue, Goto, Fail,
           Complete, Drafts
  <1>6. CASE EditSeed
    BY <1>6, <1>2 DEF EditSeed, Outside, TypeOK, Trees, Generated, Parts
  <1>7. CASE Environment
    BY <1>7, <1>1, <1>2, <1>6
       DEF Environment, PushSeed, GoBackToMain, UpdateMain, CreatePRWorkflow, ReportChecks,
           MergePR, ClosePR, CloseSeedIssue, Outside, local, Drafts
  <1> QED
    BY <1>1, <1>2, <1>5, <1>7 DEF Next, Abort, Fail, Start, vars, local, Drafts

\* Steps of GitHub and people, and of the run where it touches neither clone nor main.
LEMMA QuietFirst ==
    ASSUME TypeOK, FirstInv, UNCHANGED <<runs, run, on, localMain, branch, remote>>,
           \A i \in Generated : main'[i] = main[i] /\ work'[i] = work[i],
           runs = 0 => UNCHANGED <<pc, result>>,
           pc' \in Drafts => pc \in Drafts,
           pc' \in {"commit", "push"} => pc' = pc,
           Past(AfterPush)' => Past(AfterPush)
    PROVE  FirstInv'
  BY DEF FirstInv, Untouched, Same, Scaffolded, Delivers, Generated, Parts

LEMMA MergeFirst ==
    ASSUME TypeOK, PRInv, FirstInv, NEW n \in DOMAIN prs, Merge(n),
           UNCHANGED <<run, runs, result, local>>,
           pc' = pc \/ (pc = "automerge" /\ pc' = "poll")
    PROVE  FirstInv'
  <1>1. remote # None /\ main' = MergedTree(remote)
    BY DEF Merge, CanMerge
  <1>2. runs # 0 /\ (runs = 1 => pc \notin Drafts \cup {"commit", "push"})
    BY <1>1 DEF FirstInv, Untouched
  <1>3. pc' \notin Drafts \cup {"commit", "push"} \/ pc' = pc
    BY DEF Drafts
  <1>4. ASSUME runs = 1, Past(AfterPush)' PROVE Delivers(run.pushed)'
    <2>1. Past(AfterPush) /\ Delivers(run.pushed)
      BY <1>4 DEF Past, AfterPush, FirstInv
    <2>2. remote = run.pushed
      BY <1>1, <2>1 DEF PRInv
    <2> QED
      BY <1>1, <2>1, <2>2 DEF Delivers, MergedTree, Generated, Parts
  <1> QED
    BY <1>2, <1>3, <1>4 DEF FirstInv

LEMMA FirstStarts ==
    ASSUME TypeOK, FirstInv, NEW m \in Modes, Start(m) PROVE FirstInv'
  <1>1. /\ pc' = "directories" /\ runs' = runs + 1 /\ runs \in Nat
        /\ UNCHANGED <<on, localMain, main, remote>>
    BY DEF Start, TypeOK, local, github
  <1>2. runs' # 0 /\ (runs' = 1 => runs = 0)
    BY <1>1
  <1> QED
    BY <1>1, <1>2 DEF FirstInv, Untouched, Same, Past, AfterPush, Drafts

LEMMA CheckFirst ==
    ASSUME TypeOK, Written, FirstInv, CheckScaffoldingChanges
    PROVE  FirstInv' /\ (runs = 1 /\ pc' = "seedcheck" => run.skip)
  <1>1. /\ pc = "check" /\ UNCHANGED <<run, result, runs, local, github>>
        /\ pc' \in {"seedcheck", "branch", "ruleset"}
        /\ pc' = "ruleset" => run.skip
        /\ pc' = "seedcheck" => run.skip \/ work = HEAD
    BY DEF CheckScaffoldingChanges, Goto
  <1>2. FirstInv'
    BY <1>1, QuietFirst DEF local, github, Drafts, Past, AfterPush, FirstInv
  <1>3. runs = 1 => work # HEAD
    <2>1. runs = 1 => HEAD["directories"] = 0
      BY <1>1 DEF FirstInv, Untouched, Same, HEAD, Drafts, Generated
    <2>2. work["directories"] # 0
      BY <1>1 DEF Written, Drafts
    <2> QED
      BY <2>1, <2>2
  <1> QED
    BY <1>1, <1>2, <1>3

LEMMA BranchFirst == ASSUME TypeOK, Written, FirstInv, CheckoutBranch PROVE FirstInv'
  <1>1. CASE Fail
    BY <1>1 DEF Fail, FirstInv, CheckoutBranch, Drafts, Past, AfterPush, github, local
  <1>2. CASE ~Fail
    <2>1. /\ pc = "branch" /\ pc' = "commit" /\ UNCHANGED <<runs, main, remote>>
          /\ branch' = [tree |-> localMain, base |-> localMain]
          /\ work' = Switched(work, HEAD, localMain)
      BY <1>2 DEF CheckoutBranch, Goto, github
    <2>2. CASE runs = 1
      <3>1. Untouched /\ HEAD = localMain
        BY <2>1, <2>2 DEF FirstInv, HEAD, Drafts
      <3>2. \A i \in Generated : work'[i] = work[i]
        BY <2>1, <3>1 DEF Switched, Generated, Parts
      <3>3. Scaffolded(work)
        BY <2>1 DEF Written, Drafts, Scaffolded, Generated
      <3>4. Scaffolded(work')
        BY <3>2, <3>3 DEF Scaffolded
      <3> QED
        BY <2>1, <2>2, <3>1, <3>4 DEF FirstInv, Untouched, Same, Past, AfterPush, Drafts, Scaffolded
    <2>3. CASE runs # 1
      BY <2>1, <2>3 DEF FirstInv, Drafts
    <2> QED
      BY <2>2, <2>3
  <1> QED
    BY <1>1, <1>2

LEMMA CommitFirst == ASSUME TypeOK, FirstInv, Commit PROVE FirstInv'
  <1>1. /\ pc = "commit" /\ pc' = "push" /\ UNCHANGED <<runs, main, remote>>
        /\ branch' = [branch EXCEPT !.tree = work] /\ branch \in Branches
    BY DEF Commit, Goto, github, TypeOK
  <1>2. branch'.tree = work /\ branch'.base = branch.base
    BY <1>1 DEF Branches
  <1> QED
    BY <1>1, <1>2 DEF FirstInv, Drafts, Past, AfterPush, Same, Scaffolded

LEMMA PushFirst == ASSUME TypeOK, FirstInv, Push PROVE FirstInv'
  <1>1. /\ pc = "push" /\ pc' = "find" /\ UNCHANGED <<runs, main, branch>>
        /\ run' = [run EXCEPT !.pushed = branch] /\ run \in Runs
    BY DEF Push, Goto, local, TypeOK
  <1>2. run'.pushed = branch
    BY <1>1 DEF Runs
  <1>3. runs = 1 => Delivers(branch)'
    BY <1>1 DEF FirstInv, Same, Scaffolded, Delivers
  <1> QED
    BY <1>1, <1>2, <1>3 DEF FirstInv, Drafts, Delivers

\* The end of a run.
LEMMA EndsFirst ==
    ASSUME FirstInv, pc # "idle", pc' = "idle", UNCHANGED runs
    PROVE  FirstInv'
  BY DEF FirstInv, Drafts, Past, AfterPush

LEMMA RunFirst == ASSUME TypeOK, PRInv, Written, FirstInv, RunStep PROVE FirstInv'
  <1>1. CASE Fail /\ pc # "idle"
    BY <1>1, EndsFirst DEF Fail
  <1>2. CASE \/ Generate("directories", "templates") \/ SetupTemplateFiles
             \/ Generate("module", "tests") \/ Generate("tests", "verify")
    BY <1>2 DEF Generate, SetupTemplateFiles, Goto, github, FirstInv, Untouched, Same, Drafts,
                Past, AfterPush
  <1>3. CASE \/ VerifyLocalTests \/ CheckPermissions \/ Configure("merge", "collaborator")
             \/ Configure("collaborator", "actions") \/ Configure("actions", "secret")
             \/ EnsurePersonalToken
    BY <1>3 DEF VerifyLocalTests, CheckPermissions, Configure, EnsurePersonalToken, Goto,
                local, github, FirstInv, Untouched, Same, Drafts, Past, AfterPush
  <1>4. CASE FindPR /\ ~Fail
    <2>1. /\ pc \in {"find", "relist"} /\ pc' \in {"automerge", "create"} /\ run \in Runs
          /\ UNCHANGED <<runs, main>>
          /\ run' = run \/ \E n : run' = [run EXCEPT !.pr = n]
      BY <1>4 DEF FindPR, Goto, github, TypeOK
    <2>2. run'.pushed = run.pushed
      BY <2>1 DEF Runs
    <2> QED
      BY <2>1, <2>2 DEF FirstInv, Drafts, Past, AfterPush, Delivers
  <1>5. CASE CreatePR
    <2>1. /\ pc = "create" /\ pc' \in {"automerge", "relist"} /\ run \in Runs
          /\ UNCHANGED <<runs, main>>
          /\ run' = run \/ \E n : run' = [run EXCEPT !.pr = n]
      BY <1>5 DEF CreatePR, Goto, github, TypeOK
    <2>2. run'.pushed = run.pushed
      BY <2>1 DEF Runs
    <2> QED
      BY <2>1, <2>2 DEF FirstInv, Drafts, Past, AfterPush, Delivers
  <1>6. CASE EnableAutoMerge /\ ~Fail
    <2>1. run.pr \in DOMAIN prs /\ pc = "automerge" /\ pc' = "poll" /\ UNCHANGED <<run, runs, result, local>>
      BY <1>6 DEF EnableAutoMerge, Goto, TypeOK
    <2>2. CASE Merge(run.pr)
      BY <2>1, <2>2, MergeFirst
    <2>3. CASE UNCHANGED <<main, remote>>
      BY <2>1, <2>3 DEF FirstInv, Drafts, Past, AfterPush, Delivers
    <2> QED
      BY <1>6, <2>2, <2>3 DEF EnableAutoMerge, Arm, github
  <1>7. CASE /\ pc \in {"poll", "checkout", "pull", "delete"} /\ UNCHANGED <<run, runs, main>>
             /\ pc' \in {"checkout", "pull", "delete", "ruleset", "seedcheck"}
    BY <1>7 DEF FirstInv, Drafts, Past, AfterPush, Delivers
  <1>8. CASE (PollPRStatus \/ CheckoutMain \/ PullMain \/ DeleteBranch) /\ ~Fail
    BY <1>7, <1>8 DEF PollPRStatus, CheckoutMain, PullMain, DeleteBranch, Goto, github
  <1>9. CASE ConfigureRulesets \/ CheckSeedFiles \/ ListSeedIssues \/ CreateSeedIssue
    BY <1>9 DEF ConfigureRulesets, CheckSeedFiles, ListSeedIssues, CreateSeedIssue, Goto,
                Complete, FirstInv, Drafts, Past, AfterPush
  <1>10. Fail => pc # "idle"
    BY DEF RunStep, Fail, Generate, SetupTemplateFiles, VerifyLocalTests, CheckPermissions,
       Configure, EnsurePersonalToken, CheckScaffoldingChanges, CheckoutBranch, Commit, Push,
       FindPR, CreatePR, EnableAutoMerge, PollPRStatus, PollTimeout, CheckoutMain, PullMain,
       DeleteBranch, ConfigureRulesets, CheckSeedFiles, ListSeedIssues, CreateSeedIssue
  <1> QED
    BY <1>1, <1>2, <1>3, <1>4, <1>5, <1>6, <1>8, <1>9, <1>10, CheckFirst, BranchFirst,
       CommitFirst, PushFirst DEF RunStep, PollTimeout

LEMMA EnvironmentFirst ==
    ASSUME TypeOK, PRInv, FirstInv, Environment PROVE FirstInv'
  <1>1. Outside
    BY DEF Environment, EditSeed, PushSeed, GoBackToMain, UpdateMain, CreatePRWorkflow,
           ReportChecks, MergePR, ClosePR, CloseSeedIssue
  <1>2. ASSUME UNCHANGED <<on, localMain, branch, remote>>,
               \A i \in Generated : main'[i] = main[i] /\ work'[i] = work[i]
        PROVE  FirstInv'
    BY <1>1, <1>2, QuietFirst DEF Outside, Past
  <1>3. CASE EditSeed
    BY <1>2, <1>3 DEF EditSeed, github, TypeOK, Trees, Generated, Parts
  <1>4. CASE PushSeed
    BY <1>2, <1>4 DEF PushSeed, local, TypeOK, Trees, Generated, Parts
  <1>5. CASE GoBackToMain
    BY <1>1, <1>5 DEF GoBackToMain, Outside, github, FirstInv, Drafts, Past, AfterPush
  <1>6. CASE UpdateMain
    <2>1. pc = "idle" /\ localMain' = main /\ UNCHANGED <<on, main, remote>>
      BY <1>6 DEF UpdateMain, github
    <2> QED
      BY <1>1, <2>1 DEF Outside, FirstInv, Untouched, Same, Drafts, Past, AfterPush
  <1>7. CASE CreatePRWorkflow \/ ReportChecks \/ ClosePR \/ CloseSeedIssue
    BY <1>2, <1>7 DEF CreatePRWorkflow, ReportChecks, ClosePR, CloseSeedIssue, local
  <1>8. CASE MergePR
    BY <1>1, <1>8, MergeFirst DEF MergePR, Outside
  <1> QED
    BY <1>3, <1>4, <1>5, <1>6, <1>7, <1>8 DEF Environment

LEMMA StepFirst == TypeOK /\ PRInv /\ Written /\ FirstInv /\ [Next]_vars => FirstInv'
  <1> SUFFICES ASSUME TypeOK, PRInv, Written, FirstInv, [Next]_vars PROVE FirstInv'
    OBVIOUS
  <1>1. CASE UNCHANGED vars
    BY <1>1, QuietFirst DEF vars, local, github, Past
  <1>2. CASE Abort
    BY <1>2, EndsFirst DEF Abort, Fail
  <1> QED
    BY <1>1, <1>2, FirstStarts, RunFirst, EnvironmentFirst DEF Next

\* Steps from one finishing call to the next.
LEMMA StaysDelivered ==
    ASSUME Delivered, Finishing' => Finishing, UNCHANGED runs,
           run' = run, Scaffolded(main) => Scaffolded(main'), ruleset => ruleset'
    PROVE  Delivered'
  BY DEF Delivered

LEMMA RunDelivered ==
    ASSUME TypeOK, PRInv, SyncInv, DeliveryInv, RunStep PROVE Delivered'
  <1>1. CASE pc' \notin Last \ {"ruleset"} /\ result' # "completed"
    BY <1>1 DEF Delivered, Finishing
  <1>2. pc # "idle" /\ result = "running"
    BY DEF SyncInv, Phases, RunStep, Generate, SetupTemplateFiles, VerifyLocalTests,
       CheckPermissions, Configure, EnsurePersonalToken, CheckScaffoldingChanges,
       CheckoutBranch, Commit, Push, FindPR, CreatePR, EnableAutoMerge, PollPRStatus,
       PollTimeout, CheckoutMain, PullMain, DeleteBranch, ConfigureRulesets, CheckSeedFiles,
       ListSeedIssues, CreateSeedIssue
  <1>3. CASE CheckScaffoldingChanges
    <2>1. UNCHANGED <<runs, run, result>> /\ pc' \in {"seedcheck", "branch", "ruleset"}
      BY <1>3 DEF CheckScaffoldingChanges, Goto
    <2> QED
      BY <1>2, <1>3, <2>1, CheckFirst DEF DeliveryInv, Delivered, Finishing, Last
  <1>4. ASSUME pc \in {"delete", "ruleset"}, runs = 1, ~run.skip
        PROVE  run.pr # 0 /\ Scaffolded(main)
    <2>1. Past(AfterPush) /\ Past(WithPR) /\ Past(Synced)
      BY <1>4 DEF Past, AfterPush, WithPR, Synced
    <2>2. run.pr # 0 /\ Carried /\ Delivers(run.pushed)
      BY <1>4, <2>1 DEF PRInv, DeliveryInv, FirstInv
    <2> QED
      BY <2>2 DEF Carried, Delivers, Scaffolded
  <1>5. CASE DeleteBranch
    <2>1. /\ pc = "delete" /\ pc' = IF run.perms THEN "ruleset" ELSE "seedcheck"
          /\ UNCHANGED <<runs, run, main, result>>
      BY <1>5 DEF DeleteBranch, Goto, github
    <2> QED
      BY <1>2, <1>4, <2>1 DEF Delivered, Finishing, Last, Scaffolded
  <1>6. CASE ConfigureRulesets
    <2>1. pc = "ruleset" /\ pc' = "seedcheck" /\ UNCHANGED <<runs, run, main, result>> /\ ruleset'
      BY <1>6 DEF ConfigureRulesets, Goto
    <2> QED
      BY <1>2, <1>4, <2>1 DEF Delivered, Finishing, Last, Scaffolded
  <1>7. CASE CheckSeedFiles \/ ListSeedIssues \/ CreateSeedIssue
    <2>1. pc \in Last \ {"ruleset"} /\ UNCHANGED <<runs, run, main, ruleset>>
      BY <1>7 DEF CheckSeedFiles, ListSeedIssues, CreateSeedIssue, Goto, Complete, github, Last
    <2> QED
      BY <2>1, StaysDelivered DEF DeliveryInv, Finishing, Scaffolded
  <1>8. CASE Fail
    BY <1>1, <1>8 DEF Fail, Last
  <1> QED
    BY <1>1, <1>2, <1>3, <1>5, <1>6, <1>7, <1>8
       DEF RunStep, Generate, SetupTemplateFiles, VerifyLocalTests, CheckPermissions,
           Configure, EnsurePersonalToken, CheckoutBranch, Commit, Push, FindPR, CreatePR,
           EnableAutoMerge, PollPRStatus, PollTimeout, CheckoutMain, PullMain, Goto, Last

LEMMA EnvironmentDelivered ==
    ASSUME TypeOK, PRInv, SyncInv, DeliveryInv, Environment PROVE Delivered'
  <1>1. UNCHANGED <<pc, run, result, runs>>
    BY DEF Environment, EditSeed, PushSeed, GoBackToMain, UpdateMain, CreatePRWorkflow,
           ReportChecks, MergePR, ClosePR, CloseSeedIssue, Outside
  <1>2. ASSUME \A i \in Generated : main'[i] = main[i], ruleset' = ruleset PROVE Delivered'
    BY <1>1, <1>2, StaysDelivered DEF DeliveryInv, Finishing, Scaffolded
  <1>3. CASE PushSeed
    BY <1>2, <1>3 DEF PushSeed, TypeOK, Trees, Generated, Parts
  <1>4. CASE MergePR
    <2>1. ~NoOpenPR
      BY <1>4 DEF MergePR, Merge, CanMerge, NoOpenPR
    <2>2. Finishing => run.pr = 0
      BY <2>1 DEF SyncInv, Synchronised, Through, Finishing, Last
    <2> QED
      BY <1>1, <2>2 DEF DeliveryInv, Delivered, Finishing
  <1> QED
    BY <1>2, <1>3, <1>4
       DEF Environment, EditSeed, GoBackToMain, UpdateMain, CreatePRWorkflow, ReportChecks,
           ClosePR, CloseSeedIssue, github

LEMMA StepDelivery == TypeOK /\ PRInv /\ SyncInv /\ DeliveryInv /\ [Next]_vars => DeliveryInv'
  <1> SUFFICES ASSUME TypeOK, PRInv, SyncInv, DeliveryInv, [Next]_vars PROVE Delivered'
    BY StepWritten, StepFirst DEF DeliveryInv
  <1>1. CASE UNCHANGED vars
    BY <1>1, StaysDelivered DEF vars, github, DeliveryInv, Finishing
  <1>2. CASE Abort
    BY <1>2 DEF Abort, Fail, Delivered, Finishing, Last
  <1>3. CASE \E m \in Modes : Start(m)
    BY <1>3 DEF Start, Delivered, Finishing, Last
  <1> QED
    BY <1>1, <1>2, <1>3, RunDelivered, EnvironmentDelivered DEF Next

LEMMA InitDelivery == Init => DeliveryInv
  <1> SUFFICES ASSUME Init PROVE DeliveryInv
    OBVIOUS
  <1>1. main["directories"] = 0
    BY MainsType DEF Init
  <1> QED
    BY <1>1 DEF Init, DeliveryInv, Written, FirstInv, Untouched, Same, Delivered, Drafts

\* The first run on a repository, if it completes without being told to skip the push,
\* leaves main scaffolded and, as an admin's, protected (Run's steps 1 to 14).
THEOREM FirstRunsDeliver == Spec => []FirstRunDelivers
  <1>1. DeliveryInv => FirstRunDelivers
    BY DEF DeliveryInv, Delivered, Finishing, FirstRunDelivers
  <1> QED
    BY <1>1, InitDelivery, StepDelivery, InitSync, StepSync, InitPR, StepPR,
       SetupTypeCorrect, PTL DEF Spec
====
