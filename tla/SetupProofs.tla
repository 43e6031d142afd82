---------------------------- MODULE SetupProofs ----------------------------
(* What holds of `speculate init` for every repository, every way to start it *)
(* and every number of runs and edits.                                        *)
EXTENDS Setup, SequenceTheorems, TLAPS

\* TypeOK in three parts: what the process holds, the clone, GitHub.
RunType ==
    /\ pc \in Calls \cup {"idle"} /\ result \in {"none", "running", "completed", "failed"}
    /\ run \in Runs \cup {None} /\ (pc # "idle" => run \in Runs /\ run.pr \in 0..Len(prs))
    /\ pc \in {"automerge", "poll"} => run.pr # 0
    /\ runs \in Nat /\ edits \in Nat

CloneType ==
    /\ localMain \in Trees /\ work \in Trees /\ branch \in Branches \cup {None}
    /\ on \in {"main", "feature"} /\ (on = "feature" => branch \in Branches)
    /\ pc \in {"commit", "push"} => on = "feature"
    /\ pc \in {"pull", "delete"} => on = "main"

GithubType ==
    /\ main \in Trees /\ remote \in Branches \cup {None}
    /\ prs \in Seq(PRs) /\ (\A m, n \in DOMAIN prs : OpenPR(m) /\ OpenPR(n) => m = n)
    /\ settings \subseteq {"merge", "collaborator", "actions"}
    /\ secret \in BOOLEAN /\ ruleset \in BOOLEAN
    /\ seedIssues \in Nat

LEMMA TypeParts ==
    /\ TypeOK <=> RunType /\ CloneType /\ GithubType
    /\ TypeOK' <=> RunType' /\ CloneType' /\ GithubType'
  BY DEF TypeOK, RunType, CloneType, GithubType

LEMMA InitTyped == Init => TypeOK
  <1> SUFFICES ASSUME Init PROVE TypeOK
    OBVIOUS
  <1>1. main \in [Parts -> 0..2]
    BY MainsType DEF Init
  <1>2. main \in Trees
    BY <1>1 DEF Trees
  <1>3. prs = <<>> /\ prs \in Seq(PRs) /\ DOMAIN prs = {}
    BY DEF Init
  <1> QED
    BY <1>2, <1>3 DEF Init, TypeOK

LEMMA HEADType == ASSUME CloneType PROVE HEAD \in Trees
  BY DEF CloneType, HEAD, Branches

LEMMA SwitchedType ==
    ASSUME NEW w \in Trees, NEW h \in Trees, NEW b \in Trees PROVE Switched(w, h, b) \in Trees
  BY DEF Switched, Trees

LEMMA WrittenType ==
    ASSUME NEW w \in Trees, NEW i, NEW v \in Nat PROVE [w EXCEPT ![i] = v] \in Trees
  BY DEF Trees

-----------------------------------------------------------------------------
(* A call of the run moves pc, and the run's variables keep their types. *)

LEMMA GotoTyped ==
    ASSUME RunType, NEW step \in Calls, Goto(step), run' \in Runs, run'.pr \in 0..Len(prs'),
           step \in {"automerge", "poll"} => run'.pr # 0
    PROVE  RunType'
  BY DEF RunType, Goto

LEMMA FailTyped == ASSUME TypeOK, Fail PROVE TypeOK'
  BY DEF TypeOK, Fail, local, github, OpenPR

LEMMA UnchangedClone ==
    ASSUME CloneType, UNCHANGED local, pc' \notin {"commit", "push", "pull", "delete"} \/ pc' = pc
    PROVE  CloneType'
  BY DEF CloneType, local

LEMMA UnchangedGithub == ASSUME GithubType, UNCHANGED github PROVE GithubType'
  BY DEF GithubType, github, OpenPR

\* Steps that move nothing but pc.
LEMMA MoveTyped ==
    ASSUME TypeOK, pc # "idle", NEW step \in Calls \ {"commit", "push", "automerge", "pull", "delete"}, Goto(step),
           pc # "automerge" => step # "poll", UNCHANGED <<run, local, github>>
    PROVE  TypeOK'
  <1>1. RunType'
    BY GotoTyped, TypeParts DEF RunType, github, Calls
  <1>2. CloneType'
    BY TypeParts DEF CloneType, local, Goto
  <1> QED
    BY <1>1, <1>2, UnchangedGithub, TypeParts

\* Steps that write nothing but the working tree.
LEMMA WorkTyped ==
    ASSUME TypeOK, pc # "idle", NEW step \in {"templates", "module", "tests", "verify"}, Goto(step),
           work' \in Trees, UNCHANGED <<run, on, localMain, branch, github>>
    PROVE  TypeOK'
  <1>1. RunType'
    BY GotoTyped, TypeParts DEF RunType, github, Calls
  <1>2. CloneType'
    BY TypeParts DEF CloneType, Goto
  <1> QED
    BY <1>1, <1>2, UnchangedGithub, TypeParts

LEMMA GenerateTyped ==
    ASSUME TypeOK, NEW i \in Generated, NEW next \in {"templates", "tests", "verify"},
           Generate(i, next)
    PROVE  TypeOK'
  <1>1. work' \in Trees
    BY WrittenType DEF Generate, TypeOK
  <1>2. pc # "idle"
    BY DEF Generate, Generated
  <1> QED
    BY <1>1, <1>2, WorkTyped DEF Generate

LEMMA SetupTemplateFilesTyped == ASSUME TypeOK, SetupTemplateFiles PROVE TypeOK'
  <1>1. work' = work \/ work' = [work EXCEPT !["templates"] = 1]
    BY DEF SetupTemplateFiles
  <1>2. work' \in Trees
    <2>1. work \in Trees /\ 1 \in Nat
      BY DEF TypeOK
    <2> QED
      BY <1>1, <2>1, WrittenType
  <1>3. pc # "idle" /\ Goto("module") /\ UNCHANGED <<run, on, localMain, branch, github>>
    BY DEF SetupTemplateFiles
  <1> QED
    BY <1>2, <1>3, WorkTyped

LEMMA VerifyLocalTestsTyped == ASSUME TypeOK, VerifyLocalTests PROVE TypeOK'
  BY MoveTyped DEF VerifyLocalTests, Calls

LEMMA CheckPermissionsTyped == ASSUME TypeOK, CheckPermissions PROVE TypeOK'
  <1> PICK granted \in BOOLEAN :
        /\ run' = [run EXCEPT !.perms = granted]
        /\ Goto(IF granted THEN "merge" ELSE "check")
    BY DEF CheckPermissions
  <1>1. run' \in Runs /\ run'.pr \in 0..Len(prs')
    BY DEF CheckPermissions, TypeOK, Runs, github
  <1>2. RunType'
    BY <1>1, GotoTyped, TypeParts DEF Calls
  <1> QED
    BY <1>2, UnchangedClone, UnchangedGithub, TypeParts DEF CheckPermissions, Goto

LEMMA ConfigureTyped ==
    ASSUME TypeOK, NEW setting \in {"merge", "collaborator", "actions"},
           NEW next \in {"collaborator", "actions", "secret"},
           Configure(setting, next)
    PROVE  TypeOK'
  <1>1. RunType'
    BY GotoTyped, TypeParts DEF Configure, RunType, Calls
  <1>2. CloneType'
    BY UnchangedClone, TypeParts DEF Configure, Goto
  <1>3. GithubType'
    BY TypeParts DEF Configure, GithubType, OpenPR
  <1> QED
    BY <1>1, <1>2, <1>3, TypeParts

LEMMA EnsurePersonalTokenTyped == ASSUME TypeOK, EnsurePersonalToken PROVE TypeOK'
  <1>1. RunType'
    BY GotoTyped, TypeParts DEF EnsurePersonalToken, RunType, Calls
  <1>2. CloneType'
    BY UnchangedClone, TypeParts DEF EnsurePersonalToken, Goto
  <1>3. GithubType'
    BY TypeParts DEF EnsurePersonalToken, GithubType, OpenPR
  <1> QED
    BY <1>1, <1>2, <1>3, TypeParts

LEMMA CheckScaffoldingChangesTyped == ASSUME TypeOK, CheckScaffoldingChanges PROVE TypeOK'
  <1> PICK step \in {"seedcheck", "branch", "ruleset"} : Goto(step)
    BY DEF CheckScaffoldingChanges
  <1> QED
    BY MoveTyped DEF CheckScaffoldingChanges, Calls

LEMMA CheckoutBranchTyped == ASSUME TypeOK, CheckoutBranch PROVE TypeOK'
  <1>1. CASE Fail
    BY <1>1, FailTyped
  <1>2. CASE ~Fail
    <2>1. Goto("commit") /\ UNCHANGED <<run, localMain, github>>
      BY <1>2 DEF CheckoutBranch
    <2>2. on' = "feature" /\ branch' = [tree |-> localMain, base |-> localMain]
      BY <1>2 DEF CheckoutBranch
    <2>3. work' = Switched(work, HEAD, localMain)
      BY <1>2 DEF CheckoutBranch
    <2>4. RunType'
      BY <2>1, GotoTyped, TypeParts DEF CheckoutBranch, RunType, github, Calls
    <2>5. work' \in Trees
      BY <2>3, HEADType, SwitchedType, TypeParts DEF CloneType
    <2>6. CloneType'
      BY <2>1, <2>2, <2>5, TypeParts DEF CloneType, Branches, Goto
    <2> QED
      BY <2>1, <2>4, <2>6, UnchangedGithub, TypeParts
  <1> QED
    BY <1>1, <1>2

LEMMA CommitTyped == ASSUME TypeOK, Commit PROVE TypeOK'
  <1>1. RunType'
    BY GotoTyped, TypeParts DEF Commit, RunType, github, Calls
  <1>2. CloneType'
    BY TypeParts DEF Commit, CloneType, Branches, Goto
  <1> QED
    BY <1>1, <1>2, UnchangedGithub, TypeParts DEF Commit

\* A push leaves the pull requests in their states.
LEMMA PushedPRs ==
    ASSUME TypeOK, Push
    PROVE  /\ prs' \in Seq(PRs) /\ Len(prs') = Len(prs) /\ DOMAIN prs' = DOMAIN prs
           /\ \A n \in DOMAIN prs : prs'[n].state = prs[n].state
  <1>1. prs \in [1..Len(prs) -> PRs] /\ DOMAIN prs = 1..Len(prs) /\ Len(prs) \in Nat
    BY DEF TypeOK
  <1>2. prs' = [n \in DOMAIN prs |-> IF OpenPR(n) THEN [prs[n] EXCEPT !.checks = "pending"]
                                     ELSE prs[n]]
    BY DEF Push
  <1>3. \A n \in DOMAIN prs : prs'[n] \in PRs /\ prs'[n].state = prs[n].state
    BY <1>1, <1>2 DEF PRs
  <1>4. prs' \in [1..Len(prs) -> PRs]
    BY <1>1, <1>2, <1>3
  <1>5. prs' \in Seq(PRs)
    BY <1>1, <1>4, SeqDef
  <1> QED
    BY <1>1, <1>2, <1>3, <1>4, <1>5, LenProperties

LEMMA PushTyped == ASSUME TypeOK, Push PROVE TypeOK'
  <1>1. branch \in Branches
    BY DEF Push, TypeOK
  <1>2. run' \in Runs /\ run'.pr = run.pr
    BY <1>1 DEF Push, TypeOK, Runs
  <1>3. RunType'
    BY <1>2, PushedPRs, GotoTyped, TypeParts DEF Push, RunType, Calls
  <1>4. CloneType'
    BY UnchangedClone, TypeParts DEF Push, Goto
  <1>5. GithubType'
    BY <1>1, PushedPRs, TypeParts DEF Push, GithubType, OpenPR
  <1> QED
    BY <1>3, <1>4, <1>5, TypeParts

LEMMA FindPRTyped == ASSUME TypeOK, FindPR PROVE TypeOK'
  <1>1. ASSUME NEW n \in DOMAIN prs, run' = [run EXCEPT !.pr = n], Goto("automerge"),
               UNCHANGED <<local, github>>
        PROVE  TypeOK'
    <2>1. n \in 1..Len(prs) /\ Len(prs) \in Nat /\ prs' = prs
      BY <1>1 DEF TypeOK, github
    <2>2. run' \in Runs /\ run'.pr \in 0..Len(prs')
      BY <1>1, <2>1 DEF FindPR, TypeOK, Runs
    <2>3. RunType'
      BY <1>1, <2>2, GotoTyped, TypeParts DEF Calls
    <2> QED
      BY <1>1, <2>3, UnchangedClone, UnchangedGithub, TypeParts DEF Goto
  <1>2. CASE Goto("create") /\ UNCHANGED <<run, local, github>>
    BY <1>2, MoveTyped DEF FindPR, Calls
  <1> QED
    BY <1>1, <1>2, FailTyped DEF FindPR

\* A new pull request, when none is open, is the only open one.
LEMMA NewPRTyped ==
    ASSUME GithubType, NoOpenPR, prs' = Append(prs, NewPR),
           UNCHANGED <<main, remote, settings, secret, ruleset, seedIssues>>
    PROVE  /\ GithubType' /\ Len(prs') = Len(prs) + 1 /\ Len(prs) \in Nat
           /\ DOMAIN prs' = 1..Len(prs') /\ prs'[Len(prs')] = NewPR
           /\ \A n \in DOMAIN prs : n \in DOMAIN prs' /\ prs'[n] = prs[n]
           /\ \A n \in DOMAIN prs' : prs'[n].state = "open" => n = Len(prs')
  <1>1. prs \in Seq(PRs) /\ NewPR \in PRs
    BY DEF GithubType, NewPR, PRs
  <1>2. /\ prs' \in Seq(PRs) /\ Len(prs') = Len(prs) + 1 /\ Len(prs) \in Nat
        /\ DOMAIN prs = 1..Len(prs) /\ DOMAIN prs' = 1..Len(prs')
        /\ prs'[Len(prs')] = NewPR /\ \A n \in 1..Len(prs) : prs'[n] = prs[n]
    BY <1>1
  <1>3. \A n \in DOMAIN prs' : prs'[n].state = "open" => n = Len(prs')
    BY <1>2 DEF NoOpenPR, OpenPR
  <1> QED
    BY <1>2, <1>3 DEF GithubType, OpenPR

LEMMA CreatePRTyped == ASSUME TypeOK, CreatePR PROVE TypeOK'
  <1>1. CASE NoOpenPR /\ remote # None
    <2>1. /\ Goto("automerge") /\ prs' = Append(prs, NewPR)
          /\ run' = [run EXCEPT !.pr = Len(prs) + 1]
          /\ UNCHANGED <<local, main, remote, settings, secret, ruleset, seedIssues>>
      BY <1>1 DEF CreatePR
    <2>2. GithubType' /\ Len(prs') = Len(prs) + 1 /\ Len(prs) \in Nat
      BY <1>1, <2>1, NewPRTyped, TypeParts
    <2>3. run' \in Runs /\ run'.pr \in 0..Len(prs')
      BY <2>1, <2>2 DEF CreatePR, TypeOK, Runs
    <2>4. RunType'
      BY <2>1, <2>3, GotoTyped, TypeParts DEF Calls
    <2> QED
      BY <2>1, <2>2, <2>4, UnchangedClone, TypeParts DEF Goto
  <1>2. CASE ~(NoOpenPR /\ remote # None)
    BY <1>2, MoveTyped DEF CreatePR, Calls
  <1> QED
    BY <1>1, <1>2
\* A change of one pull request that leaves open at most what was open.
LEMMA ChangedPR ==
    ASSUME GithubType, NEW n \in DOMAIN prs, NEW p \in PRs, prs' = [prs EXCEPT ![n] = p],
           p.state = "open" => OpenPR(n)
    PROVE  /\ prs' \in Seq(PRs) /\ Len(prs') = Len(prs) /\ DOMAIN prs' = DOMAIN prs
           /\ prs'[n] = p /\ \A m \in DOMAIN prs : m # n => prs'[m] = prs[m]
           /\ \A m \in DOMAIN prs' : prs'[m].state = "open" => OpenPR(m)
           /\ \A m, k \in DOMAIN prs' : prs'[m].state = "open" /\ prs'[k].state = "open" => m = k
  <1>1. prs \in Seq(PRs) /\ Len(prs) \in Nat /\ DOMAIN prs = 1..Len(prs)
    BY DEF GithubType
  <1>2. /\ prs' \in Seq(PRs) /\ Len(prs') = Len(prs)
        /\ \A j \in 1..Len(prs) : prs'[j] = IF j = n THEN p ELSE prs[j]
    BY <1>1, ExceptSeq
  <1>3. DOMAIN prs' = DOMAIN prs
    BY <1>1, <1>2
  <1>4. \A m \in DOMAIN prs' : prs'[m].state = "open" => OpenPR(m)
    BY <1>1, <1>2, <1>3 DEF OpenPR
  <1> QED
    BY <1>1, <1>2, <1>3, <1>4 DEF GithubType

LEMMA MergeTyped ==
    ASSUME GithubType, NEW n \in DOMAIN prs, Merge(n),
           UNCHANGED <<settings, secret, ruleset, seedIssues>>
    PROVE  /\ GithubType' /\ Len(prs') = Len(prs) /\ DOMAIN prs' = DOMAIN prs
           /\ prs'[n].state = "merged" /\ \A m \in DOMAIN prs : m # n => prs'[m] = prs[m]
           /\ \A m \in DOMAIN prs' : ~OpenPR(m)'
  <1>1. remote \in Branches /\ OpenPR(n)
    BY DEF Merge, CanMerge, GithubType
  <1>2. main' \in Trees /\ remote' \in Branches \cup {None}
    BY <1>1 DEF Merge, MergedTree, Branches, Trees, GithubType
  <1>3. prs[n] \in PRs
    BY ElementOfSeq DEF GithubType
  <1>4. /\ [prs[n] EXCEPT !.state = "merged"] \in PRs
        /\ [prs[n] EXCEPT !.state = "merged"].state = "merged"
        /\ prs' = [prs EXCEPT ![n] = [prs[n] EXCEPT !.state = "merged"]]
    BY <1>3 DEF PRs, Merge
  <1>5. /\ prs' \in Seq(PRs) /\ Len(prs') = Len(prs) /\ DOMAIN prs' = DOMAIN prs
        /\ prs'[n].state = "merged" /\ \A m \in DOMAIN prs : m # n => prs'[m] = prs[m]
        /\ \A m, k \in DOMAIN prs' : prs'[m].state = "open" /\ prs'[k].state = "open" => m = k
        /\ \A m \in DOMAIN prs' : prs'[m].state = "open" => OpenPR(m)
    BY <1>1, <1>4, ChangedPR
  <1>6. \A m \in DOMAIN prs' : ~OpenPR(m)'
    BY <1>1, <1>5 DEF OpenPR, GithubType
  <1> QED
    BY <1>2, <1>5, <1>6 DEF GithubType, OpenPR

LEMMA EnableAutoMergeTyped == ASSUME TypeOK, EnableAutoMerge PROVE TypeOK'
  <1>1. CASE /\ Goto("poll") /\ Merge(run.pr)
             /\ UNCHANGED <<run, local, settings, secret, ruleset, seedIssues>>
    <2>1. run.pr \in DOMAIN prs
      BY DEF EnableAutoMerge, TypeOK
    <2>2. GithubType' /\ Len(prs') = Len(prs)
      BY <1>1, <2>1, MergeTyped, TypeParts
    <2>3. RunType'
      BY <1>1, <2>2, GotoTyped, TypeParts DEF EnableAutoMerge, RunType, Calls
    <2> QED
      BY <1>1, <2>2, <2>3, UnchangedClone, TypeParts DEF Goto
  <1>2. CASE Goto("poll") /\ UNCHANGED <<run, local, github>>
    BY <1>2, MoveTyped DEF EnableAutoMerge, Calls
  <1> QED
    BY <1>1, <1>2, FailTyped DEF EnableAutoMerge, Arm, github

LEMMA PollPRStatusTyped == ASSUME TypeOK, PollPRStatus PROVE TypeOK'
  <1>1. CASE Goto("checkout") /\ UNCHANGED <<run, local, github>>
    BY <1>1, MoveTyped DEF PollPRStatus, Calls
  <1> QED
    BY <1>1, FailTyped DEF PollPRStatus

LEMMA CheckoutMainTyped == ASSUME TypeOK, CheckoutMain PROVE TypeOK'
  <1>1. CASE ~Fail
    <2>1. /\ Goto("pull") /\ UNCHANGED <<run, localMain, branch, github>>
          /\ on' = "main" /\ work' = Switched(work, HEAD, localMain)
      BY <1>1 DEF CheckoutMain
    <2>2. work' \in Trees
      BY <2>1, HEADType, SwitchedType, TypeParts DEF CloneType
    <2>3. RunType'
      BY <2>1, GotoTyped, TypeParts DEF CheckoutMain, RunType, github, Calls
    <2>4. CloneType'
      BY <2>1, <2>2, TypeParts DEF CloneType, Goto
    <2> QED
      BY <2>1, <2>3, <2>4, UnchangedGithub, TypeParts
  <1> QED
    BY <1>1, FailTyped

LEMMA PullMainTyped == ASSUME TypeOK, PullMain PROVE TypeOK'
  <1>1. CASE ~Fail
    <2>1. /\ Goto("delete") /\ UNCHANGED <<run, on, branch, github>>
          /\ localMain' = main /\ work' = Switched(work, localMain, main)
      BY <1>1 DEF PullMain
    <2>2. work' \in Trees /\ localMain' \in Trees
      BY <2>1, SwitchedType, TypeParts DEF CloneType, GithubType
    <2>3. RunType'
      BY <2>1, GotoTyped, TypeParts DEF PullMain, RunType, github, Calls
    <2>4. CloneType'
      BY <2>1, <2>2, TypeParts DEF PullMain, CloneType, Goto
    <2> QED
      BY <2>1, <2>3, <2>4, UnchangedGithub, TypeParts
  <1> QED
    BY <1>1, FailTyped

LEMMA DeleteBranchTyped == ASSUME TypeOK, DeleteBranch PROVE TypeOK'
  <1> PICK step \in {"ruleset", "seedcheck"} : Goto(step)
    BY DEF DeleteBranch
  <1>1. RunType'
    BY GotoTyped, TypeParts DEF DeleteBranch, RunType, github, Calls
  <1>2. CloneType'
    BY TypeParts DEF DeleteBranch, CloneType, Goto
  <1> QED
    BY <1>1, <1>2, UnchangedGithub, TypeParts DEF DeleteBranch

LEMMA ConfigureRulesetsTyped == ASSUME TypeOK, ConfigureRulesets PROVE TypeOK'
  <1>1. RunType'
    BY GotoTyped, TypeParts DEF ConfigureRulesets, RunType, Calls
  <1>2. CloneType'
    BY UnchangedClone, TypeParts DEF ConfigureRulesets, Goto
  <1>3. GithubType'
    BY TypeParts DEF ConfigureRulesets, GithubType, OpenPR
  <1> QED
    BY <1>1, <1>2, <1>3, TypeParts

LEMMA CompleteTyped ==
    ASSUME TypeOK, pc # "idle", Complete, UNCHANGED local, GithubType', prs' = prs
    PROVE  TypeOK'
  <1>1. RunType'
    BY TypeParts DEF RunType, Complete
  <1> QED
    BY <1>1, UnchangedClone, TypeParts DEF Complete

LEMMA CheckSeedFilesTyped == ASSUME TypeOK, CheckSeedFiles PROVE TypeOK'
  <1>1. CASE Complete
    BY <1>1, CompleteTyped, UnchangedGithub, TypeParts DEF CheckSeedFiles, github
  <1>2. CASE Goto("seedlist") /\ UNCHANGED run
    BY <1>2, MoveTyped DEF CheckSeedFiles, Calls
  <1> QED
    BY <1>1, <1>2 DEF CheckSeedFiles

LEMMA ListSeedIssuesTyped == ASSUME TypeOK, ListSeedIssues PROVE TypeOK'
  <1>1. CASE Complete
    BY <1>1, CompleteTyped, UnchangedGithub, TypeParts DEF ListSeedIssues, github
  <1>2. CASE Goto("seedcreate") /\ UNCHANGED run
    BY <1>2, MoveTyped DEF ListSeedIssues, Calls
  <1> QED
    BY <1>1, <1>2 DEF ListSeedIssues

LEMMA CreateSeedIssueTyped == ASSUME TypeOK, CreateSeedIssue PROVE TypeOK'
  <1>1. GithubType'
    BY TypeParts DEF CreateSeedIssue, GithubType, OpenPR
  <1> QED
    BY <1>1, CompleteTyped DEF CreateSeedIssue

LEMMA StartTyped == ASSUME TypeOK, NEW m \in Modes, Start(m) PROVE TypeOK'
  <1>1. m \in [admin : BOOLEAN, force : BOOLEAN, skip : BOOLEAN]
    BY ModesType
  <1>2. Local(m) \in Runs /\ Local(m).pr = 0
    BY <1>1 DEF Local, Runs
  <1>3. RunType'
    BY <1>2, TypeParts DEF Start, RunType, GithubType, Calls, github
  <1> QED
    BY <1>3, UnchangedClone, UnchangedGithub, TypeParts DEF Start

-----------------------------------------------------------------------------
(* People and GitHub leave the run alone. *)

LEMMA OutsideTyped ==
    ASSUME TypeOK, Outside, edits' \in Nat, Len(prs') = Len(prs) PROVE RunType'
  BY TypeParts DEF RunType, Outside

LEMMA CloneEnvTyped ==
    ASSUME TypeOK, EditSeed \/ GoBackToMain \/ UpdateMain PROVE TypeOK'
  <1>1. work' \in Trees /\ localMain' \in Trees
    <2>1. CASE EditSeed
      <3>1. edits' + 2 \in Nat /\ work' = [work EXCEPT !["seed"] = edits' + 2]
        BY <2>1 DEF EditSeed, TypeOK
      <3>2. work \in Trees /\ localMain' = localMain /\ localMain \in Trees
        BY <2>1 DEF EditSeed, TypeOK
      <3>3. work' \in Trees
        BY <3>1, <3>2, WrittenType
      <3> QED
        BY <3>2, <3>3
    <2>2. CASE GoBackToMain
      BY <2>2, HEADType, SwitchedType, TypeParts DEF GoBackToMain, CloneType
    <2>3. CASE UpdateMain
      BY <2>3, SwitchedType DEF UpdateMain, TypeOK
    <2> QED
      BY <2>1, <2>2, <2>3
  <1>2. RunType'
    BY OutsideTyped DEF EditSeed, GoBackToMain, UpdateMain, github, TypeOK
  <1>3. CloneType'
    BY <1>1, TypeParts DEF EditSeed, GoBackToMain, UpdateMain, CloneType, Outside
  <1> QED
    BY <1>2, <1>3, UnchangedGithub, TypeParts DEF EditSeed, GoBackToMain, UpdateMain

LEMMA GithubEnvTyped ==
    ASSUME TypeOK, Environment, ~(EditSeed \/ GoBackToMain \/ UpdateMain) PROVE TypeOK'
  <1>1. UNCHANGED local /\ Outside /\ edits' \in Nat
    BY DEF Environment, PushSeed, CreatePRWorkflow, ReportChecks, MergePR, ClosePR,
           CloseSeedIssue, TypeOK
  <1>2. CloneType'
    BY <1>1, UnchangedClone, TypeParts DEF Outside
  <1>3. ASSUME GithubType', Len(prs') = Len(prs) PROVE TypeOK'
    BY <1>1, <1>2, <1>3, OutsideTyped, TypeParts
  <1>4. CASE PushSeed
    <2>1. main' \in Trees
      <3>1. edits' + 2 \in Nat /\ main' = [main EXCEPT !["seed"] = edits' + 2]
        BY <1>4 DEF PushSeed, TypeOK
      <3> QED
        BY <3>1, WrittenType DEF TypeOK
    <2> QED
      BY <1>3, <1>4, <2>1, TypeParts DEF PushSeed, GithubType, OpenPR
  <1>5. CASE CreatePRWorkflow
    <2>1. prs = <<>> /\ prs' = Append(prs, NewPR) /\ NoOpenPR
      BY <1>5 DEF CreatePRWorkflow, NoOpenPR
    <2>2. GithubType' /\ Len(prs) = 0 /\ Len(prs') = 1
      BY <1>5, <2>1, NewPRTyped, TypeParts DEF CreatePRWorkflow
    <2>3. pc # "idle" => run'.pr \in 0..Len(prs')
      BY <1>1, <2>2, TypeParts DEF RunType, Outside
    <2>4. RunType'
      BY <1>1, <2>3, TypeParts DEF RunType, Outside
    <2> QED
      BY <1>2, <2>2, <2>4, TypeParts
  <1>6. CASE ReportChecks
    <2>1. PICK n \in DOMAIN prs, outcome \in {"ok", "failed"} :
            prs' = [prs EXCEPT ![n] = [prs[n] EXCEPT !.checks = outcome]]
      BY <1>6 DEF ReportChecks
    <2>2. prs[n] \in PRs
      BY ElementOfSeq, TypeParts DEF GithubType
    <2>3. /\ [prs[n] EXCEPT !.checks = outcome] \in PRs
          /\ [prs[n] EXCEPT !.checks = outcome].state = prs[n].state
      BY <2>2 DEF PRs
    <2>4. GithubType' /\ Len(prs') = Len(prs)
      BY <1>6, <2>1, <2>3, ChangedPR, TypeParts DEF ReportChecks, GithubType, OpenPR
    <2> QED
      BY <1>3, <2>4
  <1>7. CASE MergePR
    BY <1>3, <1>7, MergeTyped, TypeParts DEF MergePR
  <1>8. CASE ClosePR
    <2>1. PICK n \in DOMAIN prs : prs' = [prs EXCEPT ![n] = [prs[n] EXCEPT !.state = "closed"]]
      BY <1>8 DEF ClosePR
    <2>2. prs[n] \in PRs
      BY ElementOfSeq, TypeParts DEF GithubType
    <2>3. /\ [prs[n] EXCEPT !.state = "closed"] \in PRs
          /\ [prs[n] EXCEPT !.state = "closed"].state = "closed"
      BY <2>2 DEF PRs
    <2>4. GithubType' /\ Len(prs') = Len(prs)
      BY <1>8, <2>1, <2>3, ChangedPR, TypeParts DEF ClosePR, GithubType, OpenPR
    <2> QED
      BY <1>3, <2>4
  <1>9. CASE CloseSeedIssue
    <2>1. GithubType'
      BY <1>9, TypeParts DEF CloseSeedIssue, GithubType, OpenPR
    <2> QED
      BY <1>3, <1>9, <2>1 DEF CloseSeedIssue
  <1> QED
    BY <1>4, <1>5, <1>6, <1>7, <1>8, <1>9 DEF Environment

-----------------------------------------------------------------------------
(* The types hold *)

LEMMA RunStepTyped == ASSUME TypeOK, RunStep PROVE TypeOK'
  <1>1. CASE \/ Generate("directories", "templates") \/ Generate("module", "tests")
             \/ Generate("tests", "verify")
    BY <1>1, GenerateTyped DEF Generated
  <1>2. CASE \/ Configure("merge", "collaborator") \/ Configure("collaborator", "actions")
             \/ Configure("actions", "secret")
    BY <1>2, ConfigureTyped
  <1>3. CASE PollTimeout
    BY <1>3, FailTyped DEF PollTimeout
  <1>4. CASE \/ SetupTemplateFiles \/ VerifyLocalTests \/ CheckPermissions
             \/ EnsurePersonalToken \/ CheckScaffoldingChanges
    BY <1>4, SetupTemplateFilesTyped, VerifyLocalTestsTyped, CheckPermissionsTyped,
       EnsurePersonalTokenTyped, CheckScaffoldingChangesTyped
  <1>5. CASE CheckoutBranch \/ Commit \/ Push \/ FindPR \/ CreatePR \/ EnableAutoMerge
    BY <1>5, CheckoutBranchTyped, CommitTyped, PushTyped, FindPRTyped, CreatePRTyped,
       EnableAutoMergeTyped
  <1>6. CASE PollPRStatus \/ CheckoutMain \/ PullMain \/ DeleteBranch
    BY <1>6, PollPRStatusTyped, CheckoutMainTyped, PullMainTyped, DeleteBranchTyped
  <1>7. CASE ConfigureRulesets \/ CheckSeedFiles \/ ListSeedIssues \/ CreateSeedIssue
    BY <1>7, ConfigureRulesetsTyped, CheckSeedFilesTyped, ListSeedIssuesTyped,
       CreateSeedIssueTyped
  <1> QED
    BY <1>1, <1>2, <1>3, <1>4, <1>5, <1>6, <1>7 DEF RunStep

LEMMA StepTyped == TypeOK /\ [Next]_vars => TypeOK'
  <1> SUFFICES ASSUME TypeOK, [Next]_vars PROVE TypeOK'
    OBVIOUS
  <1>1. CASE UNCHANGED vars
    BY <1>1 DEF vars, TypeOK, local, github, OpenPR
  <1>2. CASE Abort
    BY <1>2, FailTyped DEF Abort
  <1> QED
    BY <1>1, <1>2, StartTyped, RunStepTyped, CloneEnvTyped, GithubEnvTyped DEF Next

\* Every variable keeps its type, for any starting trees, ways to run and bounds: in
\* particular a run never commits or pushes from main nor pulls into the feature branch,
\* and never two pull requests of the branch are open.
THEOREM SetupTypeCorrect == Spec => []TypeOK
  <1>1. Init => TypeOK
    BY InitTyped
  <1>2. TypeOK /\ [Next]_vars => TypeOK'
    BY StepTyped
  <1> QED
    BY <1>1, <1>2, PTL DEF Spec

-----------------------------------------------------------------------------
(* What people wrote survives *)

LEMMA SwitchKeeps ==
    ASSUME NEW w \in Trees, NEW h \in Trees, NEW b \in Trees, w["seed"] # h["seed"]
    PROVE  Switched(w, h, b)["seed"] = w["seed"]
  BY DEF Switched, Trees, Parts

\* Whatever a run does, and wherever it stops, it never overwrites seed files that
\* people wrote and did not commit.
THEOREM EditsSurvive == Spec => UncommittedKept
  <1>1. ASSUME TypeOK, [Next]_vars, work["seed"] # HEAD["seed"], edits' = edits
        PROVE  work'["seed"] = work["seed"]
    <2>1. CASE UNCHANGED work
      BY <2>1
    <2>2. CASE \E i \in Generated, next \in Calls : Generate(i, next)
      BY <1>1, <2>2 DEF Generate, TypeOK, Trees, Generated
    <2>3. CASE SetupTemplateFiles
      BY <1>1, <2>3 DEF SetupTemplateFiles, TypeOK, Trees
    <2>4. CASE (CheckoutBranch \/ CheckoutMain) /\ ~Fail
      BY <1>1, <2>4, SwitchKeeps, HEADType, TypeParts
         DEF CheckoutBranch, CheckoutMain, CloneType
    <2>5. CASE PullMain /\ ~Fail
      BY <1>1, <2>5, SwitchKeeps DEF PullMain, TypeOK, HEAD
    <2>6. CASE EditSeed
      BY <1>1, <2>6 DEF EditSeed, TypeOK
    <2>7. CASE GoBackToMain \/ UpdateMain
      BY <1>1, <2>7, SwitchKeeps, HEADType, TypeParts
         DEF GoBackToMain, UpdateMain, CloneType, GithubType, HEAD
    <2> QED
      <3>1. CASE RunStep
        BY <3>1, <2>1, <2>2, <2>3, <2>4, <2>5
           DEF RunStep, VerifyLocalTests, CheckPermissions, Configure, EnsurePersonalToken,
               CheckScaffoldingChanges, Commit, Push, FindPR, CreatePR, EnableAutoMerge,
               PollPRStatus, PollTimeout, DeleteBranch, ConfigureRulesets, CheckSeedFiles,
               ListSeedIssues, CreateSeedIssue, Fail, local, Generated, Calls
      <3>2. CASE Environment
        BY <3>2, <2>1, <2>6, <2>7
           DEF Environment, PushSeed, CreatePRWorkflow, ReportChecks, MergePR, ClosePR,
               CloseSeedIssue, local
      <3>3. CASE Abort \/ UNCHANGED vars \/ \E m \in Modes : Start(m)
        BY <3>3, <2>1 DEF Abort, Fail, Start, vars, local
      <3> QED
        BY <1>1, <3>1, <3>2, <3>3 DEF Next
  <1>2. TypeOK /\ [Next]_vars =>
          [work["seed"] # HEAD["seed"] /\ edits' = edits => work'["seed"] = work["seed"]]_vars
    BY <1>1
  <1> QED
    BY <1>2, SetupTypeCorrect, PTL DEF Spec, UncommittedKept
-----------------------------------------------------------------------------
(* One seed issue *)

\* No issue is open when one is about to be created.
SeedInv == OneSeedIssue /\ (pc = "seedcreate" => seedIssues = 0)

LEMMA StepSeed == TypeOK /\ SeedInv /\ [Next]_vars => SeedInv'
  <1> SUFFICES ASSUME TypeOK, SeedInv, [Next]_vars PROVE SeedInv'
    OBVIOUS
  <1>1. CASE pc' # "seedcreate" /\ seedIssues' = seedIssues
    BY <1>1 DEF SeedInv, OneSeedIssue
  <1>2. CASE ListSeedIssues
    BY <1>2 DEF ListSeedIssues, Goto, Complete, SeedInv, OneSeedIssue, github
  <1>3. CASE CreateSeedIssue
    BY <1>3 DEF CreateSeedIssue, Complete, SeedInv, OneSeedIssue, TypeOK
  <1>4. CASE CloseSeedIssue
    BY <1>4 DEF CloseSeedIssue, Outside, SeedInv, OneSeedIssue, TypeOK
  <1>5. CASE UNCHANGED <<pc, seedIssues>>
    BY <1>5 DEF SeedInv, OneSeedIssue
  <1> QED
    <2>1. CASE RunStep
      BY <2>1, <1>1, <1>2, <1>3
         DEF RunStep, Generate, SetupTemplateFiles, VerifyLocalTests, CheckPermissions,
             Configure, EnsurePersonalToken, CheckScaffoldingChanges, CheckoutBranch, Commit,
             Push, FindPR, CreatePR, EnableAutoMerge, Arm, PollPRStatus, PollTimeout,
             CheckoutMain, PullMain, DeleteBranch, ConfigureRulesets, CheckSeedFiles, Goto,
             Fail, Complete, github
    <2>2. CASE Environment
      BY <2>2, <1>4, <1>5
         DEF Environment, EditSeed, PushSeed, GoBackToMain, UpdateMain, CreatePRWorkflow,
             ReportChecks, MergePR, ClosePR, Outside, github
    <2>3. CASE Abort \/ \E m \in Modes : Start(m)
      BY <2>3, <1>1 DEF Abort, Fail, Start, github
    <2> QED
      BY <2>1, <2>2, <2>3, <1>5 DEF Next, vars, github

\* However many runs follow each other, each killed anywhere, two seed issues are never
\* open.
THEOREM NeverTwoSeedIssues == Spec => []OneSeedIssue
  <1>1. Init => SeedInv
    BY DEF Init, SeedInv, OneSeedIssue
  <1>2. SeedInv => OneSeedIssue
    BY DEF SeedInv
  <1> QED
    BY <1>1, <1>2, StepSeed, SetupTypeCorrect, PTL DEF Spec

-----------------------------------------------------------------------------
(* The ruleset comes after the merge *)

AfterPush == {"find", "create", "relist", "automerge", "poll", "checkout", "pull", "delete"}
WithPR    == {"automerge", "poll", "checkout", "pull", "delete"}
Synced    == {"checkout", "pull", "delete"}
Past(calls) == pc \in calls \/ (pc = "ruleset" /\ ~run.skip)

\* What the run pushed is on main.
Carried == \A i \in Generated :
    run.pushed.tree[i] # run.pushed.base[i] => main[i] = run.pushed.tree[i]

\* Once a run has pushed, the remote branch is what it pushed until it is merged and
\* deleted; the pull request it works with is then the only one that can be open, so that
\* its merge carries the push.
PRInv ==
    /\ \A n \in DOMAIN prs : OpenPR(n) => remote \in Branches
    /\ pc \in {"branch", "commit", "push"} => ~run.skip
    /\ Past(AfterPush) => run.pushed \in Branches /\ remote \in {None, run.pushed} /\ ~run.skip
    /\ Past(WithPR) => /\ run.pr # 0
                       /\ \A n \in DOMAIN prs : OpenPR(n) => n = run.pr
                       /\ prs[run.pr].state = "merged" => Carried
    /\ Past(Synced) => prs[run.pr].state = "merged"

\* A step of the run that is not between the checkout of the branch and the ruleset.
LEMMA EarlyOrLate ==
    ASSUME PRInv, UNCHANGED <<prs, remote>>,
           pc' \notin AfterPush \cup {"branch", "commit", "push", "ruleset"}
    PROVE  PRInv'
  BY DEF PRInv, Past, AfterPush, WithPR, Synced, OpenPR

\* A step that opens and merges nothing.
LEMMA Quiet ==
    ASSUME PRInv, run' = run, remote' = remote,
           \A i \in Generated : main'[i] = main[i],
           \A n \in DOMAIN prs' : OpenPR(n)' => n \in DOMAIN prs /\ OpenPR(n),
           Past(WithPR) => (prs'[run.pr].state = "merged" <=> prs[run.pr].state = "merged"),
           pc' \in {"branch", "commit", "push"} => ~run.skip,
           Past(AfterPush)' => Past(AfterPush), Past(WithPR)' => Past(WithPR),
           Past(Synced)' => Past(Synced)
                            \/ (Past(WithPR) /\ prs[run.pr].state = "merged")
    PROVE  PRInv'
  <1>1. Carried => Carried'
    BY DEF Carried
  <1>2. Past(Synced) => Past(WithPR)
    BY DEF Past, Synced, WithPR
  <1> QED
    BY <1>1, <1>2 DEF PRInv, OpenPR

LEMMA MergeCarries ==
    ASSUME TypeOK, PRInv, NEW n \in DOMAIN prs, Merge(n),
           UNCHANGED <<run, settings, secret, ruleset, seedIssues>>
    PROVE  /\ \A m \in DOMAIN prs' : ~OpenPR(m)'
           /\ remote' \in {None, remote}
           /\ Past(WithPR) => prs'[run.pr].state = "merged" /\ Carried'
  <1>1. /\ \A m \in DOMAIN prs' : ~OpenPR(m)'
        /\ prs'[n].state = "merged"
    BY MergeTyped, TypeParts
  <1>2. OpenPR(n) /\ remote # None /\ main' = MergedTree(remote) /\ remote' \in {None, remote}
    BY DEF Merge, CanMerge
  <1>3. ASSUME Past(WithPR) PROVE prs'[run.pr].state = "merged" /\ Carried'
    <2>1. n = run.pr /\ remote = run.pushed
      BY <1>2, <1>3 DEF PRInv, Past, WithPR, AfterPush
    <2>2. Carried'
      BY <1>2, <2>1 DEF Carried, MergedTree, Parts
    <2> QED
      BY <1>1, <2>1, <2>2
  <1> QED
    BY <1>1, <1>2, <1>3

LEMMA FailPR == ASSUME PRInv, Fail PROVE PRInv'
  BY EarlyOrLate DEF Fail, github, AfterPush

LEMMA EarlyPR ==
    ASSUME TypeOK, PRInv,
           \/ Generate("directories", "templates") \/ SetupTemplateFiles
           \/ Generate("module", "tests") \/ Generate("tests", "verify") \/ VerifyLocalTests
           \/ CheckPermissions \/ Configure("merge", "collaborator")
           \/ Configure("collaborator", "actions") \/ Configure("actions", "secret")
           \/ EnsurePersonalToken
    PROVE  PRInv'
  BY EarlyOrLate
     DEF Generate, SetupTemplateFiles, VerifyLocalTests, CheckPermissions, Configure,
         EnsurePersonalToken, Goto, github, AfterPush

LEMMA LatePR ==
    ASSUME TypeOK, PRInv,
           ConfigureRulesets \/ CheckSeedFiles \/ ListSeedIssues \/ CreateSeedIssue
    PROVE  PRInv'
  BY EarlyOrLate
     DEF ConfigureRulesets, CheckSeedFiles, ListSeedIssues, CreateSeedIssue, Complete, Goto,
         github, AfterPush

LEMMA CheckScaffoldingChangesPR == ASSUME PRInv, CheckScaffoldingChanges PROVE PRInv'
  <1>1. UNCHANGED <<run, main, remote, prs>> /\ pc = "check"
    BY DEF CheckScaffoldingChanges, github
  <1>2. \/ pc' = "seedcheck"
        \/ pc' = "branch" /\ ~run.skip
        \/ pc' = "ruleset" /\ run.skip
    BY DEF CheckScaffoldingChanges, Goto
  <1> QED
    BY <1>1, <1>2, Quiet DEF Past, AfterPush, WithPR, Synced, OpenPR

LEMMA BranchPR == ASSUME PRInv, CheckoutBranch \/ Commit PROVE PRInv'
  <1>1. CASE ~Fail
    <2>1. /\ UNCHANGED <<run, main, remote, prs>> /\ pc \in {"branch", "commit"}
          /\ pc' \in {"commit", "push"}
      BY <1>1 DEF CheckoutBranch, Commit, Goto, github
    <2>2. ~run.skip
      BY <2>1 DEF PRInv
    <2> QED
      BY <2>1, <2>2, Quiet DEF Past, AfterPush, WithPR, Synced, OpenPR
  <1> QED
    BY <1>1, FailPR

LEMMA PushPR == ASSUME TypeOK, PRInv, Push PROVE PRInv'
  <1>1. /\ branch \in Branches /\ remote' = branch /\ pc = "push" /\ pc' = "find"
        /\ run' = [run EXCEPT !.pushed = branch] /\ run \in Runs
    BY DEF Push, Goto, TypeOK
  <1>2. run'.pushed = branch /\ run'.skip = run.skip /\ ~run.skip
    BY <1>1 DEF Runs, PRInv
  <1> QED
    BY <1>1, <1>2 DEF PRInv, Past, AfterPush, WithPR, Synced

LEMMA FindPRPR == ASSUME TypeOK, PRInv, FindPR PROVE PRInv'
  <1>1. ASSUME NEW n \in DOMAIN prs, OpenPR(n), run' = [run EXCEPT !.pr = n],
               Goto("automerge"), UNCHANGED <<local, github>>
        PROVE  PRInv'
    <2>1. n # 0 /\ run \in Runs /\ pc \in {"find", "relist"} /\ pc' = "automerge"
      BY <1>1 DEF FindPR, TypeOK, Goto
    <2>2. run'.pr = n /\ run'.pushed = run.pushed /\ run'.skip = run.skip
      BY <1>1, <2>1 DEF Runs
    <2>3. /\ run.pushed \in Branches /\ remote \in {None, run.pushed} /\ ~run.skip
          /\ UNCHANGED <<prs, remote, main>>
      BY <1>1, <2>1 DEF PRInv, Past, AfterPush, github
    <2>4. \A m \in DOMAIN prs : OpenPR(m) => m = n
      BY <1>1 DEF TypeOK
    <2>5. prs[n].state # "merged"
      BY <1>1 DEF OpenPR
    <2> QED
      BY <2>1, <2>2, <2>3, <2>4, <2>5 DEF PRInv, Past, AfterPush, WithPR, Synced, OpenPR
  <1>2. CASE pc = "find" /\ Goto("create") /\ UNCHANGED <<run, local, github>>
    BY <1>2, Quiet DEF Goto, Past, AfterPush, WithPR, Synced, OpenPR, github
  <1> QED
    BY <1>1, <1>2, FailPR DEF FindPR

LEMMA CreatePRPR == ASSUME TypeOK, PRInv, CreatePR PROVE PRInv'
  <1>1. CASE NoOpenPR /\ remote # None
    <2>1. /\ prs' = Append(prs, NewPR) /\ run' = [run EXCEPT !.pr = Len(prs) + 1]
          /\ UNCHANGED <<main, remote, settings, secret, ruleset, seedIssues>>
          /\ pc = "create" /\ pc' = "automerge" /\ run \in Runs
      BY <1>1 DEF CreatePR, Goto, TypeOK
    <2>2. /\ Len(prs) \in Nat /\ Len(prs') = Len(prs) + 1 /\ prs'[Len(prs')] = NewPR
          /\ \A n \in DOMAIN prs' : prs'[n].state = "open" => n = Len(prs')
      BY <1>1, <2>1, NewPRTyped, TypeParts
    <2>3. run'.pr = Len(prs') /\ run'.pushed = run.pushed /\ run'.skip = run.skip
      BY <2>1, <2>2 DEF Runs
    <2>4. run.pushed \in Branches /\ remote = run.pushed /\ ~run.skip
      BY <1>1, <2>1 DEF PRInv, Past, AfterPush
    <2>5. prs'[run'.pr].state # "merged" /\ run'.pr # 0
      BY <2>2, <2>3 DEF NewPR
    <2> QED
      BY <2>1, <2>2, <2>3, <2>4, <2>5 DEF PRInv, Past, AfterPush, WithPR, Synced, OpenPR
  <1>2. CASE ~(NoOpenPR /\ remote # None)
    BY <1>2, Quiet DEF CreatePR, Goto, Past, AfterPush, WithPR, Synced, OpenPR, github
  <1> QED
    BY <1>1, <1>2

\* A merge, by whomever, while the run is where it was or goes on to poll.
LEMMA MergedPR ==
    ASSUME TypeOK, PRInv, NEW n \in DOMAIN prs, Merge(n),
           UNCHANGED <<run, settings, secret, ruleset, seedIssues>>,
           pc' = pc \/ (pc = "automerge" /\ pc' = "poll")
    PROVE  PRInv'
  <1>1. /\ \A m \in DOMAIN prs' : ~OpenPR(m)'
        /\ remote' \in {None, remote}
        /\ Past(WithPR) => prs'[run.pr].state = "merged" /\ Carried'
    BY MergeCarries
  <1>2. /\ Past(AfterPush)' => Past(AfterPush)
        /\ Past(WithPR)' => Past(WithPR)
        /\ Past(Synced)' => Past(WithPR)
        /\ pc' \in {"branch", "commit", "push"} => ~run.skip
    BY DEF Past, AfterPush, WithPR, Synced, PRInv
  <1>3. Past(AfterPush) => run.pushed \in Branches /\ remote' \in {None, run.pushed} /\ ~run.skip
    BY <1>1 DEF PRInv
  <1>4. Past(WithPR) => run.pr # 0
    BY DEF PRInv
  <1> QED
    BY <1>1, <1>2, <1>3, <1>4 DEF PRInv

LEMMA EnableAutoMergePR == ASSUME TypeOK, PRInv, EnableAutoMerge PROVE PRInv'
  <1>1. run.pr \in DOMAIN prs /\ pc = "automerge"
    BY DEF EnableAutoMerge, TypeOK
  <1>2. CASE /\ Goto("poll") /\ Merge(run.pr)
             /\ UNCHANGED <<run, local, settings, secret, ruleset, seedIssues>>
    BY <1>1, <1>2, MergedPR DEF Goto
  <1>3. CASE Goto("poll") /\ UNCHANGED <<run, local, github>>
    BY <1>1, <1>3, Quiet DEF Goto, Past, AfterPush, WithPR, Synced, OpenPR, github
  <1> QED
    BY <1>2, <1>3, FailPR DEF EnableAutoMerge, Arm, github

LEMMA PollPRStatusPR == ASSUME PRInv, PollPRStatus PROVE PRInv'
  <1>1. CASE prs[run.pr].state = "merged" /\ Goto("checkout") /\ UNCHANGED <<run, local, github>>
    BY <1>1, Quiet DEF PollPRStatus, Goto, Past, AfterPush, WithPR, Synced, OpenPR, github
  <1> QED
    BY <1>1, FailPR DEF PollPRStatus

LEMMA SyncPR == ASSUME PRInv, CheckoutMain \/ PullMain \/ DeleteBranch PROVE PRInv'
  <1>1. CASE ~Fail
    <2>1. /\ UNCHANGED <<run, main, remote, prs>> /\ pc \in Synced
          /\ pc' \in {"pull", "delete", "ruleset", "seedcheck"}
      BY <1>1 DEF CheckoutMain, PullMain, DeleteBranch, Goto, github, Synced
    <2> QED
      BY <2>1, Quiet DEF Past, AfterPush, WithPR, Synced, OpenPR
  <1> QED
    BY <1>1, FailPR

LEMMA EnvironmentPR == ASSUME TypeOK, PRInv, Environment PROVE PRInv'
  <1>1. Outside
    BY DEF Environment, EditSeed, PushSeed, GoBackToMain, UpdateMain, CreatePRWorkflow,
           ReportChecks, MergePR, ClosePR, CloseSeedIssue
  <1>2. ASSUME remote' = remote, \A i \in Generated : main'[i] = main[i],
               \A n \in DOMAIN prs' : OpenPR(n)' => n \in DOMAIN prs /\ OpenPR(n),
               Past(WithPR) => (prs'[run.pr].state = "merged" <=> prs[run.pr].state = "merged")
        PROVE  PRInv'
    BY <1>1, <1>2, Quiet DEF Outside, Past, PRInv
  <1>3. CASE EditSeed \/ GoBackToMain \/ UpdateMain \/ CloseSeedIssue
    BY <1>2, <1>3 DEF EditSeed, GoBackToMain, UpdateMain, CloseSeedIssue, github, OpenPR
  <1>4. CASE PushSeed
    BY <1>2, <1>4 DEF PushSeed, OpenPR, TypeOK, Trees, Generated
  <1>5. CASE CreatePRWorkflow
    <2>1. /\ prs = <<>> /\ prs' = <<NewPR>> /\ remote # None
          /\ UNCHANGED <<pc, run, main, remote>>
      BY <1>1, <1>5 DEF CreatePRWorkflow, Outside
    <2>2. ~Past(WithPR)
      BY <2>1 DEF Past, WithPR, PRInv, TypeOK
    <2> QED
      BY <2>1, <2>2 DEF PRInv, Past, AfterPush, WithPR, Synced, TypeOK
  <1>6. CASE ReportChecks
    <2>1. PICK n \in DOMAIN prs, outcome \in {"ok", "failed"} :
            prs' = [prs EXCEPT ![n] = [prs[n] EXCEPT !.checks = outcome]]
      BY <1>6 DEF ReportChecks
    <2>2. prs[n] \in PRs
      BY ElementOfSeq, TypeParts DEF GithubType
    <2>3. /\ [prs[n] EXCEPT !.checks = outcome] \in PRs
          /\ [prs[n] EXCEPT !.checks = outcome].state = prs[n].state
      BY <2>2 DEF PRs
    <2>4. DOMAIN prs' = DOMAIN prs /\ \A m \in DOMAIN prs : prs'[m].state = prs[m].state
      BY <2>1, <2>3
    <2>5. pc # "idle" => run.pr = 0 \/ run.pr \in DOMAIN prs
      BY DEF TypeOK
    <2>6. Past(WithPR) => run.pr \in DOMAIN prs
      BY <2>5 DEF Past, WithPR, PRInv
    <2> QED
      BY <1>2, <1>6, <2>4, <2>6 DEF ReportChecks, OpenPR
  <1>7. CASE MergePR
    BY <1>1, <1>7, MergedPR DEF MergePR, Outside
  <1>8. CASE ClosePR
    <2>1. PICK n \in DOMAIN prs :
            OpenPR(n) /\ prs' = [prs EXCEPT ![n] = [prs[n] EXCEPT !.state = "closed"]]
      BY <1>8 DEF ClosePR
    <2>2. prs[n] \in PRs
      BY ElementOfSeq, TypeParts DEF GithubType
    <2>3. [prs[n] EXCEPT !.state = "closed"].state = "closed"
      BY <2>2 DEF PRs
    <2>4. /\ DOMAIN prs' = DOMAIN prs /\ prs'[n].state = "closed"
          /\ \A m \in DOMAIN prs \ {n} : prs'[m] = prs[m]
      BY <2>1, <2>3
    <2>5. prs[n].state = "open"
      BY <2>1 DEF OpenPR
    <2>6. Past(WithPR) => run.pr \in DOMAIN prs
      BY DEF Past, WithPR, PRInv, TypeOK
    <2> QED
      BY <1>2, <1>8, <2>4, <2>5, <2>6 DEF ClosePR, OpenPR
  <1> QED
    BY <1>3, <1>4, <1>5, <1>6, <1>7, <1>8 DEF Environment

LEMMA StartPR == ASSUME PRInv, NEW m \in Modes, Start(m) PROVE PRInv'
  BY EarlyOrLate DEF Start, github, AfterPush

LEMMA RunStepPR == ASSUME TypeOK, PRInv, RunStep PROVE PRInv'
  <1>1. CASE \/ Generate("directories", "templates") \/ SetupTemplateFiles
             \/ Generate("module", "tests") \/ Generate("tests", "verify") \/ VerifyLocalTests
             \/ CheckPermissions \/ Configure("merge", "collaborator")
             \/ Configure("collaborator", "actions") \/ Configure("actions", "secret")
             \/ EnsurePersonalToken
    BY <1>1, EarlyPR
  <1>2. CASE CheckScaffoldingChanges \/ CheckoutBranch \/ Commit \/ Push
    BY <1>2, CheckScaffoldingChangesPR, BranchPR, PushPR
  <1>3. CASE FindPR \/ CreatePR \/ EnableAutoMerge \/ PollPRStatus
    BY <1>3, FindPRPR, CreatePRPR, EnableAutoMergePR, PollPRStatusPR
  <1>4. CASE PollTimeout
    BY <1>4, FailPR DEF PollTimeout
  <1>5. CASE CheckoutMain \/ PullMain \/ DeleteBranch
    BY <1>5, SyncPR
  <1>6. CASE ConfigureRulesets \/ CheckSeedFiles \/ ListSeedIssues \/ CreateSeedIssue
    BY <1>6, LatePR
  <1> QED
    BY <1>1, <1>2, <1>3, <1>4, <1>5, <1>6 DEF RunStep

LEMMA StepPR == TypeOK /\ PRInv /\ [Next]_vars => PRInv'
  <1> SUFFICES ASSUME TypeOK, PRInv, [Next]_vars PROVE PRInv'
    OBVIOUS
  <1>1. CASE UNCHANGED vars
    BY <1>1 DEF vars, github, PRInv, Past, Carried, OpenPR
  <1>2. CASE Abort
    BY <1>2, FailPR DEF Abort
  <1> QED
    BY <1>1, <1>2, StartPR, RunStepPR, EnvironmentPR DEF Next

LEMMA InitPR == Init => PRInv
  BY DEF Init, PRInv, Past, AfterPush, WithPR, Synced

\* Only ConfigureRulesets lays the ruleset.
LEMMA RulesetStep ==
    ASSUME [Next]_vars, ruleset' # ruleset
    PROVE  ConfigureRulesets
  <1>1. CASE RunStep
    BY <1>1 DEF RunStep, Generate, SetupTemplateFiles, VerifyLocalTests, CheckPermissions,
         Configure, EnsurePersonalToken, CheckScaffoldingChanges, CheckoutBranch, Commit,
         Push, FindPR, CreatePR, EnableAutoMerge, PollPRStatus, PollTimeout, CheckoutMain,
         PullMain, DeleteBranch, CheckSeedFiles, ListSeedIssues, CreateSeedIssue, Fail, github
  <1>2. CASE Environment
    BY <1>2 DEF Environment, EditSeed, PushSeed, GoBackToMain, UpdateMain, CreatePRWorkflow,
         ReportChecks, MergePR, ClosePR, CloseSeedIssue, github
  <1>3. CASE Abort \/ UNCHANGED vars \/ \E m \in Modes : Start(m)
    BY <1>3 DEF Abort, Fail, Start, vars, github
  <1> QED
    BY <1>1, <1>2, <1>3 DEF Next

\* Whoever merges, closes or pushes what and when, a run that goes through a pull request
\* lays the ruleset only on a main that holds what it pushed.
THEOREM RulesetComesAfterMerge == Spec => RulesetAfterMerge
  <1>1. ASSUME PRInv, [Next]_vars, ruleset', ~ruleset, ~run.skip
        PROVE  run.pr # 0 /\ prs[run.pr].state = "merged" /\ Carried
    <2>1. ConfigureRulesets
      BY <1>1, RulesetStep
    <2>2. Past(Synced) /\ Past(WithPR)
      BY <1>1, <2>1 DEF ConfigureRulesets, Past
    <2> QED
      BY <1>1, <2>2 DEF PRInv
  <1>2. PRInv /\ [Next]_vars =>
          [ruleset' /\ ~ruleset /\ ~run.skip =>
             /\ run.pr # 0 /\ prs[run.pr].state = "merged"
             /\ \A i \in Generated :
                  run.pushed.tree[i] # run.pushed.base[i] => main[i] = run.pushed.tree[i]]_vars
    BY <1>1 DEF Carried
  <1> QED
    BY <1>2, InitPR, StepPR, SetupTypeCorrect, PTL DEF Spec, RulesetAfterMerge
=============================================================================
