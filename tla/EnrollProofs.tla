---------------------------- MODULE EnrollProofs ----------------------------
(* What holds of the Enroll RPC for every set of callers, spellings and          *)
(* repositories and for every bound.                                             *)
EXTENDS Enroll, TLAPS

\* TypeOK in three parts, so that each lemma carries only what it touches.
ServerType ==
    /\ status \in [Callers -> {"idle", "waiting", "running", "answered"}]
    /\ key \in [Callers -> Spellings \cup {None}]
    /\ answer \in [Callers -> Answers]
    /\ ctx \in [Callers -> {"live", "ending", "gone"}]
    /\ flight \in [Spellings -> Callers \cup {None}]
    /\ pc \in [Callers -> Steps \cup {"idle"}]
    /\ job \in [Callers -> Jobs]
    /\ calls \in [Callers -> Nat]

GithubType ==
    /\ issues \subseteq Issues
    /\ issueCount \in [Repos -> Nat]
    /\ labels \in [Repos -> SUBSET Labels]
    /\ readme \in [Repos -> Readmes]

RestType ==
    /\ record \in [Repos -> Records \cup {None}]
    /\ head \in [Repos -> Heads]
    /\ clock \in Nat /\ faults \in Nat /\ crashes \in Nat

LEMMA TypeParts ==
    /\ TypeOK <=> ServerType /\ GithubType /\ RestType
    /\ TypeOK' <=> ServerType' /\ GithubType' /\ RestType'
  BY DEF TypeOK, ServerType, GithubType, RestType

\* The pipelines at work beyond ParseRepo serve a spelling that names a repository.
Serving(c) == pc[c] \in Steps \ {"parse"}
ServesRepo == \A c \in Callers :
    /\ pc[c] # "idle" => key[c] \in Spellings
    /\ Serving(c) => Repo(c) \in Repos

LEMMA AbsentType == Absent \in Readmes /\ Plain \in Readmes
  BY DEF Absent, Plain, Readmes

LEMMA NoJobType == NoJob \in Jobs
  BY AbsentType DEF NoJob, Jobs, Kinds

LEMMA FailedType == Failed \in Answers
  BY DEF Failed, Answers

LEMMA InitTyped == Init => TypeOK
  <1> SUFFICES ASSUME Init PROVE TypeOK
    OBVIOUS
  <1>1. ServerType
    BY FailedType, NoJobType DEF Init, ServerType
  <1>2. GithubType
    <2>1. issues \subseteq Issues
      <3>1. PICK seeded \in SUBSET Repos : issues =
              {[repo |-> r, num |-> 1, label |-> "seed", open |-> TRUE, noted |-> FALSE]
                 : r \in seeded}
        BY DEF Init
      <3>2. \A r \in seeded :
              [repo |-> r, num |-> 1, label |-> "seed", open |-> TRUE, noted |-> FALSE]
                \in Issues
        BY DEF Issues, Labels
      <3> QED
        BY <3>1, <3>2
    <2>3. readme \in [Repos -> Readmes]
      BY AbsentType DEF Init
    <2> QED
      BY <2>1, <2>3 DEF Init, GithubType
  <1>3. RestType
    BY DEF Init, RestType, Heads
  <1> QED
    BY <1>1, <1>2, <1>3, TypeParts

LEMMA GotoTyped ==
    ASSUME ServerType, NEW c \in Callers, NEW step \in Steps, NEW j \in Jobs,
           Goto(c, step, j)
    PROVE  ServerType'
  BY DEF Goto, ServerType, callVars

LEMMA FinishTyped ==
    ASSUME ServerType, NEW c \in Callers, NEW result \in Answers, Finish(c, result)
    PROVE  ServerType'
  BY NoJobType DEF Finish, ServerType

LEMMA FaultTyped ==
    ASSUME RestType, NEW step, Fault(step) PROVE faults' \in Nat
  BY DEF Fault, RestType

LEMMA LostReplyTyped ==
    ASSUME ServerType, RestType, NEW c \in Callers, LostReply(c)
    PROVE  ServerType' /\ faults' \in Nat
  BY FinishTyped, FailedType, FaultTyped DEF LostReply, RestType

LEMMA WriteReturnsTyped ==
    ASSUME ServerType, RestType, NEW c \in Callers, NEW step \in Steps, NEW j \in Jobs,
           WriteReturns(c, step, j)
    PROVE  ServerType' /\ faults' \in Nat
  BY GotoTyped, LostReplyTyped DEF WriteReturns, RestType

LEMMA UnchangedGithub == GithubType /\ UNCHANGED githubVars => GithubType'
  BY DEF GithubType, githubVars

LEMMA UnchangedRest ==
    RestType /\ record' = record /\ envVars' = envVars /\ faults' \in Nat => RestType'
  BY DEF RestType, envVars

LEMMA ReadReturnsTyped ==
    ASSUME TypeOK, NEW c \in Callers, NEW step \in Steps, NEW j \in Jobs,
           ReadReturns(c, step, j)
    PROVE  TypeOK'
  BY TypeParts, GotoTyped, UnchangedGithub, UnchangedRest DEF ReadReturns, RestType

LEMMA RefuseTyped ==
    ASSUME TypeOK, NEW c \in Callers, Refuse(c) PROVE TypeOK'
  BY TypeParts, FinishTyped, FailedType, UnchangedGithub, UnchangedRest
     DEF Refuse, RestType

-----------------------------------------------------------------------------
(* One lemma for each action of the pipeline. *)

LEMMA CloneTyped ==
    ASSUME TypeOK, ServesRepo, NEW c \in Callers, Clone(c) PROVE TypeOK'
  <1>1. Repo(c) \in Repos
    BY DEF Clone, At, ServesRepo, Serving, Steps, Reads, Writes
  <1>2. head[Repo(c)] \in Heads /\ job[c] \in Jobs
    BY <1>1 DEF TypeOK
  <1>3. [job[c] EXCEPT !.rev = head[Repo(c)].rev, !.kind = head[Repo(c)].kind] \in Jobs
    BY <1>2 DEF Jobs, Heads
  <1> QED
    BY <1>3, RefuseTyped, ReadReturnsTyped DEF Clone, Steps, Reads

LEMMA FindTyped ==
    ASSUME TypeOK, NEW c \in Callers, FindSeed(c) \/ FindLoop(c) PROVE TypeOK'
  <1>1. job[c] \in Jobs /\ \A i \in issues : i.num \in Nat
    BY DEF TypeOK, Issues
  <1>2. \A n \in Nat : /\ [job[c] EXCEPT !.seed = n] \in Jobs
                       /\ [job[c] EXCEPT !.issue = n] \in Jobs
    BY <1>1 DEF Jobs
  <1>3. {"eval", "comment", "card", "save"} \subseteq Steps
    BY DEF Steps, Reads, Writes
  <1>4. CASE FindSeed(c)
    <2>1. CASE ReadReturns(c, "eval", job[c])
      BY <1>1, <1>3, <2>1, ReadReturnsTyped
    <2>2. CASE \E i \in issues : ReadReturns(c, "comment", [job[c] EXCEPT !.seed = i.num])
      BY <1>1, <1>2, <1>3, <2>2, ReadReturnsTyped
    <2> QED
      BY <1>4, <2>1, <2>2 DEF FindSeed, OpenIssues
  <1>5. CASE FindLoop(c)
    <2>1. CASE ReadReturns(c, "card", job[c])
      BY <1>1, <1>3, <2>1, ReadReturnsTyped
    <2>2. CASE \E i \in issues : ReadReturns(c, "save", [job[c] EXCEPT !.issue = i.num])
      BY <1>1, <1>2, <1>3, <2>2, ReadReturnsTyped
    <2> QED
      BY <1>5, <2>1, <2>2 DEF FindLoop, OpenIssues
  <1> QED
    BY <1>4, <1>5

LEMMA SeedWritesTyped ==
    ASSUME TypeOK, NEW c \in Callers, CommentSeed(c) \/ CloseSeed(c) PROVE TypeOK'
  <1>1. issues' \subseteq Issues
    <2>1. \A i \in issues : /\ i \in Issues
                            /\ [i EXCEPT !.noted = TRUE] \in Issues
                            /\ [i EXCEPT !.open = FALSE] \in Issues
      BY DEF TypeOK, Issues
    <2>2. CASE CommentSeed(c)
      BY <2>1, <2>2 DEF CommentSeed
    <2>3. CASE CloseSeed(c)
      BY <2>1, <2>3 DEF CloseSeed
    <2> QED
      BY <2>2, <2>3
  <1>2. ServerType' /\ faults' \in Nat
    <2>1. {"close", "eval"} \subseteq Steps /\ job[c] \in Jobs
      BY DEF Steps, Reads, Writes, TypeOK
    <2>2. WriteReturns(c, "close", job[c]) \/ WriteReturns(c, "eval", job[c])
      BY DEF CommentSeed, CloseSeed
    <2> QED
      BY <2>1, <2>2, WriteReturnsTyped, TypeParts
  <1>3. UNCHANGED <<issueCount, labels, readme, record, envVars>>
    BY DEF CommentSeed, CloseSeed
  <1>4. GithubType'
    BY <1>1, <1>3, TypeParts DEF GithubType
  <1> QED
    BY <1>2, <1>3, <1>4, TypeParts, UnchangedRest
LEMMA LabelsTyped ==
    ASSUME TypeOK, NEW c \in Callers, EnsureLabels(c) PROVE TypeOK'
  <1>1. ServerType' /\ faults' \in Nat
    <2>1. "readme" \in Steps /\ job[c] \in Jobs
      BY DEF Steps, TypeOK
    <2>2. WriteReturns(c, "readme", job[c]) \/ LostReply(c)
      BY DEF EnsureLabels
    <2> QED
      BY <2>1, <2>2, WriteReturnsTyped, LostReplyTyped, TypeParts
  <1>2. labels' \in [Repos -> SUBSET Labels]
    BY DEF EnsureLabels, TypeOK, Labels
  <1>3. UNCHANGED <<issues, issueCount, readme, record, envVars>>
    BY DEF EnsureLabels
  <1>4. GithubType'
    BY <1>2, <1>3, TypeParts DEF GithubType
  <1> QED
    BY <1>1, <1>3, <1>4, TypeParts, UnchangedRest

LEMMA ReadReadmeTyped ==
    ASSUME TypeOK, ServesRepo, NEW c \in Callers, ReadReadme(c) PROVE TypeOK'
  <1>1. Repo(c) \in Repos
    BY DEF ReadReadme, At, ServesRepo, Serving, Steps
  <1>2. readme[Repo(c)] \in Readmes /\ job[c] \in Jobs /\ "badge" \in Steps
    BY <1>1 DEF TypeOK, Steps, Writes
  <1>3. /\ [job[c] EXCEPT !.base = readme[Repo(c)]] \in Jobs
        /\ [job[c] EXCEPT !.base = Absent] \in Jobs
    BY <1>2, AbsentType DEF Jobs
  <1>4. CASE ReadReturns(c, "badge", [job[c] EXCEPT !.base = readme[Repo(c)]])
    BY <1>2, <1>3, <1>4, ReadReturnsTyped
  <1>5. CASE ~ReadReturns(c, "badge", [job[c] EXCEPT !.base = readme[Repo(c)]])
    <2>1. /\ job' = [job EXCEPT ![c].base = Absent]
          /\ pc' = [pc EXCEPT ![c] = "badge"]
          /\ UNCHANGED <<githubVars, record, envVars>>
          /\ UNCHANGED <<status, key, answer, flight, calls>>
      BY <1>5 DEF ReadReadme, callVars
    <2>2. faults' \in Nat /\ ctx' \in [Callers -> {"live", "ending", "gone"}]
      BY <1>5 DEF ReadReadme, callVars, Fault, TypeOK
    <2>3. job' \in [Callers -> Jobs]
      BY <2>1, <1>3 DEF TypeOK
    <2>4. ServerType'
      BY <2>1, <2>2, <2>3, <1>2, TypeParts DEF ServerType
    <2> QED
      BY <2>1, <2>2, <2>4, TypeParts, UnchangedGithub, UnchangedRest
  <1> QED
    BY <1>4, <1>5

LEMMA BadgeTyped ==
    ASSUME TypeOK, NEW c \in Callers, WriteBadge(c) PROVE TypeOK'
  <1>1. job[c] \in Jobs /\ "get" \in Steps
    BY DEF TypeOK, Steps
  <1>2. [job[c].base EXCEPT !.exists = TRUE, !.badge = job[c].pct] \in Readmes
    <2>1. job[c].base \in Readmes /\ job[c].pct \in -1..100
      BY <1>1 DEF Jobs
    <2> QED
      BY <2>1 DEF Readmes
  <1>3. readme' \in [Repos -> Readmes]
    BY <1>2 DEF WriteBadge, TypeOK
  <1>4. ServerType' /\ faults' \in Nat
    <2>1. \/ Goto(c, "get", job[c]) /\ UNCHANGED faults
          \/ WriteReturns(c, "get", job[c])
          \/ Finish(c, Failed) /\ UNCHANGED faults
      BY DEF WriteBadge
    <2> QED
      BY <1>1, <2>1, GotoTyped, WriteReturnsTyped, FinishTyped, FailedType, TypeParts
         DEF RestType
  <1>5. UNCHANGED <<issues, issueCount, labels, record, envVars>>
    BY DEF WriteBadge
  <1>6. GithubType'
    BY <1>3, <1>5, TypeParts DEF GithubType
  <1> QED
    BY <1>4, <1>5, <1>6, TypeParts, UnchangedRest

LEMMA GetRecordTyped ==
    ASSUME TypeOK, ServesRepo, NEW c \in Callers, GetRecord(c) PROVE TypeOK'
  <1> DEFINE next == IF job[c].pct = 100 THEN "save" ELSE "find"
             Found(at) == [job[c] EXCEPT !.now = clock, !.enrolledAt = at]
  <1>1. Repo(c) \in Repos
    BY DEF GetRecord, At, ServesRepo, Serving, Steps
  <1>2. job[c] \in Jobs /\ clock \in Nat /\ next \in Steps
    BY DEF TypeOK, Steps, Reads, Writes
  <1>3. \A at \in Nat : /\ Found(at) \in Jobs
                        /\ [Found(at) EXCEPT !.misread = TRUE] \in Jobs
    BY <1>2 DEF Jobs
  <1>4. record[Repo(c)] # None => record[Repo(c)].enrolledAt \in Nat
    BY <1>1 DEF TypeOK, Records
  <1>5. UNCHANGED <<githubVars, record, envVars>>
    BY DEF GetRecord
  <1>6. ServerType' /\ faults' \in Nat
    <2> HIDE DEF next
    <2>1. CASE \E at \in Nat : Goto(c, next, Found(at)) /\ UNCHANGED faults
      BY <1>2, <1>3, <2>1, GotoTyped, TypeParts DEF RestType
    <2>2. CASE /\ pc' = [pc EXCEPT ![c] = next]
               /\ job' = [job EXCEPT ![c] = [Found(clock) EXCEPT !.misread = TRUE]]
               /\ \/ ctx[c] = "live" /\ Fault("get") /\ UNCHANGED ctx
                  \/ ctx[c] # "live" /\ ctx' = [ctx EXCEPT ![c] = "gone"]
                                     /\ UNCHANGED faults
               /\ UNCHANGED <<status, key, answer, flight, calls>>
      <3>1. job' \in [Callers -> Jobs]
        BY <1>2, <1>3, <2>2 DEF TypeOK
      <3>2. faults' \in Nat /\ ctx' \in [Callers -> {"live", "ending", "gone"}]
        BY <2>2 DEF TypeOK, Fault
      <3> QED
        BY <1>2, <2>2, <3>1, <3>2, TypeParts DEF ServerType
    <2> QED
      BY <1>2, <1>4, <2>1, <2>2 DEF GetRecord, next
  <1> QED
    BY <1>5, <1>6, TypeParts, UnchangedGithub, UnchangedRest

LEMMA CreateTyped ==
    ASSUME TypeOK, ServesRepo, NEW c \in Callers, CreateLoop(c) PROVE TypeOK'
  <1> DEFINE n == issueCount[Repo(c)] + 1
  <1>1. Repo(c) \in Repos
    BY DEF CreateLoop, At, ServesRepo, Serving, Steps, Writes
  <1>2. n \in Nat /\ job[c] \in Jobs /\ "save" \in Steps
    BY <1>1 DEF TypeOK, Steps, Writes
  <1> HIDE DEF n
  <1>3. [job[c] EXCEPT !.issue = n] \in Jobs
    BY <1>2 DEF Jobs
  <1>4. ServerType' /\ faults' \in Nat
    <2>1. WriteReturns(c, "save", [job[c] EXCEPT !.issue = n])
      BY DEF CreateLoop, n
    <2> QED
      BY <1>2, <1>3, <2>1, WriteReturnsTyped, TypeParts
  <1>5. issues' \subseteq Issues /\ issueCount' \in [Repos -> Nat]
    <2>1. [repo |-> Repo(c), num |-> n, label |-> "loop", open |-> TRUE, noted |-> FALSE]
            \in Issues
      BY <1>1, <1>2 DEF Issues, Labels
    <2>2. issues' = issues \cup {[repo |-> Repo(c), num |-> n, label |-> "loop",
                                  open |-> TRUE, noted |-> FALSE]}
      BY DEF CreateLoop, n
    <2>3. issueCount' = [issueCount EXCEPT ![Repo(c)] = n]
      BY DEF CreateLoop, n
    <2> QED
      BY <1>2, <2>1, <2>2, <2>3 DEF TypeOK
  <1>6. UNCHANGED <<labels, readme, record, envVars>>
    BY DEF CreateLoop
  <1>7. GithubType'
    BY <1>5, <1>6, TypeParts DEF GithubType
  <1> QED
    BY <1>4, <1>6, <1>7, TypeParts, UnchangedRest

LEMMA SaveTyped ==
    ASSUME TypeOK, NEW c \in Callers, Save(c) PROVE TypeOK'
  <1>1. job[c] \in Jobs
    BY DEF TypeOK
  <1>2. /\ [pct |-> job[c].pct, issue |-> job[c].issue, rev |-> job[c].rev,
            enrolledAt |-> job[c].enrolledAt, evaluatedAt |-> job[c].now] \in Records
        /\ [ok |-> TRUE, pct |-> job[c].pct, issue |-> job[c].issue] \in Answers
    BY <1>1 DEF Jobs, Records, Answers
  <1>3. record' \in [Repos -> Records \cup {None}]
    BY <1>2 DEF Save, TypeOK
  <1>4. ServerType' /\ faults' \in Nat
    BY <1>2, FinishTyped, LostReplyTyped, TypeParts DEF Save, RestType
  <1>5. UNCHANGED <<githubVars, envVars>>
    BY DEF Save
  <1>6. RestType'
    BY <1>3, <1>4, <1>5, TypeParts DEF RestType, envVars
  <1> QED
    BY <1>4, <1>5, <1>6, TypeParts, UnchangedGithub

LEMMA CallFailsTyped ==
    ASSUME TypeOK, NEW c \in Callers, CallFails(c) PROVE TypeOK'
  <1>1. ServerType' /\ faults' \in Nat
    BY FinishTyped, FailedType, FaultTyped, TypeParts DEF CallFails, RestType
  <1> QED
    BY <1>1, TypeParts, UnchangedGithub, UnchangedRest DEF CallFails

LEMMA DieTyped ==
    ASSUME TypeOK, Die, crashes' \in Nat PROVE TypeOK'
  <1>1. ServerType'
    BY NoJobType, FailedType, TypeParts DEF Die, ServerType
  <1>2. RestType'
    BY DEF Die, RestType, TypeOK
  <1> QED
    BY <1>1, <1>2, TypeParts, UnchangedGithub DEF Die

LEMMA CallTyped ==
    ASSUME TypeOK, NEW c \in Callers,
           RejectBlank(c) \/ Cancel(c) \/ \E s \in Spellings : Call(c, s)
    PROVE  TypeOK'
  <1>1. "parse" \in Steps
    BY DEF Steps
  <1>2. ServerType'
    <2>1. CASE RejectBlank(c)
      BY <2>1, FailedType, TypeParts DEF RejectBlank, ServerType
    <2>2. CASE Cancel(c)
      BY <2>2, TypeParts DEF Cancel, ServerType
    <2>3. ASSUME NEW s \in Spellings, Call(c, s) PROVE ServerType'
      BY <1>1, <2>3, FailedType, TypeParts DEF Call, ServerType
    <2> QED
      BY <2>1, <2>2, <2>3
  <1>3. UNCHANGED <<githubVars, record, envVars, faults>>
    BY DEF RejectBlank, Cancel, Call
  <1> QED
    BY <1>2, <1>3, TypeParts, UnchangedGithub, UnchangedRest DEF RestType

LEMMA WorldTyped ==
    ASSUME TypeOK, NEW r \in Repos, WorldStep(r) PROVE TypeOK'
  <1>1. CASE Push(r)
    <2>1. \A k \in Kinds : [rev |-> head[r].rev + 1, kind |-> k] \in Heads
      BY DEF TypeOK, Heads
    <2>2. head' \in [Repos -> Heads]
      BY <1>1, <2>1 DEF Push, TypeOK
    <2> QED
      BY <1>1, <2>2 DEF Push, TypeOK, callVars, githubVars
  <1>2. CASE CloseByHand(r)
    <2>1. \A i \in issues : i \in Issues /\ [i EXCEPT !.open = FALSE] \in Issues
      BY DEF TypeOK, Issues
    <2>2. issues' \subseteq Issues
      BY <1>2, <2>1 DEF CloseByHand, OpenIssues
    <2> QED
      BY <1>2, <2>2 DEF CloseByHand, TypeOK, callVars, envVars
  <1>3. CASE EditReadme(r)
    <2>1. readme[r] \in Readmes /\ readme[r].text + 1 \in Nat
      BY DEF TypeOK, Readmes
    <2>2. [readme[r] EXCEPT !.exists = TRUE, !.text = readme[r].text + 1] \in Readmes
      BY <2>1 DEF Readmes
    <2>3. readme' = [readme EXCEPT ![r] =
                       [readme[r] EXCEPT !.exists = TRUE, !.text = readme[r].text + 1]]
      BY <1>3 DEF EditReadme, TypeOK, Readmes
    <2> QED
      BY <1>3, <2>2, <2>3 DEF EditReadme, TypeOK, callVars, envVars
  <1> QED
    BY <1>1, <1>2, <1>3 DEF WorldStep

LEMMA PipelineTyped ==
    ASSUME TypeOK, ServesRepo, NEW c \in Callers, PipelineStep(c) PROVE TypeOK'
  <1>1. CASE Parse(c)
    <2>1. "clone" \in Steps
      BY DEF Steps, Reads
    <2>2. CASE Refuse(c)
      BY <2>2, RefuseTyped
    <2>3. CASE Goto(c, "clone", NoJob) /\ UNCHANGED <<githubVars, record, envVars, faults>>
      BY <2>1, <2>3, NoJobType, GotoTyped, TypeParts, UnchangedGithub, UnchangedRest
         DEF RestType
    <2> QED
      BY <1>1, <2>2, <2>3 DEF Parse
  <1>2. CASE Evaluate(c)
    <2>1. "labels" \in Steps /\ job[c] \in Jobs
      BY DEF Steps, Writes, TypeOK
    <2> DEFINE Scores == IF job[c].kind = "empty" THEN {0} ELSE Percentages
    <2>2. PICK p \in Scores : ReadReturns(c, "labels", [job[c] EXCEPT !.pct = p])
      BY <1>2 DEF Evaluate
    <2>5. Scores \subseteq 0..100
      BY PercentagesType
    <2>3. p \in 0..100
      BY <2>2, <2>5
    <2>4. [job[c] EXCEPT !.pct = p] \in Jobs
      BY <2>1, <2>3 DEF Jobs
    <2> QED
      BY <2>1, <2>2, <2>4, ReadReturnsTyped
  <1>3. CASE MakeCard(c)
    <2>1. "create" \in Steps /\ job[c] \in Jobs
      BY DEF Steps, Writes, TypeOK
    <2> QED
      BY <1>3, <2>1, ReadReturnsTyped DEF MakeCard
  <1>4. CASE PanicNoRequirement(c)
    BY <1>4, DieTyped DEF PanicNoRequirement, TypeOK
  <1> QED
    BY <1>1, <1>2, <1>3, <1>4, CloneTyped, FindTyped, SeedWritesTyped, LabelsTyped,
       ReadReadmeTyped, BadgeTyped, GetRecordTyped, CreateTyped, SaveTyped, CallFailsTyped
       DEF PipelineStep

LEMMA NextTyped ==
    ASSUME TypeOK, ServesRepo, [Next]_vars PROVE TypeOK'
  <1>1. CASE UNCHANGED vars
    BY <1>1 DEF vars, callVars, githubVars, envVars, TypeOK
  <1>2. CASE Tick
    BY <1>2 DEF Tick, TypeOK, callVars, githubVars
  <1>3. CASE Crash
    BY <1>3, DieTyped DEF Crash, TypeOK
  <1> QED
    BY <1>1, <1>2, <1>3, CallTyped, PipelineTyped, WorldTyped DEF Next
-----------------------------------------------------------------------------
(* The singleflight group.  Whatever it does with GitHub and the store, a step of a     *)
(* pipeline goes on, ends the flight with one answer, or kills the daemon.               *)

Advances(c) ==
    /\ pc[c] \in Steps
    /\ \E step \in Steps \ {"parse"} : pc' = [pc EXCEPT ![c] = step]
    /\ pc[c] = "parse" => Repo(c) # NoRepo
    /\ UNCHANGED <<status, key, flight>>

Ends(c) == pc[c] \in Steps /\ \E result : Finish(c, result)

LEMMA WriteShape ==
    ASSUME NEW c \in Callers, NEW step \in Steps \ {"parse"}, NEW j,
           pc[c] \in Steps \ {"parse"}, WriteReturns(c, step, j)
    PROVE  Advances(c) \/ Ends(c)
  BY DEF WriteReturns, Goto, LostReply, Advances, Ends, callVars

LEMMA ReadShape ==
    ASSUME NEW c \in Callers, NEW step \in Steps \ {"parse"}, NEW j,
           pc[c] \in Steps \ {"parse"}, ReadReturns(c, step, j)
    PROVE  Advances(c)
  BY DEF ReadReturns, Goto, Advances, callVars

LEMMA StepNames ==
    /\ Steps \ {"parse"} =
         {"clone", "seed", "eval", "find", "card", "comment", "close", "labels", "badge",
          "create", "save", "readme", "get"}
    /\ "parse" \in Steps
  BY DEF Steps, Reads, Writes

LEMMA StepShape ==
    ASSUME NEW c \in Callers, PipelineStep(c)
    PROVE  Advances(c) \/ Ends(c) \/ Die
  <1> USE StepNames DEF At
  <1>1. CASE Parse(c)
    BY <1>1 DEF Parse, Refuse, Goto, Advances, Ends, callVars
  <1>2. CASE Clone(c)
    BY <1>2, ReadShape DEF Clone, Refuse, Ends
  <1>3. CASE FindSeed(c)
    BY <1>3, ReadShape DEF FindSeed
  <1>4. CASE CommentSeed(c) \/ CloseSeed(c)
    BY <1>4, WriteShape DEF CommentSeed, CloseSeed
  <1>5. CASE Evaluate(c)
    BY <1>5, ReadShape DEF Evaluate
  <1>6. CASE EnsureLabels(c)
    BY <1>6, WriteShape DEF EnsureLabels, LostReply, Ends
  <1>7. CASE ReadReadme(c)
    <2>1. CASE ReadReturns(c, "badge", [job[c] EXCEPT !.base = readme[Repo(c)]])
      BY <1>7, <2>1, ReadShape DEF ReadReadme
    <2>2. CASE pc' = [pc EXCEPT ![c] = "badge"] /\ UNCHANGED <<status, key, flight>>
      BY <1>7, <2>2 DEF ReadReadme, Advances
    <2> QED
      BY <1>7, <2>1, <2>2 DEF ReadReadme, callVars
  <1>8. CASE WriteBadge(c)
    <2>1. CASE Goto(c, "get", job[c])
      BY <1>8, <2>1 DEF WriteBadge, Goto, Advances, callVars
    <2>2. CASE WriteReturns(c, "get", job[c])
      BY <1>8, <2>2, WriteShape DEF WriteBadge
    <2>3. CASE Finish(c, Failed)
      BY <1>8, <2>3 DEF WriteBadge, Ends
    <2> QED
      BY <1>8, <2>1, <2>2, <2>3 DEF WriteBadge
  <1>9. CASE GetRecord(c)
    <2>1. PICK step \in {"save", "find"} :
            /\ pc' = [pc EXCEPT ![c] = step]
            /\ UNCHANGED <<status, key, flight>>
      BY <1>9 DEF GetRecord, Goto, callVars
    <2> QED
      BY <1>9, <2>1 DEF GetRecord, Advances
  <1>10. CASE FindLoop(c)
    BY <1>10, ReadShape DEF FindLoop
  <1>11. CASE MakeCard(c)
    BY <1>11, ReadShape DEF MakeCard
  <1>12. CASE CreateLoop(c)
    BY <1>12, WriteShape DEF CreateLoop
  <1>13. CASE Save(c)
    <2>1. \E result : Finish(c, result)
      BY <1>13 DEF Save, LostReply
    <2> QED
      BY <1>13, <2>1 DEF Save, Ends
  <1>14. CASE CallFails(c)
    BY <1>14 DEF CallFails, Ends, Steps
  <1>15. CASE PanicNoRequirement(c)
    BY <1>15 DEF PanicNoRequirement
  <1> QED
    BY <1>1, <1>2, <1>3, <1>4, <1>5, <1>6, <1>7, <1>8, <1>9, <1>10, <1>11, <1>12,
       <1>13, <1>14, <1>15 DEF PipelineStep

\* The group's book-keeping: a call is open under a spelling, exactly the leaders run a
\* pipeline, and a flight is entered under the spelling of its running leader.
FlightInv ==
    /\ \A c \in Callers : status[c] \in {"running", "waiting"} => key[c] \in Spellings
    /\ \A c \in Callers : status[c] = "running" <=> pc[c] # "idle"
    /\ \A c \in Callers : status[c] = "running" => flight[key[c]] = c
    /\ \A c \in Callers : status[c] = "waiting" => flight[key[c]] # None
    /\ \A s \in Spellings : flight[s] # None =>
         key[flight[s]] = s /\ status[flight[s]] = "running"
    /\ \A c \in Callers : Serving(c) => Repo(c) \in Repos

LEMMA FlightInvServes == TypeOK /\ FlightInv => ServesRepo
  BY DEF FlightInv, ServesRepo, TypeOK

LEMMA FlightInvLed == TypeOK /\ FlightInv => FlightsLed
  BY DEF FlightInv, FlightsLed, TypeOK

LEMMA NotAStep == "idle" \notin Steps
  BY DEF Steps, Reads, Writes

LEMMA InitFlight == Init => FlightInv
  BY NotAStep DEF Init, FlightInv, Serving

LEMMA AdvancesFlight ==
    ASSUME TypeOK, FlightInv, NEW c \in Callers, Advances(c) PROVE FlightInv'
  <1>1. PICK step \in Steps \ {"parse"} : pc' = [pc EXCEPT ![c] = step]
    BY DEF Advances
  <1>2. UNCHANGED <<status, key, flight>>
    BY DEF Advances
  <1>3. pc[c] # "idle" /\ step # "idle" /\ status[c] = "running" /\ key[c] \in Spellings
    BY <1>1, NotAStep DEF Advances, FlightInv
  <1>4. Repo(c) \in Repos
    BY <1>3, CanonType DEF Advances, FlightInv, Serving, Repo
  <1>5. \A d \in Callers : Serving(d)' => Repo(d)' \in Repos
    BY <1>1, <1>2, <1>4 DEF FlightInv, Serving, Repo, TypeOK
  <1>6. \A d \in Callers : status'[d] = "running" <=> pc'[d] # "idle"
    BY <1>1, <1>2, <1>3 DEF FlightInv, TypeOK
  <1> QED
    BY <1>2, <1>5, <1>6 DEF FlightInv

LEMMA EndsFlight ==
    ASSUME TypeOK, FlightInv, NEW c \in Callers, Ends(c) PROVE FlightInv'
  <1>1. PICK result : Finish(c, result)
    BY DEF Ends
  <1>2. /\ status[c] = "running" /\ key[c] \in Spellings /\ flight[key[c]] = c
        /\ pc' = [pc EXCEPT ![c] = "idle"]
        /\ flight' = [flight EXCEPT ![key[c]] = None]
    BY <1>1, NotAStep DEF Ends, FlightInv, Finish
  \* Everyone on the flight is answered, and the others are on other spellings.
  <1>3. \A d \in Callers :
          \/ d \in Flight(c) /\ status'[d] = "answered" /\ (d # c => status[d] = "waiting")
          \/ d \notin Flight(c) /\ d # c /\ status'[d] = status[d] /\ key'[d] = key[d]
             /\ (status[d] \in {"running", "waiting"} => key[d] # key[c])
    <2>1. \A d \in Callers : d \in Flight(c) => d = c \/ status[d] = "waiting"
      BY <1>2 DEF Flight, FlightInv
    <2>2. c \in Flight(c)
      BY DEF Flight
    <2>3. \A d \in Callers : d # c /\ status[d] = "running" => key[d] # key[c]
      BY <1>2 DEF FlightInv
    <2>4. \A d \in Callers : d \notin Flight(c) =>
            (status[d] \in {"running", "waiting"} => key[d] # key[c])
      BY <2>2, <2>3 DEF Flight
    <2> QED
      BY <1>1, <2>1, <2>2, <2>4 DEF Finish
  <1>4. \A d \in Callers : status'[d] \in {"running", "waiting"} =>
          status[d] = status'[d] /\ key'[d] = key[d] /\ key[d] # key[c] /\ d # c
          /\ key[d] \in Spellings /\ flight'[key[d]] = flight[key[d]]
    BY <1>2, <1>3 DEF FlightInv, TypeOK
  <1>5. \A d \in Callers : pc'[d] # "idle" <=> pc[d] # "idle" /\ d # c
    BY <1>2 DEF TypeOK
  <1>6. \A d \in Callers : status'[d] = "running" <=> pc'[d] # "idle"
    BY <1>3, <1>4, <1>5 DEF FlightInv
  <1>7. \A s \in Spellings : flight'[s] # None =>
          key'[flight'[s]] = s /\ status'[flight'[s]] = "running"
    <2> SUFFICES ASSUME NEW s \in Spellings, flight'[s] # None
                 PROVE  key'[flight'[s]] = s /\ status'[flight'[s]] = "running"
      OBVIOUS
    <2>1. s # key[c] /\ flight'[s] = flight[s] /\ flight[s] \in Callers
      BY <1>2 DEF TypeOK
    <2>2. key[flight[s]] = s /\ status[flight[s]] = "running"
      BY <2>1 DEF FlightInv
    <2> QED
      BY <1>3, <2>1, <2>2
  <1>8. \A d \in Callers : Serving(d)' => Repo(d)' \in Repos
    <2> SUFFICES ASSUME NEW d \in Callers, Serving(d)' PROVE Repo(d)' \in Repos
      OBVIOUS
    <2>1. pc'[d] # "idle" /\ d # c /\ pc'[d] = pc[d]
      BY <1>2, NotAStep DEF Serving, TypeOK
    <2>2. key'[d] = key[d]
      BY <1>4, <1>6, <2>1
    <2>3. Serving(d)
      BY <2>1 DEF Serving
    <2> QED
      BY <2>2, <2>3 DEF FlightInv, Repo
  <1> QED
    BY <1>4, <1>6, <1>7, <1>8 DEF FlightInv

LEMMA DieFlight == Die => FlightInv'
  BY NotAStep DEF Die, FlightInv, Serving

LEMMA CallFlight ==
    ASSUME TypeOK, FlightInv, NEW c \in Callers, NEW s \in Spellings, Call(c, s)
    PROVE  FlightInv'
  <1>1. status[c] \notin {"running", "waiting"} /\ pc[c] = "idle"
    BY DEF Call, FlightInv
  <1>2. \A t \in Spellings : flight[t] # c
    BY <1>1, NoneFresh DEF FlightInv
  <1>3. key' = [key EXCEPT ![c] = s]
    BY DEF Call
  <1>4. CASE /\ flight[s] = None
             /\ flight' = [flight EXCEPT ![s] = c]
             /\ status' = [status EXCEPT ![c] = "running"]
             /\ pc' = [pc EXCEPT ![c] = "parse"]
    <2>1. \A d \in Callers : d # c /\ status[d] \in {"running", "waiting"} => key[d] # s
      BY <1>4, NoneFresh DEF FlightInv
    <2>2. "parse" # "idle" /\ c # None
      BY NoneFresh
    <2>3. \A d \in Callers : status'[d] = "running" <=> pc'[d] # "idle"
      BY <1>4, <2>2 DEF FlightInv, TypeOK
    <2>4. \A d \in Callers : status'[d] \in {"running", "waiting"} =>
            /\ key'[d] \in Spellings
            /\ status'[d] = "running" => flight'[key'[d]] = d
            /\ flight'[key'[d]] # None
      <3> SUFFICES ASSUME NEW d \in Callers, status'[d] \in {"running", "waiting"}
                   PROVE  /\ key'[d] \in Spellings
                          /\ status'[d] = "running" => flight'[key'[d]] = d
                          /\ flight'[key'[d]] # None
        OBVIOUS
      <3>1. CASE d = c
        BY <1>3, <1>4, <2>2, <3>1 DEF TypeOK
      <3>2. CASE d # c
        <4>1. status'[d] = status[d] /\ key'[d] = key[d] /\ key[d] \in Spellings
          BY <1>3, <1>4, <3>2 DEF FlightInv, TypeOK
        <4>2. key[d] # s /\ flight'[key[d]] = flight[key[d]]
          BY <1>4, <2>1, <3>2, <4>1 DEF TypeOK
        <4> QED
          BY <4>1, <4>2, NoneFresh DEF FlightInv
      <3> QED
        BY <3>1, <3>2
    <2>5. \A t \in Spellings : flight'[t] # None =>
            key'[flight'[t]] = t /\ status'[flight'[t]] = "running"
      BY <1>2, <1>3, <1>4 DEF FlightInv, TypeOK
    <2>6. \A d \in Callers : Serving(d)' => Repo(d)' \in Repos
      BY <1>3, <1>4, <2>2 DEF FlightInv, Serving, Repo, TypeOK
    <2> QED
      BY <2>3, <2>4, <2>5, <2>6 DEF FlightInv
  <1>5. CASE /\ flight[s] # None
             /\ status' = [status EXCEPT ![c] = "waiting"]
             /\ UNCHANGED <<flight, pc>>
    <2>1. \A d \in Callers : status'[d] = "running" <=> pc'[d] # "idle"
      BY <1>1, <1>5 DEF FlightInv, TypeOK
    <2>2. \A d \in Callers : status'[d] \in {"running", "waiting"} =>
            /\ key'[d] \in Spellings
            /\ status'[d] = "running" => flight'[key'[d]] = d
            /\ flight'[key'[d]] # None
      BY <1>3, <1>5, NoneFresh DEF FlightInv, TypeOK
    <2>3. \A t \in Spellings : flight'[t] # None =>
            key'[flight'[t]] = t /\ status'[flight'[t]] = "running"
      BY <1>2, <1>3, <1>5 DEF FlightInv, TypeOK
    <2>4. \A d \in Callers : Serving(d)' => Repo(d)' \in Repos
      BY <1>1, <1>3, <1>5, NotAStep DEF FlightInv, Serving, Repo, TypeOK
    <2> QED
      BY <2>1, <2>2, <2>3, <2>4 DEF FlightInv
  <1> QED
    BY <1>4, <1>5 DEF Call

\* The steps that leave the group alone.
GroupUnchanged == UNCHANGED <<status, key, flight, pc>>

LEMMA GroupUnchangedFlight == FlightInv /\ GroupUnchanged => FlightInv'
  BY DEF FlightInv, GroupUnchanged, Serving, Repo

LEMMA WorldGroup ==
    ASSUME Tick \/ (\E c \in Callers : Cancel(c)) \/ \E r \in Repos : WorldStep(r)
    PROVE  GroupUnchanged
  BY DEF Tick, Cancel, WorldStep, Push, CloseByHand, EditReadme, GroupUnchanged, callVars

LEMMA BlankFlight ==
    ASSUME TypeOK, FlightInv, NEW c \in Callers, RejectBlank(c) PROVE FlightInv'
  <1>1. status[c] \notin {"running", "waiting"} /\ status' = [status EXCEPT ![c] = "answered"]
        /\ UNCHANGED <<key, flight, pc>>
    BY DEF RejectBlank
  <1>2. \A d \in Callers : status'[d] \in {"running", "waiting"} <=>
                           status[d] \in {"running", "waiting"}
    BY <1>1 DEF TypeOK
  <1>3. \A d \in Callers : status'[d] # status[d] => d = c /\ status'[d] = "answered"
    BY <1>1 DEF TypeOK
  <1>4. \A t \in Spellings : flight[t] # None => status'[flight[t]] = "running"
    BY <1>1 DEF FlightInv, TypeOK
  <1>5. \A d \in Callers : status'[d] = "running" <=> status[d] = "running"
    BY <1>1, <1>3
  <1> QED
    BY <1>1, <1>2, <1>3, <1>4, <1>5 DEF FlightInv, Serving, Repo

LEMMA NextFlight ==
    ASSUME TypeOK, FlightInv, [Next]_vars PROVE FlightInv'
  <1>1. CASE UNCHANGED vars
    BY <1>1, GroupUnchangedFlight DEF vars, callVars, GroupUnchanged
  <1>2. CASE Crash
    BY <1>2, DieFlight DEF Crash
  <1>3. ASSUME NEW c \in Callers, PipelineStep(c) PROVE FlightInv'
    BY <1>3, StepShape, AdvancesFlight, EndsFlight, DieFlight
  <1>4. CASE Tick \/ (\E c \in Callers : Cancel(c)) \/ \E r \in Repos : WorldStep(r)
    BY <1>4, WorldGroup, GroupUnchangedFlight
  <1> QED
    BY <1>1, <1>2, <1>3, <1>4, CallFlight, BlankFlight DEF Next

-----------------------------------------------------------------------------
(* The theorems. *)

\* Every variable keeps its type, and the singleflight group its books.
THEOREM FlightsKept == Spec => [](TypeOK /\ FlightInv)
  <1>1. Init => TypeOK /\ FlightInv
    BY InitTyped, InitFlight
  <1>2. TypeOK /\ FlightInv /\ [Next]_vars => TypeOK' /\ FlightInv'
    BY NextTyped, NextFlight, FlightInvServes
  <1> QED
    BY <1>1, <1>2, PTL DEF Spec

\* Every variable keeps the shape the code gives it.
THEOREM TypeCorrect == Spec => []TypeOK
  BY FlightsKept, PTL

\* A waiting call has a leader at work, and a leader is alone on its spelling
\* (server.go 40-42).
THEOREM FlightsAreLed == Spec => []FlightsLed
  <1>1. TypeOK /\ FlightInv => FlightsLed
    BY FlightInvLed
  <1> QED
    BY <1>1, FlightsKept, PTL
-----------------------------------------------------------------------------
(* One repository, one pipeline, one open loop issue. *)

LEMMA AloneOnRepo == OneSpelling /\ TypeOK /\ FlightInv => OnePipelinePerRepo
  <1> SUFFICES ASSUME OneSpelling, TypeOK, FlightInv,
                      NEW c \in Callers, NEW d \in Callers,
                      pc[c] \notin {"idle", "parse"}, pc[d] \notin {"idle", "parse"},
                      Repo(c) = Repo(d)
               PROVE  c = d
    BY DEF OnePipelinePerRepo
  <1>1. Serving(c) /\ Serving(d) /\ status[c] = "running" /\ status[d] = "running"
    BY DEF TypeOK, Serving, FlightInv
  <1>2. key[c] \in Spellings /\ key[d] \in Spellings /\ Canon[key[c]] \in Repos
    BY <1>1 DEF FlightInv, Repo
  <1>3. key[c] = key[d]
    BY <1>2, CanonType DEF OneSpelling, Repo
  <1> QED
    BY <1>1, <1>3 DEF FlightInv

\* A step of one pipeline leaves the step and the spelling of every other at work as
\* they are.
LEMMA OthersKeep ==
    ASSUME TypeOK, FlightInv, NEW c \in Callers, NEW d \in Callers, d # c,
           PipelineStep(c), pc'[d] # "idle"
    PROVE  pc'[d] = pc[d] /\ key'[d] = key[d]
  <1>1. CASE Advances(c)
    BY <1>1 DEF Advances, TypeOK
  <1>2. CASE Ends(c)
    <2>1. PICK result : Finish(c, result)
      BY <1>2 DEF Ends
    <2>2. pc'[d] = pc[d] /\ status[d] = "running" /\ status[c] = "running"
      BY <1>2, <2>1, NotAStep DEF Ends, Finish, FlightInv, TypeOK
    <2>3. d \notin Flight(c)
      BY <2>2 DEF Flight, FlightInv
    <2> QED
      BY <2>1, <2>2, <2>3 DEF Finish
  <1>3. CASE Die
    BY <1>3 DEF Die
  <1> QED
    BY <1>1, <1>2, <1>3, StepShape

LoopIssues(r) == OpenIssues(r, "loop")

\* No pipeline creates a loop issue while one is open.
CreatorInv == \A c \in Callers : pc[c] \in {"card", "create"} => LoopIssues(Repo(c)) = {}

\* The step opens no loop issue.
Settles ==
    /\ OneOpenLoopIssue => OneOpenLoopIssue'
    /\ \A r \in Repos : LoopIssues(r) = {} => LoopIssues(r)' = {}

LEMMA UnchangedSettles == UNCHANGED issues => Settles
  BY DEF Settles, OneOpenLoopIssue, LoopIssues, OpenIssues

LEMMA MapSettles ==
    ASSUME NEW F, issues' = {F[i] : i \in issues},
           \A i \in issues : /\ F[i].repo = i.repo /\ F[i].label = i.label
                             /\ F[i].open => i.open
    PROVE  Settles
  <1>1. OneOpenLoopIssue => OneOpenLoopIssue'
    <2> SUFFICES ASSUME OneOpenLoopIssue, NEW i \in issues', NEW j \in issues',
                        i.repo = j.repo, i.label = "loop", j.label = "loop", i.open, j.open
                 PROVE  i = j
      BY DEF OneOpenLoopIssue
    <2>1. PICK a \in issues, b \in issues : i = F[a] /\ j = F[b]
      OBVIOUS
    <2> QED
      BY <2>1 DEF OneOpenLoopIssue
  <1>2. \A r \in Repos : LoopIssues(r) = {} => LoopIssues(r)' = {}
    BY DEF LoopIssues, OpenIssues
  <1> QED
    BY <1>1, <1>2 DEF Settles

LEMMA SeedWritesSettle ==
    ASSUME TypeOK, NEW c \in Callers, CommentSeed(c) \/ CloseSeed(c) PROVE Settles
  <1>1. \A i \in issues : i \in Issues
    BY DEF TypeOK
  <1>2. CASE CommentSeed(c)
    <2> DEFINE F == [i \in issues |-> IF IsSeed(c, i) THEN [i EXCEPT !.noted = TRUE] ELSE i]
    <2>1. \A i \in issues : /\ F[i].repo = i.repo /\ F[i].label = i.label
                            /\ F[i].open => i.open
      BY <1>1 DEF Issues
    <2>2. issues' = {F[i] : i \in issues}
      BY <1>2 DEF CommentSeed
    <2> HIDE DEF F
    <2> QED
      BY <2>1, <2>2, MapSettles
  <1>3. CASE CloseSeed(c)
    <2> DEFINE F == [i \in issues |-> IF IsSeed(c, i) THEN [i EXCEPT !.open = FALSE] ELSE i]
    <2>1. \A i \in issues : /\ F[i].repo = i.repo /\ F[i].label = i.label
                            /\ F[i].open => i.open
      BY <1>1 DEF Issues
    <2>2. issues' = {F[i] : i \in issues}
      BY <1>3 DEF CloseSeed
    <2> HIDE DEF F
    <2> QED
      BY <2>1, <2>2, MapSettles
  <1> QED
    BY <1>2, <1>3

LEMMA CloseByHandSettles ==
    ASSUME TypeOK, NEW r \in Repos, CloseByHand(r) PROVE Settles
  <1>1. PICK k \in issues : issues' = (issues \ {k}) \cup {[k EXCEPT !.open = FALSE]}
    BY DEF CloseByHand, OpenIssues
  <1>2. ~[k EXCEPT !.open = FALSE].open
    BY DEF TypeOK, Issues
  <1> QED
    BY <1>1, <1>2 DEF Settles, OneOpenLoopIssue, LoopIssues, OpenIssues

LEMMA PipelineSettles ==
    ASSUME TypeOK, NEW c \in Callers, PipelineStep(c) PROVE Settles \/ CreateLoop(c)
  <1>1. CASE CommentSeed(c) \/ CloseSeed(c)
    BY <1>1, SeedWritesSettle
  <1>2. CASE UNCHANGED issues
    BY <1>2, UnchangedSettles
  <1>3. PipelineStep(c) => \/ UNCHANGED issues \/ CommentSeed(c) \/ CloseSeed(c)
                           \/ CreateLoop(c)
    BY DEF PipelineStep, Parse, Clone, FindSeed, Evaluate, EnsureLabels, ReadReadme,
       WriteBadge, GetRecord, FindLoop, MakeCard, Save, CallFails, PanicNoRequirement,
       Refuse, ReadReturns, Die, githubVars
  <1> QED
    BY <1>1, <1>2, <1>3

\* A pipeline comes to create an issue only past FindLoop's empty answer.
LEMMA ReachesCreate ==
    ASSUME TypeOK, NEW c \in Callers, PipelineStep(c), pc'[c] \in {"card", "create"}
    PROVE  /\ UNCHANGED <<issues, key>>
           /\ \/ LoopIssues(Repo(c)) = {}
              \/ pc[c] \in {"card", "create"}
  <1>1. FindLoop(c) \/ MakeCard(c)
    <2>1. \A result : Finish(c, result) => pc'[c] = "idle"
      BY DEF Finish, TypeOK
    <2>2. Die => pc'[c] = "idle"
      BY DEF Die
    <2>3. LostReply(c) => pc'[c] = "idle"
      BY <2>1 DEF LostReply
    <2>4. \A step, j : Goto(c, step, j) => pc'[c] = step
      BY DEF Goto, TypeOK
    <2>5. \A step, j : /\ WriteReturns(c, step, j) => pc'[c] \in {step, "idle"}
                       /\ ReadReturns(c, step, j) => pc'[c] = step
      BY <2>3, <2>4 DEF WriteReturns, ReadReturns
    <2>6. ~(Parse(c) \/ CallFails(c) \/ PanicNoRequirement(c) \/ Save(c))
      BY <2>1, <2>2, <2>3, <2>4 DEF Parse, Refuse, CallFails, PanicNoRequirement, Save
    <2>7. ~(CommentSeed(c) \/ CloseSeed(c))
      BY <2>5 DEF CommentSeed, CloseSeed
    <2>11. ~FindSeed(c)
      <3>1. FindSeed(c) => pc'[c] \in {"eval", "comment"}
        BY <2>5 DEF FindSeed
      <3> QED
        BY <3>1
    <2>12. ~Evaluate(c)
      <3>1. Evaluate(c) => pc'[c] = "labels"
        BY <2>5 DEF Evaluate
      <3> QED
        BY <3>1
    <2>13. ~Clone(c)
      <3>1. Clone(c) => pc'[c] \in {"seed", "idle"}
        BY <2>1, <2>5 DEF Clone, Refuse
      <3> QED
        BY <3>1
    <2>8. ~(EnsureLabels(c) \/ WriteBadge(c) \/ CreateLoop(c))
      BY <2>1, <2>3, <2>4, <2>5 DEF EnsureLabels, WriteBadge, CreateLoop
    <2>9. ~ReadReadme(c)
      BY <2>5 DEF ReadReadme, TypeOK
    <2>10. ~GetRecord(c)
      BY <2>4 DEF GetRecord, TypeOK
    <2> QED
      BY <2>6, <2>7, <2>8, <2>9, <2>10, <2>11, <2>12, <2>13 DEF PipelineStep
  <1>2. UNCHANGED <<issues, key>>
    BY <1>1 DEF FindLoop, MakeCard, ReadReturns, Goto, callVars, githubVars
  <1>3. LoopIssues(Repo(c)) = {} \/ pc[c] = "card"
    <2>1. CASE MakeCard(c)
      BY <2>1 DEF MakeCard, At
    <2>2. CASE FindLoop(c)
      <3>1. \A j : ~ReadReturns(c, "save", j)
        BY DEF ReadReturns, Goto, TypeOK
      <3> QED
        BY <2>2, <3>1 DEF FindLoop, LoopIssues
    <2> QED
      BY <1>1, <2>1, <2>2
  <1> QED
    BY <1>2, <1>3

IssueInv == OneOpenLoopIssue /\ CreatorInv

\* What a step must do to the pipelines about to create an issue: each either stood there
\* before the step, on the same repository, or has just seen that no issue is open.
Creators ==
    \A d \in Callers : pc'[d] \in {"card", "create"} =>
        /\ key'[d] = key[d]
        /\ Repo(d) \in Repos
        /\ pc[d] \in {"card", "create"} \/ LoopIssues(Repo(d)) = {}

LEMMA SettledStep ==
    ASSUME IssueInv, Settles, Creators PROVE IssueInv'
  <1>1. ASSUME NEW d \in Callers, pc'[d] \in {"card", "create"}
        PROVE  LoopIssues(Repo(d))' = {}
    <2>1. Repo(d) \in Repos /\ LoopIssues(Repo(d)) = {}
      BY <1>1 DEF IssueInv, CreatorInv, Creators
    <2>2. Repo(d)' = Repo(d)
      BY <1>1 DEF Creators, Repo
    <2>3. {i \in issues' : i.repo = Repo(d) /\ i.label = "loop" /\ i.open} = {}
      BY <2>1 DEF Settles, LoopIssues, OpenIssues
    <2> QED
      BY <2>2, <2>3 DEF LoopIssues, OpenIssues
  <1>2. OneOpenLoopIssue'
    BY DEF IssueInv, Settles
  <1> QED
    BY <1>1, <1>2 DEF IssueInv, CreatorInv

LEMMA PipelineCreators ==
    ASSUME TypeOK, FlightInv, NEW c \in Callers, PipelineStep(c) PROVE Creators
  <1> SUFFICES ASSUME NEW d \in Callers, pc'[d] \in {"card", "create"}
               PROVE  /\ key'[d] = key[d]
                      /\ Repo(d) \in Repos
                      /\ pc[d] \in {"card", "create"} \/ LoopIssues(Repo(d)) = {}
    BY DEF Creators
  <1>1. key'[d] = key[d] /\ (pc[d] \in {"card", "create"} \/ LoopIssues(Repo(d)) = {})
    <2>1. CASE d = c
      BY <2>1, ReachesCreate
    <2>2. CASE d # c
      BY <2>2, OthersKeep
    <2> QED
      BY <2>1, <2>2
  <1>2. FlightInv'
    BY NextFlight DEF Next
  <1>3. Repo(d)' \in Repos
    BY <1>2 DEF FlightInv, Serving, Steps, Reads, Writes
  <1>4. Repo(d)' = Repo(d)
    BY <1>1 DEF Repo
  <1> QED
    BY <1>1, <1>3, <1>4

LEMMA CreateLoopIssueInv ==
    ASSUME OneSpelling, TypeOK, FlightInv, IssueInv, NEW c \in Callers, CreateLoop(c)
    PROVE  IssueInv'
  <1> DEFINE new == [repo |-> Repo(c), num |-> issueCount[Repo(c)] + 1, label |-> "loop",
                     open |-> TRUE, noted |-> FALSE]
  <1>1. issues' = issues \cup {new} /\ pc[c] = "create" /\ PipelineStep(c)
    BY DEF CreateLoop, At, PipelineStep
  <1>2. LoopIssues(Repo(c)) = {}
    BY <1>1 DEF IssueInv, CreatorInv
  <1>3. OneOpenLoopIssue'
    <2> SUFFICES ASSUME NEW i \in issues', NEW j \in issues', i.repo = j.repo,
                        i.label = "loop", j.label = "loop", i.open, j.open
                 PROVE  i = j
      BY DEF OneOpenLoopIssue
    <2>1. \A k \in issues : k.repo = Repo(c) /\ k.label = "loop" => ~k.open
      BY <1>2 DEF LoopIssues, OpenIssues
    <2>2. new.repo = Repo(c) /\ i \in issues \cup {new} /\ j \in issues \cup {new}
      BY <1>1
    <2> HIDE DEF new
    <2>4. CASE i = new
      BY <2>1, <2>2, <2>4
    <2>5. CASE j = new
      BY <2>1, <2>2, <2>5
    <2>3. CASE i # new /\ j # new
      BY <2>2, <2>3 DEF IssueInv, OneOpenLoopIssue
    <2> QED
      BY <2>3, <2>4, <2>5
  <1>4. ASSUME NEW d \in Callers, pc'[d] \in {"card", "create"}
        PROVE  LoopIssues(Repo(d))' = {}
    <2>1. pc[d] \in {"card", "create"} /\ key'[d] = key[d] /\ Repo(d)' = Repo(d)
      <3>1. pc'[c] \in {"save", "idle"}
        BY DEF CreateLoop, WriteReturns, LostReply, Goto, Finish, TypeOK
      <3>2. d # c
        BY <3>1, <1>4
      <3> QED
        BY <1>1, <1>4, <3>2, OthersKeep DEF Repo
    <2>2. Repo(d) # Repo(c)
      <3>1. d # c
        BY <1>4 DEF CreateLoop, WriteReturns, LostReply, Goto, Finish, TypeOK
      <3> QED
        BY <1>1, <2>1, <3>1, AloneOnRepo DEF OnePipelinePerRepo
    <2>3. LoopIssues(Repo(d)) = {}
      BY <2>1 DEF IssueInv, CreatorInv
    <2> QED
      BY <1>1, <2>1, <2>2, <2>3 DEF LoopIssues, OpenIssues
  <1> QED
    BY <1>3, <1>4 DEF IssueInv, CreatorInv

LEMMA NextIssueInv ==
    ASSUME OneSpelling, TypeOK, FlightInv, IssueInv, [Next]_vars PROVE IssueInv'
  <1>1. CASE UNCHANGED vars
    BY <1>1 DEF vars, callVars, githubVars, IssueInv, OneOpenLoopIssue, CreatorInv,
       LoopIssues, OpenIssues, Repo
  <1>2. CASE Crash
    <2>1. Settles /\ \A d \in Callers : pc'[d] = "idle"
      BY <1>2, UnchangedSettles DEF Crash, Die, githubVars
    <2> QED
      BY <2>1, SettledStep DEF Creators
  <1>3. ASSUME NEW c \in Callers, PipelineStep(c) PROVE IssueInv'
    BY <1>3, PipelineSettles, PipelineCreators, SettledStep, CreateLoopIssueInv
  <1>4. ASSUME NEW c \in Callers, NEW s \in Spellings, Call(c, s) PROVE IssueInv'
    <2>1. Settles
      BY <1>4, UnchangedSettles DEF Call, githubVars
    <2>2. \A d \in Callers : pc'[d] \in {"card", "create"} =>
            pc[d] = pc'[d] /\ key'[d] = key[d]
      BY <1>4 DEF Call, TypeOK, FlightInv
    <2>3. Creators
      BY <2>2 DEF Creators, FlightInv, Serving, Steps, Reads, Writes
    <2> QED
      BY <2>1, <2>3, SettledStep
  <1>5. CASE \/ \E c \in Callers : RejectBlank(c) \/ Cancel(c)
             \/ \E r \in Repos : WorldStep(r)
             \/ Tick
    <2>1. Settles
      BY <1>5, UnchangedSettles, CloseByHandSettles
         DEF RejectBlank, Cancel, WorldStep, Push, EditReadme, Tick, githubVars
    <2>2. UNCHANGED <<pc, key>>
      BY <1>5 DEF RejectBlank, Cancel, WorldStep, Push, CloseByHand, EditReadme, Tick, callVars
    <2>3. Creators
      BY <2>2 DEF Creators, FlightInv, Serving, Steps, Reads, Writes
    <2> QED
      BY <2>1, <2>3, SettledStep
  <1> QED
    BY <1>1, <1>2, <1>3, <1>4, <1>5 DEF Next

\* If every repository goes by one spelling, no two pipelines ever work on one repository
\* (server.go 39-42).
THEOREM OnePipeline == OneSpelling => (Spec => []OnePipelinePerRepo)
  <1> SUFFICES ASSUME OneSpelling PROVE Spec => []OnePipelinePerRepo
    OBVIOUS
  <1>1. TypeOK /\ FlightInv => OnePipelinePerRepo
    BY AloneOnRepo
  <1> QED
    BY <1>1, FlightsKept, PTL

\* If every repository goes by one spelling, no repository ever has two open loop issues,
\* whatever fails, is lost, dies or is retried (pipeline.go 244-299).
THEOREM OneIssue == OneSpelling => (Spec => []OneOpenLoopIssue)
  <1> SUFFICES ASSUME OneSpelling PROVE Spec => []OneOpenLoopIssue
    OBVIOUS
  <1>1. Init => IssueInv
    BY NotAStep DEF Init, IssueInv, OneOpenLoopIssue, CreatorInv
  <1>2. TypeOK /\ FlightInv /\ IssueInv /\ [Next]_vars => IssueInv'
    BY NextIssueInv
  <1>3. IssueInv => OneOpenLoopIssue
    BY DEF IssueInv
  <1> QED
    BY <1>1, <1>2, <1>3, FlightsKept, PTL DEF Spec
=============================================================================
