------------------------- MODULE EnrollLedgerProofs -------------------------
(* The Enroll RPC keeps the promise of Ledger, for every set of callers,         *)
(* spellings and repositories and for every bound; and the two invariants the    *)
(* promise rests on: every verdict names an issue, no seed issue is closed       *)
(* without a word.                                                               *)
EXTENDS EnrollLedger, EnrollProofs

SameIssue(i, j) == i.repo = j.repo /\ i.num = j.num /\ i.label = j.label

\* What a verdict of p percent that points at issue n of r is worth.
Names(r, p, n) ==
    IF p = 100 THEN n = 0 ELSE \E i \in issues : i.repo = r /\ i.num = n /\ i.label = "loop"

\* Issue numbers are handed out once.
NumInv ==
    /\ \A i \in issues : i.num <= issueCount[i.repo]
    /\ \A i, j \in issues : i.repo = j.repo /\ i.num = j.num => i.label = j.label

\* What the locals of a pipeline are worth at each of its calls.
NoIssueYet(c) == pc[c] \in Steps \ {"parse", "save"} => job[c].issue = 0
NotAligned(c) == pc[c] \in {"find", "card", "create"} => job[c].pct # 100
KnowsSeed(c)  == pc[c] \in {"comment", "close"} =>
    /\ job[c].seed <= issueCount[Repo(c)]
    /\ \A i \in issues : IsSeed(c, i) => i.label = "seed" /\ (pc[c] = "close" => i.noted)
KnowsIssue(c) == pc[c] = "save" => Names(Repo(c), job[c].pct, job[c].issue)

Books(c) == NoIssueYet(c) /\ NotAligned(c) /\ KnowsSeed(c) /\ KnowsIssue(c)

BookInv ==
    /\ NumInv
    /\ \A c \in Callers : Books(c)
    /\ SeedClosedWithNotice
    /\ RecordNamesIssue

LEMMA InitBooks == Init => BookInv
  <1> SUFFICES ASSUME Init PROVE BookInv
    OBVIOUS
  <1>1. \A i \in issues : i.num = 1 /\ i.label = "seed" /\ i.open /\ i.repo \in Repos
    BY DEF Init
  <1>2. \A r \in Repos : issueCount[r] = 1 /\ record[r] = None
    BY DEF Init
  <1>3. \A c \in Callers : pc[c] = "idle"
    BY DEF Init
  <1> QED
    BY <1>1, <1>2, <1>3, NotAStep DEF BookInv, NumInv, Books, NoIssueYet, NotAligned,
       KnowsSeed, KnowsIssue, SeedClosedWithNotice, RecordNamesIssue
-----------------------------------------------------------------------------
(* How the issues evolve *)

Grows == \A i \in issues : \E j \in issues' : SameIssue(i, j)

\* No issue comes or goes, and none loses its closing comment.
Kept ==
    /\ Grows
    /\ \A j \in issues' : \E i \in issues : SameIssue(i, j) /\ (i.noted => j.noted)
    /\ UNCHANGED issueCount

LEMMA UnchangedKept == UNCHANGED <<issues, issueCount>> => Kept
  BY DEF Kept, Grows, SameIssue

LEMMA SeedWritesKept ==
    ASSUME TypeOK, NEW c \in Callers, CommentSeed(c) \/ CloseSeed(c) PROVE Kept
  <1>1. \A i \in issues : i \in Issues
    BY DEF TypeOK
  <1>2. \A i \in issues : /\ SameIssue(i, [i EXCEPT !.noted = TRUE])
                          /\ SameIssue(i, [i EXCEPT !.open = FALSE])
                          /\ SameIssue(i, i)
                          /\ [i EXCEPT !.noted = TRUE].noted
                          /\ [i EXCEPT !.open = FALSE].noted = i.noted
    BY <1>1 DEF SameIssue, Issues
  <1>3. CASE CommentSeed(c)
    BY <1>2, <1>3 DEF CommentSeed, Kept, Grows
  <1>4. CASE CloseSeed(c)
    BY <1>2, <1>4 DEF CloseSeed, Kept, Grows
  <1> QED
    BY <1>3, <1>4

LEMMA CloseByHandKept ==
    ASSUME TypeOK, NEW r \in Repos, CloseByHand(r) PROVE Kept
  <1>1. PICK k \in issues : issues' = (issues \ {k}) \cup {[k EXCEPT !.open = FALSE]}
    BY DEF CloseByHand, OpenIssues
  <1>2. /\ SameIssue(k, [k EXCEPT !.open = FALSE])
        /\ [k EXCEPT !.open = FALSE].noted = k.noted
        /\ \A i \in issues : SameIssue(i, i)
    BY DEF TypeOK, Issues, SameIssue
  <1>3. UNCHANGED issueCount
    BY DEF CloseByHand
  <1> QED
    BY <1>1, <1>2, <1>3 DEF Kept, Grows

\* The calls of the pipeline that leave the issues of GitHub alone.
LEMMA QuietStep ==
    ASSUME NEW c \in Callers, PipelineStep(c),
           ~CommentSeed(c), ~CloseSeed(c), ~CreateLoop(c)
    PROVE  UNCHANGED <<issues, issueCount>>
  BY DEF PipelineStep, Parse, Clone, FindSeed, Evaluate, EnsureLabels, ReadReadme,
     WriteBadge, GetRecord, FindLoop, MakeCard, Save, CallFails, PanicNoRequirement,
     Refuse, ReadReturns, Die, githubVars

LEMMA Evolves ==
    ASSUME TypeOK, [Next]_vars PROVE Kept \/ \E c \in Callers : CreateLoop(c)
  <1>1. ASSUME NEW c \in Callers, PipelineStep(c) PROVE Kept \/ CreateLoop(c)
    BY <1>1, QuietStep, UnchangedKept, SeedWritesKept
  <1>2. CASE \/ UNCHANGED vars \/ Tick \/ Crash
             \/ \E c \in Callers : RejectBlank(c) \/ Cancel(c) \/ \E s \in Spellings : Call(c, s)
             \/ \E r \in Repos : Push(r) \/ EditReadme(r)
    BY <1>2, UnchangedKept DEF vars, Tick, Crash, Die, RejectBlank, Cancel, Call, Push,
       EditReadme, githubVars
  <1> QED
    BY <1>1, <1>2, CloseByHandKept DEF Next, WorldStep

LEMMA NamesKept ==
    ASSUME Grows, NEW r, NEW p, NEW n, Names(r, p, n) PROVE Names(r, p, n)'
  BY DEF Grows, SameIssue, Names

LEMMA CreateGrows == ASSUME NEW c \in Callers, CreateLoop(c) PROVE Grows
  BY DEF CreateLoop, Grows, SameIssue

LEMMA NextGrows == TypeOK /\ [Next]_vars => Grows
  BY Evolves, CreateGrows DEF Kept

LEMMA NextNum ==
    ASSUME TypeOK, FlightInv, NumInv, [Next]_vars PROVE NumInv'
  <1>1. CASE Kept
    BY <1>1 DEF Kept, NumInv, SameIssue
  <1>2. ASSUME NEW c \in Callers, CreateLoop(c) PROVE NumInv'
    <2> DEFINE r == Repo(c)  n == issueCount[r] + 1
               new == [repo |-> r, num |-> n, label |-> "loop", open |-> TRUE,
                       noted |-> FALSE]
    <2>1. r \in Repos
      BY <1>2 DEF CreateLoop, At, FlightInv, Serving, Steps, Writes
    <2>2. issues' = issues \cup {new} /\ issueCount' = [issueCount EXCEPT ![r] = n]
      BY <1>2 DEF CreateLoop
    <2>3. new.repo = r /\ new.num = n /\ n \in Nat /\ issueCount[r] \in Nat
          /\ issueCount'[r] = n /\ issueCount[r] < n
      BY <2>1, <2>2 DEF TypeOK
    <2>4. \A i \in issues : i.num \in Nat /\ i.repo \in Repos
      BY DEF TypeOK, Issues
    <2>5. \A q \in Repos \ {r} : issueCount'[q] = issueCount[q]
      BY <2>2 DEF TypeOK
    <2> HIDE DEF new, n, r
    <2>6. \A i \in issues' : i.num <= issueCount'[i.repo]
      <3> SUFFICES ASSUME NEW i \in issues' PROVE i.num <= issueCount'[i.repo]
        OBVIOUS
      <3>1. CASE i = new
        BY <2>3, <3>1
      <3>2. CASE i \in issues /\ i.repo = r
        <4>1. i.num <= issueCount[r] /\ i.num \in Nat
          BY <2>4, <3>2 DEF NumInv
        <4> QED
          BY <2>3, <3>2, <4>1
      <3>3. CASE i \in issues /\ i.repo # r
        BY <2>4, <2>5, <3>3 DEF NumInv
      <3> QED
        BY <2>2, <3>1, <3>2, <3>3
    <2>7. \A i \in issues : i.repo = r => i.num # n
      <3> SUFFICES ASSUME NEW i \in issues, i.repo = r PROVE i.num # n
        OBVIOUS
      <3>1. i.num <= issueCount[r] /\ i.num \in Nat
        BY <2>4 DEF NumInv
      <3> QED
        BY <2>3, <3>1
    <2> QED
      BY <2>2, <2>3, <2>6, <2>7 DEF NumInv
  <1> QED
    BY <1>1, <1>2, Evolves
-----------------------------------------------------------------------------
(* The locals of the pipelines *)

\* The step leaves the pipeline of d where it is.
Stays(d) == pc'[d] = pc[d] /\ key'[d] = key[d] /\ job'[d] = job[d]

LEMMA StaysBooks ==
    ASSUME TypeOK, FlightInv, NumInv, [Next]_vars, NEW d \in Callers, Stays(d), Books(d)
    PROVE  Books(d)'
  <1>1. Repo(d)' = Repo(d) /\ (Serving(d) => Repo(d) \in Repos)
    BY DEF Stays, Repo, FlightInv
  <1>2. KnowsIssue(d)'
    <2>1. Names(Repo(d), job[d].pct, job[d].issue)
            => \/ job[d].pct = 100 /\ job[d].issue = 0
               \/ /\ job[d].pct # 100
                  /\ \E i \in issues' : /\ i.repo = Repo(d) /\ i.num = job[d].issue
                                        /\ i.label = "loop"
      BY NextGrows DEF Grows, SameIssue, Names
    <2> QED
      BY <1>1, <2>1 DEF KnowsIssue, Books, Stays, Names
  <1>3. KnowsSeed(d)'
    <2> SUFFICES ASSUME pc[d] \in {"comment", "close"}
                 PROVE  /\ job[d].seed <= issueCount'[Repo(d)]
                        /\ \A j \in issues' : j.repo = Repo(d) /\ j.num = job[d].seed
                             => j.label = "seed" /\ (pc[d] = "close" => j.noted)
      BY <1>1 DEF KnowsSeed, IsSeed, Stays
    <2>1. /\ job[d].seed <= issueCount[Repo(d)]
          /\ \A i \in issues : i.repo = Repo(d) /\ i.num = job[d].seed
               => i.label = "seed" /\ (pc[d] = "close" => i.noted)
      BY DEF Books, KnowsSeed, IsSeed
    <2>2. CASE Kept
      BY <2>1, <2>2 DEF Kept, SameIssue
    <2>3. ASSUME NEW c \in Callers, CreateLoop(c)
          PROVE  /\ job[d].seed <= issueCount'[Repo(d)]
                 /\ \A j \in issues' : j.repo = Repo(d) /\ j.num = job[d].seed
                      => j.label = "seed" /\ (pc[d] = "close" => j.noted)
      <3> DEFINE r == Repo(c)  n == issueCount[r] + 1
                 new == [repo |-> r, num |-> n, label |-> "loop", open |-> TRUE,
                         noted |-> FALSE]
      <3>1. r \in Repos /\ Repo(d) \in Repos
        BY <1>1, <2>3 DEF CreateLoop, At, FlightInv, Serving, Steps, Writes
      <3>2. issues' = issues \cup {new} /\ issueCount' = [issueCount EXCEPT ![r] = n]
        BY <2>3 DEF CreateLoop
      <3>3. issueCount[r] \in Nat /\ issueCount[Repo(d)] \in Nat /\ job[d].seed \in Nat
        BY <3>1 DEF TypeOK, Jobs
      <3>4. issueCount'[Repo(d)] = IF Repo(d) = r THEN n ELSE issueCount[Repo(d)]
        BY <3>1, <3>2 DEF TypeOK
      <3>5. job[d].seed <= issueCount'[Repo(d)]
        BY <2>1, <3>3, <3>4
      <3>6. new.repo = Repo(d) => new.num # job[d].seed
        BY <2>1, <3>3
      <3> QED
        BY <2>1, <3>2, <3>5, <3>6
    <2> QED
      BY <2>2, <2>3, Evolves
  <1>4. NoIssueYet(d)' /\ NotAligned(d)'
    BY DEF NoIssueYet, NotAligned, Books, Stays
  <1> QED
    BY <1>2, <1>3, <1>4 DEF Books

\* A pipeline that is over, or about to parse, has nothing to keep.
LEMMA BlankBooksNext ==
    ASSUME NEW d, pc'[d] \in {"idle", "parse"} PROVE Books(d)'
  BY NotAStep DEF Books, NoIssueYet, NotAligned, KnowsSeed, KnowsIssue

\* A step of one pipeline touches the locals of no other.
LEMMA OthersStay ==
    ASSUME TypeOK, FlightInv, NEW c \in Callers, NEW d \in Callers, d # c,
           PipelineStep(c), pc'[d] # "idle"
    PROVE  Stays(d)
  <1>1. job'[d] = job[d]
    <2>1. ~Die
      BY DEF Die
    <2>2. \A result : Finish(c, result) => job'[d] = job[d]
      BY DEF Finish, TypeOK
    <2>3. \A step, j : Goto(c, step, j) => job'[d] = job[d]
      BY DEF Goto, TypeOK
    <2>4. \A step, j : WriteReturns(c, step, j) \/ ReadReturns(c, step, j) \/ LostReply(c)
                         => job'[d] = job[d]
      BY <2>2, <2>3 DEF WriteReturns, ReadReturns, LostReply
    <2>5. CASE Parse(c) \/ Clone(c) \/ CallFails(c) \/ Save(c) \/ PanicNoRequirement(c)
      BY <2>1, <2>2, <2>3, <2>4, <2>5
         DEF Parse, Refuse, Clone, CallFails, Save, PanicNoRequirement
    <2>6. CASE FindSeed(c) \/ FindLoop(c)
      BY <2>4, <2>6 DEF FindSeed, FindLoop
    <2>7. CASE CommentSeed(c) \/ CloseSeed(c) \/ EnsureLabels(c) \/ CreateLoop(c)
      BY <2>4, <2>7 DEF CommentSeed, CloseSeed, EnsureLabels, CreateLoop
    <2>8. CASE Evaluate(c)
      BY <2>4, <2>8 DEF Evaluate
    <2>9. CASE MakeCard(c)
      BY <2>4, <2>9 DEF MakeCard
    <2>10. CASE WriteBadge(c)
      BY <2>2, <2>3, <2>4, <2>10 DEF WriteBadge
    <2>11. CASE ReadReadme(c)
      BY <2>4, <2>11 DEF ReadReadme, TypeOK
    <2>12. CASE GetRecord(c)
      BY <2>3, <2>12 DEF GetRecord, TypeOK
    <2> QED
      BY <2>5, <2>6, <2>7, <2>8, <2>9, <2>10, <2>11, <2>12 DEF PipelineStep
  <1> QED
    BY <1>1, OthersKeep DEF Stays

\* The calls at which a pipeline has only to know of no issue.
Plains == {"clone", "seed", "eval", "labels", "readme", "badge", "get"}

LEMMA PlainBooks ==
    ASSUME NEW d, pc'[d] \in Plains, job'[d].issue = 0 PROVE Books(d)'
  BY DEF Plains, Books, NoIssueYet, NotAligned, KnowsSeed, KnowsIssue

LEMMA JobFields ==
    ASSUME NEW j \in Jobs, NEW x, NEW y, NEW z
    PROVE  /\ [j EXCEPT !.rev = x, !.kind = y].issue = j.issue
           /\ [j EXCEPT !.pct = x].issue = j.issue
           /\ [j EXCEPT !.base = x].issue = j.issue
           /\ [j EXCEPT !.now = x, !.enrolledAt = y].issue = j.issue
           /\ [j EXCEPT !.now = x, !.enrolledAt = y].pct = j.pct
           /\ [[j EXCEPT !.now = x, !.enrolledAt = y] EXCEPT !.misread = z].issue = j.issue
           /\ [[j EXCEPT !.now = x, !.enrolledAt = y] EXCEPT !.misread = z].pct = j.pct
  BY DEF Jobs

\* What the leader of a pipeline knows after its own step.
LEMMA OwnBooks ==
    ASSUME TypeOK, FlightInv, NumInv, NEW c \in Callers, Books(c),
           PipelineStep(c), pc'[c] \notin {"idle", "parse"}
    PROVE  Books(c)'
  <1>1. ~Die /\ \A result : ~Finish(c, result)
    BY DEF Die, Finish, TypeOK
  <1>2. \A step, j : WriteReturns(c, step, j) \/ ReadReturns(c, step, j) \/ Goto(c, step, j)
                       => pc'[c] = step /\ job'[c] = j /\ key'[c] = key[c]
    BY <1>1 DEF WriteReturns, ReadReturns, LostReply, Goto, callVars, TypeOK
  <1>3. ~CallFails(c) /\ ~Save(c) /\ ~PanicNoRequirement(c) /\ ~Refuse(c) /\ ~LostReply(c)
    BY <1>1 DEF CallFails, Save, LostReply, PanicNoRequirement, Refuse
  <1>4. job[c] \in Jobs
    BY DEF TypeOK
  <1>5. pc[c] \in Steps \ {"parse", "save"} => job[c].issue = 0
    BY DEF Books, NoIssueYet
  <1>6. CASE Parse(c) \/ Clone(c)
    <2>1. CASE Parse(c)
      <3>1. pc'[c] = "clone" /\ job'[c].issue = 0
        BY <1>2, <1>3, <2>1 DEF Parse, NoJob
      <3> QED
        BY <3>1, PlainBooks DEF Plains
    <2>2. CASE Clone(c)
      <3>1. job[c].issue = 0
        BY <1>5, <2>2, StepNames DEF Clone, At
      <3>2. PICK rev, kind : /\ pc'[c] = "seed"
                             /\ job'[c] = [job[c] EXCEPT !.rev = rev, !.kind = kind]
        BY <1>2, <1>3, <2>2 DEF Clone
      <3>3. job'[c].issue = 0
        BY <1>4, <3>1, <3>2, JobFields
      <3>4. pc'[c] \in Plains
        BY <3>2 DEF Plains
      <3> QED
        BY <3>3, <3>4, PlainBooks
    <2> QED
      BY <1>6, <2>1, <2>2
  <1>7. CASE CloseSeed(c) \/ EnsureLabels(c) \/ WriteBadge(c)
    <2>1. job[c].issue = 0
      BY <1>5, <1>7, StepNames DEF CloseSeed, EnsureLabels, WriteBadge, At
    <2>2. pc'[c] \in {"eval", "readme", "get"} /\ job'[c] = job[c]
      BY <1>1, <1>2, <1>3, <1>7 DEF CloseSeed, EnsureLabels, WriteBadge
    <2> QED
      BY <2>1, <2>2, PlainBooks DEF Plains
  <1>8. CASE Evaluate(c)
    <2>1. job[c].issue = 0
      BY <1>5, <1>8, StepNames DEF Evaluate, At
    <2>2. PICK p : pc'[c] = "labels" /\ job'[c] = [job[c] EXCEPT !.pct = p]
      BY <1>2, <1>8 DEF Evaluate
    <2>3. job'[c].issue = 0
      BY <1>4, <2>1, <2>2, JobFields
    <2>4. pc'[c] \in Plains
      BY <2>2 DEF Plains
    <2> QED
      BY <2>3, <2>4, PlainBooks
  <1>9. CASE ReadReadme(c)
    <2>1. job[c].issue = 0
      BY <1>5, <1>9, StepNames DEF ReadReadme, At
    <2>2. PICK b : pc'[c] = "badge" /\ job'[c] = [job[c] EXCEPT !.base = b]
      <3>1. CASE ReadReturns(c, "badge", [job[c] EXCEPT !.base = readme[Repo(c)]])
        BY <1>2, <3>1
      <3>2. CASE /\ job' = [job EXCEPT ![c].base = Absent]
                 /\ pc' = [pc EXCEPT ![c] = "badge"]
        BY <3>2 DEF TypeOK
      <3> QED
        BY <1>9, <3>1, <3>2 DEF ReadReadme
    <2>3. job'[c].issue = 0
      BY <1>4, <2>1, <2>2, JobFields
    <2>4. pc'[c] \in Plains
      BY <2>2 DEF Plains
    <2> QED
      BY <2>3, <2>4, PlainBooks
  <1>10. CASE FindSeed(c)
    <2>1. job[c].issue = 0
      BY <1>5, <1>10, StepNames DEF FindSeed, At
    <2>2. CASE ReadReturns(c, "eval", job[c])
      BY <1>2, <2>1, <2>2, PlainBooks DEF Plains
    <2>3. ASSUME NEW i \in OpenIssues(Repo(c), "seed"),
                 ReadReturns(c, "comment", [job[c] EXCEPT !.seed = i.num])
          PROVE  Books(c)'
      <3>1. /\ pc'[c] = "comment" /\ key'[c] = key[c]
            /\ job'[c].seed = i.num /\ job'[c].issue = 0
            /\ UNCHANGED <<issues, issueCount>>
        BY <1>2, <1>4, <2>1, <2>3 DEF Jobs, ReadReturns, githubVars
      <3>2. i \in issues /\ i.repo = Repo(c) /\ i.label = "seed"
        BY DEF OpenIssues
      <3>3. KnowsSeed(c)'
        BY <3>1, <3>2 DEF KnowsSeed, IsSeed, NumInv, Repo
      <3> QED
        BY <3>1, <3>3 DEF Books, NoIssueYet, NotAligned, KnowsIssue
    <2> QED
      BY <1>10, <2>2, <2>3 DEF FindSeed
  <1>11. CASE CommentSeed(c)
    <2>1. pc[c] = "comment" /\ job[c].issue = 0
      BY <1>5, <1>11, StepNames DEF CommentSeed, At
    <2>2. /\ pc'[c] = "close" /\ job'[c] = job[c] /\ key'[c] = key[c]
          /\ UNCHANGED issueCount
      BY <1>2, <1>11 DEF CommentSeed
    <2>3. \A j \in issues' : j.repo = Repo(c) /\ j.num = job[c].seed => j.label = "seed" /\ j.noted
      <3> SUFFICES ASSUME NEW j \in issues', j.repo = Repo(c), j.num = job[c].seed
                   PROVE  j.label = "seed" /\ j.noted
        OBVIOUS
      <3>1. PICK i \in issues : j = IF IsSeed(c, i) THEN [i EXCEPT !.noted = TRUE] ELSE i
        BY <1>11 DEF CommentSeed
      <3>2. i \in Issues
        BY DEF TypeOK
      <3>3. IsSeed(c, i) /\ j.label = i.label /\ j.noted
        BY <3>1, <3>2 DEF IsSeed, Issues
      <3> QED
        BY <2>1, <3>3 DEF Books, KnowsSeed
    <2>4. KnowsSeed(c)'
      BY <2>1, <2>2, <2>3 DEF KnowsSeed, IsSeed, Repo, Books
    <2> QED
      BY <2>1, <2>2, <2>4 DEF Books, NoIssueYet, NotAligned, KnowsIssue
  <1>12. CASE GetRecord(c)
    <2>1. job[c].issue = 0
      BY <1>5, <1>12, StepNames DEF GetRecord, At
    <2> DEFINE next == IF job[c].pct = 100 THEN "save" ELSE "find"
               Found(at) == [job[c] EXCEPT !.now = clock, !.enrolledAt = at]
    <2>2. PICK at : /\ pc'[c] = next
                    /\ \/ job'[c] = Found(at)
                       \/ job'[c] = [Found(at) EXCEPT !.misread = TRUE]
      <3> HIDE DEF next, Found
      <3>1. CASE \E at : Goto(c, next, Found(at))
        BY <1>2, <3>1
      <3>2. CASE /\ pc' = [pc EXCEPT ![c] = next]
                 /\ job' = [job EXCEPT ![c] = [Found(clock) EXCEPT !.misread = TRUE]]
        BY <3>2 DEF TypeOK
      <3> QED
        BY <1>12, <3>1, <3>2 DEF GetRecord, next, Found
    <2>3. job'[c].issue = 0 /\ job'[c].pct = job[c].pct
      <3>1. CASE job'[c] = Found(at)
        BY <1>4, <2>1, <3>1, JobFields
      <3>2. CASE job'[c] = [Found(at) EXCEPT !.misread = TRUE]
        BY <1>4, <2>1, <3>2, JobFields
      <3> QED
        BY <2>2, <3>1, <3>2
    <2>4. CASE job[c].pct = 100
      <3>1. pc'[c] = "save"
        BY <2>2, <2>4
      <3> QED
        BY <2>3, <2>4, <3>1 DEF Books, NoIssueYet, NotAligned, KnowsSeed, KnowsIssue, Names
    <2>5. CASE job[c].pct # 100
      <3>1. pc'[c] = "find"
        BY <2>2, <2>5
      <3> QED
        BY <2>3, <2>5, <3>1 DEF Books, NoIssueYet, NotAligned, KnowsSeed, KnowsIssue
    <2> QED
      BY <2>4, <2>5
  <1>13. CASE FindLoop(c)
    <2>1. job[c].issue = 0 /\ job[c].pct # 100
      BY <1>5, <1>13, StepNames DEF FindLoop, At, Books, NotAligned
    <2>2. CASE ReadReturns(c, "card", job[c])
      <3>1. pc'[c] = "card" /\ job'[c] = job[c]
        BY <1>2, <2>2
      <3> QED
        BY <2>1, <3>1 DEF Books, NoIssueYet, NotAligned, KnowsSeed, KnowsIssue
    <2>3. ASSUME NEW i \in OpenIssues(Repo(c), "loop"),
                 ReadReturns(c, "save", [job[c] EXCEPT !.issue = i.num])
          PROVE  Books(c)'
      <3>1. /\ pc'[c] = "save" /\ key'[c] = key[c] /\ UNCHANGED issues
            /\ job'[c].issue = i.num /\ job'[c].pct = job[c].pct
        BY <1>2, <1>4, <2>3 DEF Jobs, ReadReturns, githubVars
      <3>2. i \in issues /\ i.repo = Repo(c) /\ i.label = "loop"
        BY DEF OpenIssues
      <3> QED
        BY <2>1, <3>1, <3>2
           DEF Books, NoIssueYet, NotAligned, KnowsSeed, KnowsIssue, Names, Repo
    <2> QED
      BY <1>13, <2>2, <2>3 DEF FindLoop
  <1>14. CASE MakeCard(c)
    <2>1. job[c].issue = 0 /\ job[c].pct # 100
      BY <1>5, <1>14, StepNames DEF MakeCard, At, Books, NotAligned
    <2>2. pc'[c] = "create" /\ job'[c] = job[c]
      BY <1>2, <1>14 DEF MakeCard
    <2> QED
      BY <2>1, <2>2 DEF Books, NoIssueYet, NotAligned, KnowsSeed, KnowsIssue
  <1>15. CASE CreateLoop(c)
    <2>1. job[c].pct # 100
      BY <1>15 DEF CreateLoop, At, Books, NotAligned
    <2> DEFINE n == issueCount[Repo(c)] + 1
               new == [repo |-> Repo(c), num |-> n, label |-> "loop", open |-> TRUE,
                       noted |-> FALSE]
    <2>2. /\ pc'[c] = "save" /\ key'[c] = key[c]
          /\ job'[c].issue = n /\ job'[c].pct = job[c].pct /\ new \in issues'
      BY <1>2, <1>4, <1>15 DEF CreateLoop, Jobs
    <2>3. new.repo = Repo(c) /\ new.num = n /\ new.label = "loop"
      OBVIOUS
    <2> HIDE DEF n, new
    <2> QED
      BY <2>1, <2>2, <2>3
         DEF Books, NoIssueYet, NotAligned, KnowsSeed, KnowsIssue, Names, Repo
  <1> QED
    BY <1>3, <1>6, <1>7, <1>8, <1>9, <1>10, <1>11, <1>12, <1>13, <1>14, <1>15
       DEF PipelineStep
-----------------------------------------------------------------------------
(* Seed issues and verdicts *)

LEMMA NextNotice ==
    ASSUME TypeOK, \A c \in Callers : Books(c), SeedClosedWithNotice, [Next]_vars
    PROVE  SeedClosedWithNotice'
  <1>1. \A i \in issues : i \in Issues
    BY DEF TypeOK
  <1>2. CASE UNCHANGED issues
    BY <1>2 DEF SeedClosedWithNotice
  <1>3. ASSUME NEW c \in Callers, CommentSeed(c) PROVE SeedClosedWithNotice'
    <2>1. \A i \in issues : LET j == [i EXCEPT !.noted = TRUE] IN
            j.noted /\ j.label = i.label /\ j.open = i.open
      BY <1>1 DEF Issues
    <2> QED
      BY <1>3, <2>1 DEF CommentSeed, SeedClosedWithNotice
  <1>4. ASSUME NEW c \in Callers, CloseSeed(c) PROVE SeedClosedWithNotice'
    <2>1. \A i \in issues : LET j == [i EXCEPT !.open = FALSE] IN
            j.noted = i.noted /\ j.label = i.label
      BY <1>1 DEF Issues
    <2>2. \A i \in issues : IsSeed(c, i) => i.noted
      BY <1>4 DEF CloseSeed, At, Books, KnowsSeed
    <2>3. issues' = {IF IsSeed(c, i) THEN [i EXCEPT !.open = FALSE] ELSE i : i \in issues}
      BY <1>4 DEF CloseSeed
    <2> QED
      BY <2>1, <2>2, <2>3 DEF SeedClosedWithNotice
  <1>5. ASSUME NEW c \in Callers, CreateLoop(c) PROVE SeedClosedWithNotice'
    BY <1>5 DEF CreateLoop, SeedClosedWithNotice
  <1>6. ASSUME NEW r \in Repos, CloseByHand(r) PROVE SeedClosedWithNotice'
    <2>1. PICK k \in OpenIssues(r, "loop") :
            issues' = (issues \ {k}) \cup {[k EXCEPT !.open = FALSE]}
      BY <1>6 DEF CloseByHand
    <2>2. [k EXCEPT !.open = FALSE].label = "loop"
      BY <1>1 DEF OpenIssues, Issues
    <2> QED
      BY <2>1, <2>2 DEF SeedClosedWithNotice
  <1>7. ASSUME NEW c \in Callers, PipelineStep(c) PROVE SeedClosedWithNotice'
    BY <1>2, <1>3, <1>4, <1>5, <1>7, QuietStep
  <1>8. CASE \/ UNCHANGED vars \/ Tick \/ Crash
             \/ \E c \in Callers : RejectBlank(c) \/ Cancel(c) \/ \E s \in Spellings : Call(c, s)
             \/ \E r \in Repos : Push(r) \/ EditReadme(r)
    BY <1>2, <1>8 DEF vars, Tick, Crash, Die, RejectBlank, Cancel, Call, Push, EditReadme,
       githubVars
  <1> QED
    BY <1>6, <1>7, <1>8 DEF Next, WorldStep

\* The store changes by a save, or by dying with the daemon.
Saved(c) == record' = [record EXCEPT ![Repo(c)] =
    [pct |-> job[c].pct, issue |-> job[c].issue, rev |-> job[c].rev,
     enrolledAt |-> job[c].enrolledAt, evaluatedAt |-> job[c].now]]
Forgotten == ~Durable /\ record' = [r \in Repos |-> None]

LEMMA QuietRecord ==
    ASSUME NEW c \in Callers, PipelineStep(c), ~Save(c)
    PROVE  UNCHANGED record \/ (Forgotten /\ UNCHANGED <<issues, issueCount>>)
  BY DEF PipelineStep, Parse, Clone, FindSeed, CommentSeed, CloseSeed, Evaluate,
     EnsureLabels, ReadReadme, WriteBadge, GetRecord, FindLoop, MakeCard, CreateLoop,
     CallFails, PanicNoRequirement, Refuse, ReadReturns, Die, Forgotten, githubVars

LEMMA RecordEvolves ==
    ASSUME [Next]_vars
    PROVE  \/ UNCHANGED record
           \/ Forgotten /\ UNCHANGED <<issues, issueCount>>
           \/ \E c \in Callers : Save(c)
  <1>1. CASE \/ UNCHANGED vars \/ Tick \/ Crash
             \/ \E c \in Callers : RejectBlank(c) \/ Cancel(c) \/ \E s \in Spellings : Call(c, s)
             \/ \E r \in Repos : WorldStep(r)
    BY <1>1 DEF vars, Tick, Crash, Die, RejectBlank, Cancel, Call, WorldStep, Push,
       EditReadme, CloseByHand, githubVars, Forgotten
  <1> QED
    BY <1>1, QuietRecord DEF Next

LEMMA SaveFacts ==
    ASSUME TypeOK, FlightInv, NEW c \in Callers, Save(c), Books(c)
    PROVE  /\ Repo(c) \in Repos
           /\ Saved(c)
           /\ UNCHANGED <<issues, issueCount>>
           /\ Names(Repo(c), job[c].pct, job[c].issue)
  <1>1. Repo(c) \in Repos
    BY DEF Save, At, FlightInv, Serving, Steps, Writes
  <1>2. Names(Repo(c), job[c].pct, job[c].issue)
    BY DEF Save, At, Books, KnowsIssue
  <1> QED
    BY <1>1, <1>2 DEF Save, Saved, githubVars

LEMMA NextRecord ==
    ASSUME TypeOK, FlightInv, \A c \in Callers : Books(c), RecordNamesIssue, [Next]_vars
    PROVE  RecordNamesIssue'
  <1>1. CASE UNCHANGED record
    BY <1>1, NextGrows DEF Grows, SameIssue, RecordNamesIssue
  <1>2. CASE Forgotten
    BY <1>2 DEF Forgotten, RecordNamesIssue
  <1>3. ASSUME NEW c \in Callers, Save(c) PROVE RecordNamesIssue'
    <2>1. \A r \in Repos : r # Repo(c) => record'[r] = record[r]
      BY <1>3, SaveFacts DEF Saved, TypeOK
    <2>2. record'[Repo(c)].pct = job[c].pct /\ record'[Repo(c)].issue = job[c].issue
      BY <1>3, SaveFacts DEF Saved, TypeOK
    <2>3. UNCHANGED issues /\ Names(Repo(c), job[c].pct, job[c].issue)
      BY <1>3, SaveFacts
    <2> QED
      BY <2>1, <2>2, <2>3 DEF RecordNamesIssue, Names
  <1> QED
    BY <1>1, <1>2, <1>3, RecordEvolves

LEMMA NextBooks ==
    ASSUME TypeOK, FlightInv, BookInv, [Next]_vars PROVE BookInv'
  <1>1. NumInv' /\ SeedClosedWithNotice' /\ RecordNamesIssue'
    BY NextNum, NextNotice, NextRecord DEF BookInv
  <1>2. ASSUME NEW d \in Callers, Stays(d) \/ pc'[d] \in {"idle", "parse"} PROVE Books(d)'
    BY <1>2, StaysBooks, BlankBooksNext DEF BookInv
  <1>3. ASSUME NEW d \in Callers, NEW c \in Callers, PipelineStep(c) PROVE Books(d)'
    BY <1>2, <1>3, OthersStay, OwnBooks DEF BookInv
  <1>4. ASSUME UNCHANGED vars \/ Tick \/ \E r \in Repos : WorldStep(r), NEW d \in Callers
        PROVE  Books(d)'
    BY <1>2, <1>4 DEF vars, callVars, Tick, WorldStep, Push, CloseByHand, EditReadme, Stays
  <1>5. ASSUME Crash, NEW d \in Callers PROVE Books(d)'
    BY <1>2, <1>5 DEF Crash, Die
  <1>6. ASSUME NEW c \in Callers, RejectBlank(c) \/ Cancel(c), NEW d \in Callers
        PROVE  Books(d)'
    BY <1>2, <1>6 DEF RejectBlank, Cancel, Stays
  <1>7. ASSUME NEW c \in Callers, NEW s \in Spellings, Call(c, s), NEW d \in Callers
        PROVE  Books(d)'
    <2>1. CASE d = c
      <3>1. pc[c] = "idle"
        BY <1>7 DEF Call, FlightInv
      <3>2. pc'[c] \in {"idle", "parse"}
        BY <1>7, <3>1 DEF Call, TypeOK
      <3> QED
        BY <1>2, <2>1, <3>2
    <2>2. CASE d # c
      <3>1. Stays(d)
        BY <1>7, <2>2 DEF Call, Stays, TypeOK
      <3> QED
        BY <1>2, <3>1
    <2> QED
      BY <2>1, <2>2
  <1>8. \A d \in Callers : Books(d)'
    BY <1>3, <1>4, <1>5, <1>6, <1>7 DEF Next
  <1> QED
    BY <1>1, <1>8 DEF BookInv

THEOREM BooksKept == Spec => [](TypeOK /\ FlightInv /\ BookInv)
  <1>1. TypeOK /\ FlightInv /\ BookInv /\ [Next]_vars => BookInv'
    BY NextBooks
  <1> QED
    BY <1>1, InitBooks, FlightsKept, PTL DEF Spec

\* No seed issue is closed without its closing comment, whatever fails, dies, is retried
\* or runs beside it (pipeline.go 176-184).
THEOREM NoticeFirst == Spec => []SeedClosedWithNotice
  <1>1. BookInv => SeedClosedWithNotice
    BY DEF BookInv
  <1> QED
    BY <1>1, BooksKept, PTL

\* Every verdict in the store is fully aligned or names a loop issue of its repository
\* (pipeline.go 217-239, 301-313).
THEOREM VerdictsNameIssues == Spec => []RecordNamesIssue
  <1>1. BookInv => RecordNamesIssue
    BY DEF BookInv
  <1> QED
    BY <1>1, BooksKept, PTL
-----------------------------------------------------------------------------
(* The refinement *)

Ever    == [r \in Repos |-> Everopened(r)]
Openers == [r \in Repos |-> Nowopen(r)]
Said    == [r \in Repos |-> Verdict(r)]

LEMMA KeptEver == Kept => Ever' = Ever
  <1> SUFFICES ASSUME Kept, NEW r \in Repos PROVE Everopened(r)' = Everopened(r)
    BY DEF Ever
  <1>1. \A n : n \in Everopened(r) <=>
                 \E i \in issues : i.repo = r /\ i.label = "loop" /\ i.num = n
    BY DEF Everopened
  <1>2. \A n : n \in Everopened(r)' <=>
                 \E i \in issues' : i.repo = r /\ i.label = "loop" /\ i.num = n
    BY DEF Everopened
  <1>3. \A n : n \in Everopened(r) <=> n \in Everopened(r)'
    BY <1>1, <1>2 DEF Kept, Grows, SameIssue
  <1> QED
    BY <1>3

LEMMA SameRecordSaid == UNCHANGED record => Said' = Said
  BY DEF Said, Verdict

LEMMA SameIssuesLedger == UNCHANGED issues => Ever' = Ever /\ Openers' = Openers
  BY DEF Ever, Openers, Everopened, Nowopen, OpenIssues

\* Comments on and closures of seed issues do not show in the ledger.
LEMMA SeedWritesLedger ==
    ASSUME TypeOK, NEW c \in Callers, Books(c), CommentSeed(c) \/ CloseSeed(c)
    PROVE  Ever' = Ever /\ Openers' = Openers /\ Said' = Said
  <1>1. Ever' = Ever
    BY SeedWritesKept, KeptEver
  <1>2. Said' = Said
    BY SameRecordSaid DEF CommentSeed, CloseSeed
  <1>3. \A i \in issues : LET j == [i EXCEPT !.noted = TRUE] IN
          j.repo = i.repo /\ j.num = i.num /\ j.label = i.label /\ j.open = i.open
    BY DEF TypeOK, Issues
  <1>4. \A i \in issues : LET j == [i EXCEPT !.open = FALSE] IN
          j.repo = i.repo /\ j.num = i.num /\ j.label = i.label
    BY DEF TypeOK, Issues
  <1>5. ASSUME NEW r \in Repos PROVE Nowopen(r)' = Nowopen(r)
    <2>1. CASE CommentSeed(c)
      <3>1. issues' = {IF IsSeed(c, i) THEN [i EXCEPT !.noted = TRUE] ELSE i : i \in issues}
        BY <2>1 DEF CommentSeed
      <3>2. \A n : n \in Nowopen(r) <=>
              \E i \in issues : i.repo = r /\ i.label = "loop" /\ i.open /\ i.num = n
        BY DEF Nowopen, OpenIssues
      <3>3. \A n : n \in Nowopen(r)' <=>
              \E i \in issues' : i.repo = r /\ i.label = "loop" /\ i.open /\ i.num = n
        BY DEF Nowopen, OpenIssues
      <3> DEFINE G(i) == IF IsSeed(c, i) THEN [i EXCEPT !.noted = TRUE] ELSE i
      <3>5. \A i \in issues : /\ G(i) \in issues' /\ G(i).repo = i.repo /\ G(i).num = i.num
                              /\ G(i).label = i.label /\ G(i).open = i.open
        BY <1>3, <3>1
      <3>6. \A j \in issues' : \E i \in issues : j = G(i)
        BY <3>1
      <3> HIDE DEF G
      <3>7. \A n : n \in Nowopen(r) => n \in Nowopen(r)'
        BY <3>2, <3>3, <3>5
      <3>8. \A n : n \in Nowopen(r)' => n \in Nowopen(r)
        BY <3>2, <3>3, <3>5, <3>6
      <3>4. \A n : n \in Nowopen(r) <=> n \in Nowopen(r)'
        BY <3>7, <3>8
      <3> QED
        BY <3>4
    <2>2. CASE CloseSeed(c)
      <3>1. issues' = {IF IsSeed(c, i) THEN [i EXCEPT !.open = FALSE] ELSE i : i \in issues}
        BY <2>2 DEF CloseSeed
      <3>2. \A i \in issues : IsSeed(c, i) => i.label = "seed"
        BY <2>2 DEF CloseSeed, At, Books, KnowsSeed
      <3>3. \A i : i \in OpenIssues(r, "loop") <=> i \in OpenIssues(r, "loop")'
        BY <1>4, <3>1, <3>2 DEF OpenIssues
      <3>4. OpenIssues(r, "loop")' = OpenIssues(r, "loop")
        <4> DEFINE A == OpenIssues(r, "loop")'  B == OpenIssues(r, "loop")
        <4>1. \A i : i \in A <=> i \in B
          BY <3>3
        <4> HIDE DEF A, B
        <4>2. A = B
          BY <4>1
        <4> QED
          BY <4>2 DEF A, B
      <3> QED
        BY <3>4 DEF Nowopen
    <2> QED
      BY <2>1, <2>2
  <1> QED
    BY <1>1, <1>2, <1>5 DEF Openers

LEMMA CreateOpens ==
    ASSUME TypeOK, NumInv, CreatorInv, NEW c \in Callers, CreateLoop(c),
           NEW r \in Repos, r = Repo(c)
    PROVE  Promise!Open(r)
  <1>1. PICK n : n = issueCount[r] + 1
    OBVIOUS
  <1> DEFINE new == [repo |-> r, num |-> n, label |-> "loop", open |-> TRUE,
                     noted |-> FALSE]
  <1>2. issues' = issues \cup {new} /\ UNCHANGED record
    BY <1>1 DEF CreateLoop
  <1>3. OpenIssues(r, "loop") = {}
    BY DEF CreateLoop, At, CreatorInv, LoopIssues
  <1>4. new.repo = r /\ new.num = n /\ new.label = "loop" /\ new.open
    OBVIOUS
  <1>5. \A i \in issues : i.repo = r => i.num # n
    <2> SUFFICES ASSUME NEW i \in issues, i.repo = r PROVE i.num # n
      OBVIOUS
    <2>1. i.num <= issueCount[r] /\ i.num \in Nat /\ issueCount[r] \in Nat
      BY <1>1 DEF NumInv, TypeOK, Issues
    <2> QED
      BY <1>1, <2>1
  <1> HIDE DEF new
  <1>6. n \notin Everopened(r) /\ Everopened(r)' = Everopened(r) \cup {n}
    BY <1>2, <1>4, <1>5 DEF Everopened
  <1>7. Nowopen(r) = {} /\ Nowopen(r)' = {n}
    BY <1>2, <1>3, <1>4 DEF Nowopen, OpenIssues
  <1>8. \A q \in Repos \ {r} : Everopened(q)' = Everopened(q) /\ Nowopen(q)' = Nowopen(q)
    BY <1>2, <1>4 DEF Everopened, Nowopen, OpenIssues
  <1>9. Ever' = [Ever EXCEPT ![r] = @ \cup {n}] /\ Openers' = [Openers EXCEPT ![r] = {n}]
    BY <1>1, <1>6, <1>7, <1>8 DEF Ever, Openers
  <1>10. n \in Ever'[r] \ Ever[r] /\ Openers[r] = {}
    BY <1>1, <1>6, <1>7 DEF Ever, Openers
  <1>11. Said' = Said
    BY <1>2, SameRecordSaid
  <1> QED
    BY <1>9, <1>10, <1>11 DEF Promise!Open, Ever, Openers, Said

LEMMA HandCloses ==
    ASSUME TypeOK, OneOpenLoopIssue, NEW r \in Repos, CloseByHand(r) PROVE Promise!Close(r)
  <1>1. PICK k \in OpenIssues(r, "loop") :
          issues' = (issues \ {k}) \cup {[k EXCEPT !.open = FALSE]}
    BY DEF CloseByHand
  <1>2. /\ k \in issues /\ k.repo = r /\ k.label = "loop" /\ k.open
        /\ ~[k EXCEPT !.open = FALSE].open
    BY DEF OpenIssues, TypeOK, Issues
  <1>3. \A i \in issues : i.repo = r /\ i.label = "loop" /\ i.open => i = k
    BY <1>2 DEF OneOpenLoopIssue
  <1>4. Nowopen(r) = {k.num} /\ Nowopen(r)' = {}
    BY <1>1, <1>2, <1>3 DEF Nowopen, OpenIssues
  <1>5. \A q \in Repos \ {r} : Nowopen(q)' = Nowopen(q)
    BY <1>1, <1>2 DEF Nowopen, OpenIssues
  <1>6. k.num \in Openers[r] /\ Openers' = [Openers EXCEPT ![r] = @ \ {k.num}]
    BY <1>4, <1>5 DEF Openers
  <1>7. Ever' = Ever /\ Said' = Said
    BY CloseByHandKept, KeptEver, SameRecordSaid DEF CloseByHand
  <1> QED
    BY <1>6, <1>7 DEF Promise!Close, Ever, Openers, Said

LEMMA SaveEnters ==
    ASSUME TypeOK, FlightInv, NEW c \in Callers, Books(c), Save(c),
           NEW r \in Repos, r = Repo(c)
    PROVE  Promise!Enter(r)
  <1> DEFINE rec == [pct |-> job[c].pct, issue |-> job[c].issue, rev |-> job[c].rev,
                     enrolledAt |-> job[c].enrolledAt, evaluatedAt |-> job[c].now]
  <1>0. PICK v : v = [pct |-> job[c].pct, issue |-> job[c].issue]
    OBVIOUS
  <1>1. record' = [record EXCEPT ![r] = rec] /\ UNCHANGED issues
    BY SaveFacts DEF Saved
  <1>2. Names(r, job[c].pct, job[c].issue)
    BY SaveFacts
  <1>3. job[c] \in Jobs
    BY DEF TypeOK
  <1>4. rec # None
    BY <1>3, NoneNoRecord DEF Records, Jobs
  <1>5. record'[r] = rec /\ \A q \in Repos \ {r} : record'[q] = record[q]
    BY <1>1 DEF TypeOK
  <1>6. Verdict(r)' = v
    BY <1>0, <1>4, <1>5 DEF Verdict
  <1>7. \A q \in Repos \ {r} : Verdict(q)' = Verdict(q)
    BY <1>5 DEF Verdict
  <1>8. v \in [pct : 0..100, issue : Nat] /\ v.pct = job[c].pct /\ v.issue = job[c].issue
    BY <1>0, <1>3 DEF Jobs
  <1>9. IF v.pct = 100 THEN v.issue = 0 ELSE v.issue \in Everopened(r)
    BY <1>2, <1>8 DEF Names, Everopened
  <1>10. Said'[r] = v /\ Said' = [Said EXCEPT ![r] = v] /\ Ever[r] = Everopened(r)
    BY <1>1, <1>6, <1>7 DEF Said, Ever
  <1>11. Ever' = Ever /\ Openers' = Openers
    BY <1>1, SameIssuesLedger
  <1> QED
    BY <1>8, <1>9, <1>10, <1>11 DEF Promise!Enter, Promise!Followable, Ever, Openers, Said

LEMMA DieForgets ==
    ASSUME Die
    PROVE  \/ Promise!Forget
           \/ Ever' = Ever /\ Openers' = Openers /\ Said' = Said
  <1>1. Ever' = Ever /\ Openers' = Openers
    BY SameIssuesLedger DEF Die, githubVars
  <1>2. CASE Durable
    BY <1>1, <1>2, SameRecordSaid DEF Die
  <1>3. CASE ~Durable
    <2>1. Said' = [r \in Repos |-> None]
      BY <1>3 DEF Die, Said, Verdict
    <2> QED
      BY <1>1, <1>3, <2>1 DEF Promise!Forget, Ever, Openers, Said
  <1> QED
    BY <1>2, <1>3

\* A step of the RPC is a step of the ledger, or does not show in it.
LedgerStep == \/ Promise!Next
              \/ Ever' = Ever /\ Openers' = Openers /\ Said' = Said

LEMMA PipelineLedger ==
    ASSUME TypeOK, FlightInv, BookInv, CreatorInv, NEW c \in Callers, PipelineStep(c)
    PROVE  LedgerStep
  <1>1. CASE CreateLoop(c)
    <2>1. PICK r \in Repos : r = Repo(c)
      BY <1>1 DEF CreateLoop, At, FlightInv, Serving, Steps, Writes
    <2> QED
      BY <1>1, <2>1, CreateOpens DEF BookInv, LedgerStep, Promise!Next
  <1>2. CASE Save(c)
    <2>1. PICK r \in Repos : r = Repo(c)
      BY <1>2, SaveFacts DEF BookInv
    <2> QED
      BY <1>2, <2>1, SaveEnters DEF BookInv, LedgerStep, Promise!Next
  <1>3. CASE CommentSeed(c) \/ CloseSeed(c)
    BY <1>3, SeedWritesLedger DEF BookInv, LedgerStep
  <1>4. CASE PanicNoRequirement(c)
    BY <1>4, DieForgets DEF PanicNoRequirement, LedgerStep, Promise!Next
  <1>5. CASE ~CreateLoop(c) /\ ~Save(c) /\ ~CommentSeed(c) /\ ~CloseSeed(c)
             /\ ~PanicNoRequirement(c)
    <2>1. UNCHANGED <<issues, record>>
      BY <1>5 DEF PipelineStep, Parse, Clone, FindSeed, Evaluate, EnsureLabels, ReadReadme,
         WriteBadge, GetRecord, FindLoop, MakeCard, CallFails, Refuse, ReadReturns, githubVars
    <2> QED
      BY <2>1, SameIssuesLedger, SameRecordSaid DEF LedgerStep
  <1> QED
    BY <1>1, <1>2, <1>3, <1>4, <1>5

LEMMA NextLedger ==
    ASSUME TypeOK, FlightInv, BookInv, IssueInv, [Next]_vars PROVE LedgerStep
  <1>1. ASSUME NEW c \in Callers, PipelineStep(c) PROVE LedgerStep
    BY <1>1, PipelineLedger DEF IssueInv
  <1>2. ASSUME NEW r \in Repos, CloseByHand(r) PROVE LedgerStep
    BY <1>2, HandCloses DEF IssueInv, LedgerStep, Promise!Next
  <1>3. CASE Crash
    BY <1>3, DieForgets DEF Crash, LedgerStep, Promise!Next
  <1>4. CASE \/ UNCHANGED vars \/ Tick
             \/ \E c \in Callers : RejectBlank(c) \/ Cancel(c) \/ \E s \in Spellings : Call(c, s)
             \/ \E r \in Repos : Push(r) \/ EditReadme(r)
    <2>1. UNCHANGED <<issues, record>>
      BY <1>4 DEF vars, Tick, RejectBlank, Cancel, Call, Push, EditReadme, githubVars
    <2> QED
      BY <2>1, SameIssuesLedger, SameRecordSaid DEF LedgerStep
  <1> QED
    BY <1>1, <1>2, <1>3, <1>4 DEF Next, WorldStep

LEMMA InitLedger == Init => Promise!Init
  <1> SUFFICES ASSUME Init PROVE Promise!Init
    OBVIOUS
  <1>1. \A i \in issues : i.label = "seed"
    BY DEF Init
  <1>2. \A r \in Repos : Everopened(r) = {} /\ Nowopen(r) = {} /\ Verdict(r) = None
    BY <1>1 DEF Init, Everopened, Nowopen, OpenIssues, Verdict
  <1> QED
    BY <1>2 DEF Promise!Init

\* If every repository goes by one spelling, the Enroll RPC implements the ledger: loop
\* issues are opened one at a time under fresh numbers and every verdict can be followed
\* (pipeline.go 217-320, server.go 39-42).
THEOREM LedgerKept == OneSpelling => (Spec => KeepsPromise)
  <1> SUFFICES ASSUME OneSpelling PROVE Spec => KeepsPromise
    OBVIOUS
  <1>1. Init => IssueInv
    BY NotAStep DEF Init, IssueInv, OneOpenLoopIssue, CreatorInv
  <1>2. TypeOK /\ FlightInv /\ IssueInv /\ [Next]_vars => IssueInv'
    BY NextIssueInv
  <1>3. TypeOK /\ FlightInv /\ BookInv /\ IssueInv /\ [Next]_vars
          => [Promise!Next]_(Promise!vars)
    BY NextLedger DEF LedgerStep, Promise!vars, Ever, Openers, Said
  <1> QED
    BY <1>1, <1>2, <1>3, InitLedger, BooksKept, PTL DEF Spec, KeepsPromise, Promise!Spec
=============================================================================
