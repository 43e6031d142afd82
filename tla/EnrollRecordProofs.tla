------------------------- MODULE EnrollRecordProofs -------------------------
(* What the store, the labels and the README hold of a repository while pipelines *)
(* come and go: no verdict is overtaken by an older one, the first enrollment is  *)
(* remembered, a success is backed by all it reports, no edit of a person is lost.*)
EXTENDS EnrollLedgerProofs

\* The calls of the pipeline after each thing it has to have done.
Judged  == {"find", "card", "create", "save"}                  \* read the record
Badged  == Judged \cup {"get"}                                 \* set the badge
Tagged  == Badged \cup {"readme", "badge"}                     \* made the labels
Fetched == Steps \ {"parse", "clone"}                          \* cloned main

\* What a pipeline knows of its repository at each call.
KnowsMain(c) == pc[c] \in Fetched =>
    /\ job[c].rev <= head[Repo(c)].rev
    /\ record[Repo(c)] # None => record[Repo(c)].rev <= job[c].rev
KnowsTime(c) == pc[c] \in Judged =>
    /\ job[c].now <= clock
    /\ record[Repo(c)] # None =>
         /\ record[Repo(c)].evaluatedAt <= job[c].now
         /\ job[c].misread \/ record[Repo(c)].enrolledAt = job[c].enrolledAt
KnowsLabels(c) == pc[c] \in Tagged => labels[Repo(c)] = Labels
KnowsBase(c)   == pc[c] = "badge" => job[c].base.badge \in {-1, readme[Repo(c)].badge}
KnowsBadge(c)  == pc[c] \in Badged => readme[Repo(c)].badge = job[c].pct

Knows(c) == KnowsMain(c) /\ KnowsTime(c) /\ KnowsLabels(c) /\ KnowsBase(c) /\ KnowsBadge(c)

\* The record is a verdict on some revision of main, given some time ago.
Timely(r) == record[r] # None =>
    record[r].rev <= head[r].rev /\ record[r].evaluatedAt <= clock

RecordInv == (\A c \in Callers : Knows(c)) /\ \A r \in Repos : Timely(r)

LEMMA CallSets ==
    /\ Judged \subseteq Steps /\ Badged \subseteq Steps /\ Tagged \subseteq Steps
    /\ Judged \subseteq Badged /\ Badged \subseteq Tagged /\ Tagged \subseteq Fetched
    /\ "idle" \notin Fetched /\ "parse" \notin Fetched /\ "clone" \notin Fetched
    /\ "badge" \in Fetched
  BY DEF Judged, Badged, Tagged, Fetched, Steps, Reads, Writes

\* Before main is cloned there is nothing to know.
LEMMA KnowsNothing == ASSUME NEW d, pc[d] \notin Fetched PROVE Knows(d)
  BY CallSets DEF Knows, KnowsMain, KnowsTime, KnowsLabels, KnowsBase, KnowsBadge

LEMMA KnowsNothingNext == ASSUME NEW d, pc'[d] \notin Fetched PROVE Knows(d)'
  BY CallSets DEF Knows, KnowsMain, KnowsTime, KnowsLabels, KnowsBase, KnowsBadge

LEMMA InitRecord == Init => RecordInv
  <1> SUFFICES ASSUME Init PROVE RecordInv
    OBVIOUS
  <1>1. \A c \in Callers : pc[c] = "idle"
    BY DEF Init
  <1>2. \A r \in Repos : record[r] = None
    BY DEF Init
  <1> QED
    BY <1>1, <1>2, CallSets, KnowsNothing DEF RecordInv, Timely
-----------------------------------------------------------------------------
(* What the steps of others do to a repository *)

\* The step gives the repository no verdict and no badge, and takes no label from it.
Undisturbed(r) ==
    /\ record'[r] \in {record[r], None}
    /\ head'[r].rev >= head[r].rev /\ clock' >= clock
    /\ labels[r] = Labels => labels'[r] = Labels
    /\ readme'[r].badge = readme[r].badge

LEMMA UndisturbedKnows ==
    ASSUME TypeOK, TypeOK', FlightInv, NEW d \in Callers, Stays(d), Knows(d),
           \A r \in Repos : r = Repo(d) => Undisturbed(r)
    PROVE  Knows(d)'
  <1>1. CASE pc[d] \notin Fetched
    BY <1>1, KnowsNothingNext DEF Stays
  <1>2. CASE pc[d] \in Fetched
    <2>1. PICK r \in Repos : r = Repo(d)
      BY <1>2 DEF Fetched, FlightInv, Serving
    <2>2. Repo(d)' = r /\ pc'[d] = pc[d] /\ job'[d] = job[d]
      BY <2>1 DEF Stays, Repo
    <2>3. /\ head[r].rev \in Nat /\ head'[r].rev \in Nat /\ clock \in Nat /\ clock' \in Nat
          /\ job[d].rev \in Nat /\ job[d].now \in Nat
      BY DEF TypeOK, Heads, Jobs
    <2>4. Undisturbed(r)
      BY <2>1
    <2>5. KnowsMain(d)' /\ KnowsTime(d)'
      BY <2>1, <2>2, <2>3, <2>4 DEF Undisturbed, Knows, KnowsMain, KnowsTime
    <2>6. KnowsLabels(d)' /\ KnowsBase(d)' /\ KnowsBadge(d)'
      BY <2>1, <2>2, <2>4 DEF Undisturbed, Knows, KnowsLabels, KnowsBase, KnowsBadge
    <2> QED
      BY <2>5, <2>6 DEF Knows
  <1> QED
    BY <1>1, <1>2

LEMMA UndisturbedTimely ==
    ASSUME TypeOK, TypeOK', NEW r \in Repos, Undisturbed(r), Timely(r) PROVE Timely(r)'
  <1>1. /\ head[r].rev \in Nat /\ head'[r].rev \in Nat /\ clock \in Nat /\ clock' \in Nat
    BY DEF TypeOK, Heads
  <1>2. record[r] # None => record[r].rev \in Nat /\ record[r].evaluatedAt \in Nat
    BY DEF TypeOK, Records
  <1> QED
    BY <1>1, <1>2 DEF Undisturbed, Timely

LEMMA UnchangedUndisturbed ==
    ASSUME TypeOK, NEW r \in Repos,
           record'[r] \in {record[r], None}, UNCHANGED <<head, clock, labels, readme>>
    PROVE  Undisturbed(r)
  <1>1. head[r].rev \in Nat /\ clock \in Nat
    BY DEF TypeOK, Heads
  <1> QED
    BY <1>1 DEF Undisturbed

LEMMA DieUndisturbed == ASSUME TypeOK, Die, NEW r \in Repos PROVE Undisturbed(r)
  <1>1. record'[r] \in {record[r], None}
    BY DEF Die
  <1> QED
    BY <1>1, UnchangedUndisturbed DEF Die, githubVars

LEMMA WorldUndisturbed ==
    ASSUME TypeOK, NEW r \in Repos, (\E q \in Repos : WorldStep(q)) \/ Tick
    PROVE  Undisturbed(r)
  <1>0. head[r].rev \in Nat /\ clock \in Nat
    BY DEF TypeOK, Heads
  <1>1. ASSUME NEW q \in Repos, Push(q) PROVE Undisturbed(r)
    <2>1. PICK k \in Kinds : head' = [head EXCEPT ![q] = [rev |-> @.rev + 1, kind |-> k]]
      BY <1>1 DEF Push
    <2>2. head'[r].rev \in {head[r].rev, head[r].rev + 1}
      BY <2>1 DEF TypeOK
    <2> QED
      BY <1>0, <1>1, <2>2 DEF Push, Undisturbed, githubVars
  <1>2. ASSUME NEW q \in Repos, EditReadme(q) PROVE Undisturbed(r)
    <2>1. readme'[r].badge = readme[r].badge
      BY <1>2 DEF EditReadme, TypeOK, Readmes
    <2> QED
      BY <1>0, <1>2, <2>1 DEF EditReadme, Undisturbed, envVars
  <1>3. ASSUME NEW q \in Repos, CloseByHand(q) PROVE Undisturbed(r)
    BY <1>3, UnchangedUndisturbed DEF CloseByHand, envVars
  <1>4. CASE Tick
    BY <1>0, <1>4 DEF Tick, Undisturbed, githubVars
  <1> QED
    BY <1>1, <1>2, <1>3, <1>4 DEF WorldStep

\* A pipeline gives verdicts, badges and labels to its own repository only.
LEMMA PipelineUndisturbed ==
    ASSUME TypeOK, NEW c \in Callers, PipelineStep(c), NEW r \in Repos, r # Repo(c)
    PROVE  Undisturbed(r)
  <1>0. head[r].rev \in Nat /\ clock \in Nat
    BY DEF TypeOK, Heads
  <1>1. CASE EnsureLabels(c)
    <2>1. labels'[r] = labels[r]
      BY <1>1 DEF EnsureLabels, TypeOK
    <2> QED
      BY <1>0, <1>1, <2>1 DEF EnsureLabels, Undisturbed, envVars
  <1>2. CASE WriteBadge(c)
    <2>1. readme'[r] = readme[r]
      BY <1>2 DEF WriteBadge, TypeOK
    <2> QED
      BY <1>0, <1>2, <2>1 DEF WriteBadge, Undisturbed, envVars
  <1>3. CASE Save(c)
    <2>1. record'[r] = record[r]
      BY <1>3 DEF Save, TypeOK
    <2> QED
      BY <1>3, <2>1, UnchangedUndisturbed DEF Save, envVars, githubVars
  <1>4. CASE PanicNoRequirement(c)
    BY <1>4, DieUndisturbed DEF PanicNoRequirement
  <1>5. CASE ~EnsureLabels(c) /\ ~WriteBadge(c) /\ ~Save(c) /\ ~PanicNoRequirement(c)
    <2>1. UNCHANGED <<record, head, clock, labels, readme>>
      BY <1>5 DEF PipelineStep, Parse, Clone, FindSeed, CommentSeed, CloseSeed, Evaluate,
         ReadReadme, GetRecord, FindLoop, MakeCard, CreateLoop, CallFails, Refuse,
         ReadReturns, githubVars, envVars
    <2> QED
      BY <2>1, UnchangedUndisturbed
  <1> QED
    BY <1>1, <1>2, <1>3, <1>4, <1>5
-----------------------------------------------------------------------------
(* What a pipeline knows after its own step *)

\* A step that does not end the pipeline of c leaves it at a call with its locals.
LEMMA OnItGoes ==
    ASSUME TypeOK, NEW c \in Callers, pc'[c] # "idle"
    PROVE  /\ ~Die /\ ~LostReply(c) /\ ~Refuse(c) /\ \A result : ~Finish(c, result)
           /\ \A step, j : WriteReturns(c, step, j) \/ ReadReturns(c, step, j) \/ Goto(c, step, j)
                             => pc'[c] = step /\ job'[c] = j /\ key'[c] = key[c]
  <1>1. ~Die /\ \A result : ~Finish(c, result)
    BY DEF Die, Finish, TypeOK
  <1>2. ~LostReply(c) /\ ~Refuse(c)
    BY <1>1 DEF LostReply, Refuse
  <1>3. \A step, j : Goto(c, step, j) => pc'[c] = step /\ job'[c] = j /\ key'[c] = key[c]
    BY DEF Goto, callVars, TypeOK
  <1> QED
    BY <1>1, <1>2, <1>3 DEF WriteReturns, ReadReturns

\* The locals of c are now j, and main, the clock and the record are as they were.
Resumes(c, j) == job'[c] = j /\ key'[c] = key[c] /\ UNCHANGED <<record, head, clock>>

LEMMA MainStillKnown ==
    ASSUME NEW c, NEW j, Resumes(c, j), KnowsMain(c), pc[c] \in Fetched, j.rev = job[c].rev
    PROVE  KnowsMain(c)'
  BY DEF Resumes, KnowsMain, Repo

\* The calls from the look for a seed issue to the labels.
LEMMA EarlyKnows ==
    ASSUME TypeOK, FlightInv, NEW c \in Callers, Knows(c), Timely(Repo(c)), pc'[c] # "idle",
           \/ Clone(c) \/ FindSeed(c) \/ CommentSeed(c) \/ CloseSeed(c) \/ Evaluate(c)
           \/ EnsureLabels(c)
    PROVE  Knows(c)'
  <1> USE OnItGoes
  <1>1. job[c] \in Jobs /\ Repo(c) \in Repos
    <2>1. Serving(c)
      BY DEF Serving, Clone, FindSeed, CommentSeed, CloseSeed, Evaluate, EnsureLabels, At,
         Steps, Reads, Writes
    <2> QED
      BY <2>1 DEF TypeOK, FlightInv
  <1>2. CASE Clone(c)
    <2>1. /\ pc'[c] = "seed"
          /\ Resumes(c, [job[c] EXCEPT !.rev = head[Repo(c)].rev, !.kind = head[Repo(c)].kind])
      BY <1>2 DEF Clone, ReadReturns, Resumes, envVars
    <2>2. job'[c].rev = head[Repo(c)].rev /\ head[Repo(c)].rev \in Nat
      BY <1>1, <2>1 DEF Resumes, Jobs, TypeOK, Heads
    <2>3. KnowsMain(c)'
      BY <2>1, <2>2 DEF Resumes, KnowsMain, Timely, Repo
    <2> QED
      BY <2>1, <2>3 DEF Knows, KnowsTime, KnowsLabels, KnowsBase, KnowsBadge, Tagged, Badged,
         Judged
  <1>3. CASE FindSeed(c) \/ CommentSeed(c) \/ CloseSeed(c) \/ Evaluate(c)
    <2>1. PICK j : j.rev = job[c].rev /\ Resumes(c, j)
                   /\ pc'[c] \in {"eval", "comment", "close", "labels"}
      <3>1. CASE FindSeed(c)
        <4>1. \A n : [job[c] EXCEPT !.seed = n].rev = job[c].rev
          BY <1>1 DEF Jobs
        <4>2. PICK j, step : /\ ReadReturns(c, step, j) /\ step \in {"eval", "comment"}
                             /\ j.rev = job[c].rev
          BY <3>1, <4>1 DEF FindSeed
        <4> QED
          BY <4>2 DEF ReadReturns, Resumes, envVars
      <3>2. CASE CommentSeed(c) \/ CloseSeed(c)
        BY <3>2 DEF CommentSeed, CloseSeed, Resumes, envVars
      <3>3. CASE Evaluate(c)
        <4>1. \A n : [job[c] EXCEPT !.pct = n].rev = job[c].rev
          BY <1>1 DEF Jobs
        <4>2. PICK j : ReadReturns(c, "labels", j) /\ j.rev = job[c].rev
          BY <3>3, <4>1 DEF Evaluate
        <4> QED
          BY <4>2 DEF ReadReturns, Resumes, envVars
      <3> QED
        BY <1>3, <3>1, <3>2, <3>3
    <2>2. pc[c] \in Fetched
      BY <1>3 DEF FindSeed, CommentSeed, CloseSeed, Evaluate, At, Fetched, Steps, Reads, Writes
    <2>3. KnowsMain(c)'
      BY <2>1, <2>2, MainStillKnown DEF Knows
    <2> QED
      BY <2>1, <2>3 DEF Knows, KnowsTime, KnowsLabels, KnowsBase, KnowsBadge, Tagged, Badged,
         Judged
  <1>4. CASE EnsureLabels(c)
    <2>1. pc'[c] = "readme" /\ Resumes(c, job[c])
      BY <1>4 DEF EnsureLabels, Resumes, envVars
    <2>2. labels' = [labels EXCEPT ![Repo(c)] = Labels]
      BY <1>4 DEF EnsureLabels
    <2>3. KnowsLabels(c)'
      BY <1>1, <2>1, <2>2 DEF KnowsLabels, Resumes, Repo, TypeOK
    <2>4. pc[c] \in Fetched
      BY <1>4 DEF EnsureLabels, At, Fetched, Steps, Writes
    <2>5. KnowsMain(c)'
      BY <2>1, <2>4, MainStillKnown DEF Knows
    <2> QED
      BY <2>1, <2>3, <2>5 DEF Knows, KnowsTime, KnowsBase, KnowsBadge, Badged, Judged
  <1> QED
    BY <1>2, <1>3, <1>4

\* The README is read and the badge set.
LEMMA BadgeKnows ==
    ASSUME TypeOK, FlightInv, NEW c \in Callers, Knows(c), pc'[c] # "idle",
           ReadReadme(c) \/ WriteBadge(c)
    PROVE  Knows(c)'
  <1> USE OnItGoes
  <1>1. job[c] \in Jobs /\ pc[c] \in Fetched /\ pc[c] \in Tagged /\ Repo(c) \in Repos
    <2>1. pc[c] \in {"readme", "badge"}
      BY DEF ReadReadme, WriteBadge, At
    <2> QED
      BY <2>1 DEF TypeOK, FlightInv, Fetched, Tagged, Serving, Steps, Writes
  <1>2. UNCHANGED labels
    BY DEF ReadReadme, WriteBadge, ReadReturns, githubVars
  <1>3. CASE ReadReadme(c)
    <2>1. PICK b : /\ pc'[c] = "badge" /\ Resumes(c, [job[c] EXCEPT !.base = b])
                   /\ b \in {Absent, readme[Repo(c)]} /\ UNCHANGED readme
      <3>1. CASE ReadReturns(c, "badge", [job[c] EXCEPT !.base = readme[Repo(c)]])
        BY <3>1 DEF ReadReturns, Resumes, envVars, githubVars
      <3>2. CASE /\ job' = [job EXCEPT ![c].base = Absent] /\ pc' = [pc EXCEPT ![c] = "badge"]
                 /\ UNCHANGED <<githubVars, record, envVars>> /\ UNCHANGED key
        BY <3>2 DEF Resumes, envVars, githubVars, TypeOK
      <3> QED
        BY <1>3, <3>1, <3>2 DEF ReadReadme, callVars
    <2>2. [job[c] EXCEPT !.base = b].base = b /\ [job[c] EXCEPT !.base = b].rev = job[c].rev
      BY <1>1 DEF Jobs
    <2>3. KnowsMain(c)'
      BY <1>1, <2>1, <2>2, MainStillKnown DEF Knows
    <2>4. KnowsBase(c)'
      BY <2>1, <2>2 DEF KnowsBase, Resumes, Repo, Absent
    <2>5. KnowsLabels(c)'
      BY <1>1, <1>2, <2>1 DEF Knows, KnowsLabels, Resumes, Repo
    <2> QED
      BY <2>1, <2>3, <2>4, <2>5 DEF Knows, KnowsTime, KnowsBadge, Badged, Judged
  <1>4. CASE WriteBadge(c)
    <2>1. pc'[c] = "get" /\ Resumes(c, job[c])
      BY <1>4 DEF WriteBadge, Resumes, envVars
    <2>2. readme'[Repo(c)].badge = job[c].pct
      <3>1. readme[Repo(c)] \in Readmes /\ job[c].base \in Readmes /\ job[c].pct \in 0..100
        BY <1>1 DEF TypeOK, Jobs
      <3>2. CASE job[c].base.badge = job[c].pct /\ UNCHANGED readme
        <4>1. job[c].base.badge \in {-1, readme[Repo(c)].badge}
          BY <1>4 DEF WriteBadge, At, Knows, KnowsBase
        <4> QED
          BY <3>1, <3>2, <4>1
      <3>3. CASE readme' = [readme EXCEPT ![Repo(c)] = [job[c].base EXCEPT !.exists = TRUE,
                                                                           !.badge = job[c].pct]]
        BY <1>1, <3>1, <3>3 DEF TypeOK, Readmes
      <3> QED
        BY <1>4, <3>2, <3>3 DEF WriteBadge
    <2>3. KnowsMain(c)'
      BY <1>1, <2>1, MainStillKnown DEF Knows
    <2>4. KnowsLabels(c)' /\ KnowsBadge(c)'
      BY <1>1, <1>2, <2>1, <2>2 DEF Knows, KnowsLabels, KnowsBadge, Resumes, Repo
    <2> QED
      BY <2>1, <2>3, <2>4 DEF Knows, KnowsTime, KnowsBase, Judged
  <1> QED
    BY <1>3, <1>4

\* The calls from the look at the old record to the new one's.
LEMMA LateKnows ==
    ASSUME TypeOK, FlightInv, NEW c \in Callers, Knows(c), Timely(Repo(c)), pc'[c] # "idle",
           GetRecord(c) \/ FindLoop(c) \/ MakeCard(c) \/ CreateLoop(c)
    PROVE  Knows(c)'
  <1> USE OnItGoes
  <1>1. job[c] \in Jobs /\ pc[c] \in Fetched /\ pc[c] \in Badged /\ Repo(c) \in Repos
    <2>1. pc[c] \in {"get", "find", "card", "create"}
      BY DEF GetRecord, FindLoop, MakeCard, CreateLoop, At
    <2> QED
      BY <2>1 DEF TypeOK, FlightInv, Fetched, Badged, Judged, Serving, Steps, Reads, Writes
  <1>2. UNCHANGED <<labels, readme>>
    BY DEF GetRecord, FindLoop, MakeCard, CreateLoop, ReadReturns, githubVars
  <1>3. clock \in Nat
    BY DEF TypeOK
  <1>4. ASSUME NEW j, Resumes(c, j), pc'[c] \in Judged, j.rev = job[c].rev, j.pct = job[c].pct,
               KnowsTime(c)'
        PROVE  Knows(c)'
    <2>1. KnowsMain(c)'
      BY <1>1, <1>4, MainStillKnown DEF Knows
    <2>2. KnowsLabels(c)' /\ KnowsBadge(c)'
      BY <1>1, <1>2, <1>4, CallSets DEF Knows, KnowsLabels, KnowsBadge, Resumes, Repo
    <2> QED
      BY <1>4, <2>1, <2>2 DEF Knows, KnowsBase, Judged
  <1>5. CASE GetRecord(c)
    <2>1. PICK j : /\ Resumes(c, j) /\ j.rev = job[c].rev /\ j.pct = job[c].pct /\ j.now = clock
                   /\ record[Repo(c)] # None =>
                        j.misread \/ j.enrolledAt = record[Repo(c)].enrolledAt
                   /\ pc'[c] \in {"save", "find"}
      <3> DEFINE next == IF job[c].pct = 100 THEN "save" ELSE "find"
                 Found(at) == [job[c] EXCEPT !.now = clock, !.enrolledAt = at]
                 old == IF record[Repo(c)] # None THEN record[Repo(c)].enrolledAt ELSE clock
      <3>1. \A at : /\ Found(at).rev = job[c].rev /\ Found(at).pct = job[c].pct
                    /\ Found(at).now = clock /\ Found(at).enrolledAt = at
        BY <1>1 DEF Jobs
      <3>2. PICK j : j = [Found(clock) EXCEPT !.misread = TRUE]
        OBVIOUS
      <3>3. j.misread /\ j.rev = job[c].rev /\ j.pct = job[c].pct /\ j.now = clock
        BY <1>1, <3>2 DEF Jobs
      <3>4. next \in {"save", "find"}
        OBVIOUS
      <3>5. UNCHANGED <<record, head, clock>>
        BY <1>5 DEF GetRecord, envVars
      <3>6. \/ Goto(c, next, Found(old))
            \/ /\ pc' = [pc EXCEPT ![c] = next]
               /\ job' = [job EXCEPT ![c] = [Found(clock) EXCEPT !.misread = TRUE]]
               /\ UNCHANGED key
        BY <1>5 DEF GetRecord
      <3>7. record[Repo(c)] # None => old = record[Repo(c)].enrolledAt
        OBVIOUS
      <3> HIDE DEF next, Found, old
      <3>8. CASE Goto(c, next, Found(old))
        BY <3>1, <3>4, <3>5, <3>7, <3>8 DEF Resumes
      <3>9. CASE /\ pc' = [pc EXCEPT ![c] = next]
                 /\ job' = [job EXCEPT ![c] = [Found(clock) EXCEPT !.misread = TRUE]]
                 /\ UNCHANGED key
        <4>1. job'[c] = j /\ pc'[c] = next
          BY <3>2, <3>9 DEF TypeOK
        <4> QED
          BY <3>3, <3>4, <3>5, <3>9, <4>1 DEF Resumes
      <3> QED
        BY <3>6, <3>8, <3>9
    <2>2. KnowsTime(c)'
      BY <1>1, <1>3, <2>1 DEF KnowsTime, Resumes, Repo, Timely
    <2> QED
      BY <1>4, <2>1, <2>2 DEF Judged
  <1>6. CASE FindLoop(c) \/ MakeCard(c) \/ CreateLoop(c)
    <2> DEFINE Like(j) == /\ j.rev = job[c].rev /\ j.pct = job[c].pct /\ j.now = job[c].now
                          /\ j.enrolledAt = job[c].enrolledAt /\ j.misread = job[c].misread
    <2>1. Like(job[c]) /\ \A n : Like([job[c] EXCEPT !.issue = n])
      BY <1>1 DEF Jobs
    <2> HIDE DEF Like
    <2>2. PICK j : Resumes(c, j) /\ Like(j) /\ pc'[c] \in Judged
      <3>1. CASE FindLoop(c)
        <4>1. PICK j, step : /\ ReadReturns(c, step, j) /\ step \in {"card", "save"}
                             /\ Like(j)
          BY <2>1, <3>1 DEF FindLoop
        <4> QED
          BY <4>1 DEF ReadReturns, Resumes, envVars, Judged
      <3>2. CASE MakeCard(c)
        BY <2>1, <3>2 DEF MakeCard, ReadReturns, Resumes, envVars, Judged
      <3>3. CASE CreateLoop(c)
        <4>1. PICK j : Like(j) /\ WriteReturns(c, "save", j)
          BY <2>1, <3>3 DEF CreateLoop
        <4> QED
          BY <3>3, <4>1 DEF CreateLoop, Resumes, envVars, Judged
      <3> QED
        BY <1>6, <3>1, <3>2, <3>3
    <2>3. pc[c] \in Judged
      BY <1>6 DEF FindLoop, MakeCard, CreateLoop, At, Judged
    <2>4. KnowsTime(c)'
      BY <2>2, <2>3 DEF Knows, KnowsTime, Resumes, Repo, Like
    <2> QED
      BY <1>4, <2>2, <2>4 DEF Like
  <1> QED
    BY <1>5, <1>6

LEMMA OwnKnows ==
    ASSUME TypeOK, FlightInv, NEW c \in Callers, Knows(c),
           \A r \in Repos : Timely(r), PipelineStep(c)
    PROVE  Knows(c)'
  <1>1. CASE pc'[c] \notin Fetched
    BY <1>1, KnowsNothingNext
  <1>2. CASE Parse(c)
    <2>1. pc'[c] \in {"idle", "clone"}
      BY <1>2 DEF Parse, Refuse, Finish, Goto, TypeOK
    <2> QED
      BY <1>1, <2>1, CallSets
  <1>3. CASE pc'[c] \in Fetched /\ ~Parse(c)
    <2>1. pc'[c] # "idle"
      BY <1>3, CallSets
    <2>2. Serving(c)
      BY <1>3 DEF PipelineStep, Clone, FindSeed, CommentSeed, CloseSeed, Evaluate, EnsureLabels,
         ReadReadme, WriteBadge, GetRecord, FindLoop, MakeCard, CreateLoop, Save, CallFails,
         PanicNoRequirement, At, Serving, Steps, Reads, Writes
    <2>3. Timely(Repo(c))
      BY <2>2 DEF FlightInv
    <2>4. ~Save(c) /\ ~CallFails(c) /\ ~PanicNoRequirement(c)
      BY <2>1, OnItGoes DEF Save, CallFails, PanicNoRequirement
    <2> QED
      BY <1>3, <2>1, <2>3, <2>4, EarlyKnows, BadgeKnows, LateKnows DEF PipelineStep
  <1> QED
    BY <1>1, <1>2, <1>3
-----------------------------------------------------------------------------
(* The invariant *)

LEMMA ParseUndisturbed ==
    ASSUME TypeOK, NEW c \in Callers, PipelineStep(c), pc[c] = "parse", NEW r \in Repos
    PROVE  Undisturbed(r)
  <1>1. Parse(c)
    BY DEF PipelineStep, Clone, FindSeed, CommentSeed, CloseSeed, Evaluate, EnsureLabels,
       ReadReadme, WriteBadge, GetRecord, FindLoop, MakeCard, CreateLoop, Save, CallFails,
       PanicNoRequirement, At, Reads, Writes
  <1> QED
    BY <1>1, UnchangedUndisturbed DEF Parse, Refuse, githubVars, envVars

\* With one spelling, no pipeline disturbs the repository of another.
LEMMA OthersUndisturbed ==
    ASSUME OneSpelling, TypeOK, FlightInv, NEW c \in Callers, NEW d \in Callers, d # c,
           PipelineStep(c), pc[d] \in Fetched, NEW r \in Repos, r = Repo(d)
    PROVE  Undisturbed(r)
  <1>1. CASE pc[c] = "parse"
    BY <1>1, ParseUndisturbed
  <1>2. CASE pc[c] # "parse"
    <2>1. pc[c] # "idle"
      BY StepShape, NotAStep DEF PipelineStep, Parse, Clone, FindSeed, CommentSeed, CloseSeed,
         Evaluate, EnsureLabels, ReadReadme, WriteBadge, GetRecord, FindLoop, MakeCard,
         CreateLoop, Save, CallFails, PanicNoRequirement, At, Reads, Writes
    <2>2. Repo(c) # Repo(d)
      BY <1>2, <2>1, AloneOnRepo, CallSets DEF OnePipelinePerRepo
    <2> QED
      BY <2>2, PipelineUndisturbed
  <1> QED
    BY <1>1, <1>2

LEMMA SaveTimely ==
    ASSUME TypeOK, FlightInv, NEW c \in Callers, Save(c), Knows(c),
           \A r \in Repos : Timely(r), NEW r \in Repos
    PROVE  Timely(r)'
  <1>1. Saved(c) /\ UNCHANGED <<head, clock>> /\ Repo(c) \in Repos /\ pc[c] = "save"
    BY DEF Save, Saved, At, envVars, FlightInv, Serving, Steps, Writes
  <1>2. job[c].rev <= head[Repo(c)].rev /\ job[c].now <= clock
    BY <1>1 DEF Knows, KnowsMain, KnowsTime, Fetched, Judged, Steps, Writes
  <1>3. CASE r = Repo(c)
    BY <1>1, <1>2, <1>3 DEF Saved, Timely, TypeOK
  <1>4. CASE r # Repo(c)
    BY <1>1, <1>4 DEF Saved, Timely, TypeOK
  <1> QED
    BY <1>3, <1>4

\* A pipeline without a verdict to enter disturbs the record of no repository.
LEMMA PipelineTimely ==
    ASSUME TypeOK, TypeOK', FlightInv, NEW c \in Callers, PipelineStep(c), ~Save(c),
           NEW r \in Repos, Timely(r)
    PROVE  Timely(r)'
  <1>1. record'[r] \in {record[r], None}
    BY QuietRecord DEF Forgotten
  <1>2. UNCHANGED <<head, clock>>
    BY DEF PipelineStep, Parse, Clone, FindSeed, CommentSeed, CloseSeed, Evaluate,
       EnsureLabels, ReadReadme, WriteBadge, GetRecord, FindLoop, MakeCard, CreateLoop,
       CallFails, PanicNoRequirement, Refuse, ReadReturns, Die, envVars
  <1> QED
    BY <1>1, <1>2 DEF Timely

LEMMA NextRecordInv ==
    ASSUME OneSpelling, TypeOK, FlightInv, RecordInv, [Next]_vars PROVE RecordInv'
  <1>1. TypeOK' /\ \A d \in Callers : Knows(d)
    BY NextTyped, FlightInvServes DEF RecordInv
  <1>2. ASSUME NEW c \in Callers, PipelineStep(c) PROVE RecordInv'
    <2>1. ASSUME NEW r \in Repos PROVE Timely(r)'
      BY <1>1, <1>2, <2>1, SaveTimely, PipelineTimely DEF RecordInv
    <2>2. ASSUME NEW d \in Callers PROVE Knows(d)'
      <3>1. CASE d = c
        BY <1>1, <1>2, <3>1, OwnKnows DEF RecordInv
      <3>2. CASE pc'[d] \notin Fetched
        BY <3>2, KnowsNothingNext
      <3>3. CASE d # c /\ pc'[d] \in Fetched
        <4>1. Stays(d)
          BY <1>2, <3>3, OthersStay, CallSets
        <4>2. \A r \in Repos : r = Repo(d) => Undisturbed(r)
          BY <1>2, <3>3, <4>1, OthersUndisturbed DEF Stays
        <4> QED
          BY <1>1, <4>1, <4>2, UndisturbedKnows
      <3> QED
        BY <3>1, <3>2, <3>3
    <2> QED
      BY <2>1, <2>2 DEF RecordInv
  <1>3. CASE Crash
    <2>1. \A r \in Repos : Undisturbed(r)
      BY <1>3, DieUndisturbed DEF Crash
    <2>2. \A d \in Callers : Knows(d)'
      BY <1>3, KnowsNothingNext, CallSets DEF Crash, Die
    <2> QED
      BY <1>1, <2>1, <2>2, UndisturbedTimely DEF RecordInv
  <1>4. CASE \/ UNCHANGED vars \/ Tick \/ \E r \in Repos : WorldStep(r)
             \/ \E c \in Callers : RejectBlank(c) \/ Cancel(c) \/ \E s \in Spellings : Call(c, s)
    <2>1. ASSUME NEW r \in Repos PROVE Undisturbed(r)
      <3>1. CASE \/ UNCHANGED vars
                 \/ \E c \in Callers : RejectBlank(c) \/ Cancel(c) \/ \E s \in Spellings : Call(c, s)
        <4>1. UNCHANGED <<record, head, clock, labels, readme>>
          BY <3>1 DEF vars, RejectBlank, Cancel, Call, githubVars, envVars
        <4> QED
          BY <4>1, UnchangedUndisturbed
      <3> QED
        BY <1>4, <3>1, WorldUndisturbed
    <2>2. ASSUME NEW d \in Callers PROVE Stays(d) \/ pc'[d] \notin Fetched
      <3>1. ASSUME NEW c \in Callers, NEW s \in Spellings, Call(c, s)
            PROVE  Stays(d) \/ pc'[d] \notin Fetched
        <4>1. CASE d = c
          <5>1. pc[c] = "idle"
            BY <3>1 DEF Call, FlightInv
          <5>2. pc'[c] \in {"idle", "parse"}
            BY <3>1, <5>1 DEF Call, TypeOK
          <5> QED
            BY <4>1, <5>2, CallSets
        <4>2. CASE d # c
          BY <3>1, <4>2 DEF Call, Stays, TypeOK
        <4> QED
          BY <4>1, <4>2
      <3>2. CASE \/ UNCHANGED vars \/ Tick \/ \E r \in Repos : WorldStep(r)
                 \/ \E c \in Callers : RejectBlank(c) \/ Cancel(c)
        BY <3>2 DEF vars, callVars, Tick, WorldStep, Push, CloseByHand, EditReadme, RejectBlank,
           Cancel, Stays
      <3> QED
        BY <1>4, <3>1, <3>2
    <2>3. \A d \in Callers : Knows(d)'
      BY <1>1, <2>1, <2>2, UndisturbedKnows, KnowsNothingNext
    <2> QED
      BY <1>1, <2>1, <2>3, UndisturbedTimely DEF RecordInv
  <1> QED
    BY <1>2, <1>3, <1>4 DEF Next

LEMMA RecordKept == OneSpelling => (Spec => [](TypeOK /\ FlightInv /\ RecordInv))
  <1> SUFFICES ASSUME OneSpelling PROVE Spec => [](TypeOK /\ FlightInv /\ RecordInv)
    OBVIOUS
  <1>1. TypeOK /\ FlightInv /\ RecordInv /\ [Next]_vars => RecordInv'
    BY NextRecordInv
  <1> QED
    BY <1>1, InitRecord, FlightsKept, PTL DEF Spec
-----------------------------------------------------------------------------
(* The theorems *)

\* What a save makes of the record, and what its pipeline knew of it.
LEMMA SaveKnows ==
    ASSUME TypeOK, FlightInv, NEW c \in Callers, Save(c), Knows(c)
    PROVE  /\ Repo(c) \in Repos /\ At(c, "save") /\ job[c] \in Jobs
           /\ record'[Repo(c)] \in Records
           /\ record'[Repo(c)].pct = job[c].pct /\ record'[Repo(c)].issue = job[c].issue
           /\ record'[Repo(c)].rev = job[c].rev /\ record'[Repo(c)].evaluatedAt = job[c].now
           /\ record'[Repo(c)].enrolledAt = job[c].enrolledAt
           /\ \A r \in Repos \ {Repo(c)} : record'[r] = record[r]
           /\ record[Repo(c)] # None =>
                /\ record[Repo(c)].rev <= job[c].rev
                /\ record[Repo(c)].evaluatedAt <= job[c].now
                /\ job[c].misread \/ record[Repo(c)].enrolledAt = job[c].enrolledAt
           /\ labels[Repo(c)] = Labels /\ readme[Repo(c)].badge = job[c].pct
           /\ UNCHANGED <<labels, readme>>
  <1>1. At(c, "save") /\ Repo(c) \in Repos /\ pc[c] = "save"
    BY DEF Save, At, FlightInv, Serving, Steps, Writes
  <1>2. record' = [record EXCEPT ![Repo(c)] =
          [pct |-> job[c].pct, issue |-> job[c].issue, rev |-> job[c].rev,
           enrolledAt |-> job[c].enrolledAt, evaluatedAt |-> job[c].now]]
        /\ UNCHANGED <<labels, readme>>
    BY DEF Save, githubVars
  <1>3. pc[c] \in Fetched /\ pc[c] \in Judged /\ pc[c] \in Tagged /\ pc[c] \in Badged
    BY <1>1, CallSets DEF Judged
  <1>4. job[c] \in Jobs
    BY DEF TypeOK
  <1>5. /\ record'[Repo(c)] = [pct |-> job[c].pct, issue |-> job[c].issue, rev |-> job[c].rev,
                               enrolledAt |-> job[c].enrolledAt, evaluatedAt |-> job[c].now]
        /\ \A r \in Repos \ {Repo(c)} : record'[r] = record[r]
    BY <1>1, <1>2 DEF TypeOK
  <1>6. record'[Repo(c)] \in Records
    BY <1>4, <1>5 DEF Jobs, Records
  <1> QED
    BY <1>1, <1>2, <1>3, <1>4, <1>5, <1>6 DEF Knows, KnowsMain, KnowsTime, KnowsLabels, KnowsBadge

\* If every repository goes by one spelling, the record never goes back to the verdict on
\* an older revision or an older time (pipeline.go 209, 301-313).
THEOREM NoOlderVerdict == OneSpelling => (Spec => RecordMonotone)
  <1> SUFFICES ASSUME OneSpelling PROVE Spec => RecordMonotone
    OBVIOUS
  <1>1. ASSUME TypeOK, FlightInv, RecordInv, [Next]_vars, NEW r \in Repos,
               record[r] # None, record'[r] # None
        PROVE  /\ record'[r].rev >= record[r].rev
               /\ record'[r].evaluatedAt >= record[r].evaluatedAt
    <2>1. record[r].rev \in Nat /\ record[r].evaluatedAt \in Nat
      BY <1>1 DEF TypeOK, Records
    <2>2. CASE record'[r] = record[r]
      BY <2>1, <2>2
    <2>3. ASSUME NEW c \in Callers, Save(c), r = Repo(c)
          PROVE  /\ record'[r].rev >= record[r].rev
                 /\ record'[r].evaluatedAt >= record[r].evaluatedAt
      <3>1. Knows(c)
        BY <1>1 DEF RecordInv
      <3>2. /\ record'[Repo(c)].rev = job[c].rev /\ record'[Repo(c)].evaluatedAt = job[c].now
            /\ record[Repo(c)] # None => /\ record[Repo(c)].rev <= job[c].rev
                                         /\ record[Repo(c)].evaluatedAt <= job[c].now
        BY <1>1, <2>3, <3>1, SaveKnows
      <3>3. job[c].rev \in Nat /\ job[c].now \in Nat
        BY <1>1 DEF TypeOK, Jobs
      <3> QED
        BY <1>1, <2>1, <2>3, <3>2, <3>3
    <2> QED
      BY <1>1, <2>2, <2>3, RecordEvolves, SaveKnows DEF Forgotten, RecordInv
  <1>2. TypeOK /\ FlightInv /\ RecordInv /\ [Next]_vars =>
          [\A r \in Repos : record[r] # None /\ record'[r] # None =>
             /\ record'[r].rev >= record[r].rev
             /\ record'[r].evaluatedAt >= record[r].evaluatedAt]_vars
    BY <1>1
  <1> QED
    BY <1>2, RecordKept, PTL DEF Spec, RecordMonotone

\* If every repository goes by one spelling, enrolling again keeps the time of the first
\* enrollment unless the flight that saves failed to read it (pipeline.go 209-215).
THEOREM FirstTimeKept == OneSpelling => (Spec => EnrolledAtKept)
  <1> SUFFICES ASSUME OneSpelling PROVE Spec => EnrolledAtKept
    OBVIOUS
  <1>1. ASSUME TypeOK, FlightInv, RecordInv, [Next]_vars, NEW r \in Repos,
               record[r] # None, record'[r] # None
        PROVE  \/ record'[r].enrolledAt = record[r].enrolledAt
               \/ \E c \in Callers : At(c, "save") /\ Repo(c) = r /\ job[c].misread
    <2>1. ASSUME NEW c \in Callers, Save(c), r = Repo(c)
          PROVE  \/ record'[r].enrolledAt = record[r].enrolledAt
                 \/ \E d \in Callers : At(d, "save") /\ Repo(d) = r /\ job[d].misread
      <3>1. Knows(c)
        BY <1>1 DEF RecordInv
      <3>2. /\ record'[Repo(c)].enrolledAt = job[c].enrolledAt /\ At(c, "save")
            /\ record[Repo(c)] # None =>
                 job[c].misread \/ record[Repo(c)].enrolledAt = job[c].enrolledAt
        BY <1>1, <2>1, <3>1, SaveKnows
      <3> QED
        BY <1>1, <2>1, <3>2
    <2> QED
      BY <1>1, <2>1, RecordEvolves, SaveKnows DEF Forgotten, RecordInv
  <1>2. TypeOK /\ FlightInv /\ RecordInv /\ [Next]_vars =>
          [\A r \in Repos : record[r] # None /\ record'[r] # None =>
             \/ record'[r].enrolledAt = record[r].enrolledAt
             \/ \E c \in Callers : At(c, "save") /\ Repo(c) = r /\ job[c].misread]_vars
    BY <1>1
  <1> QED
    BY <1>2, RecordKept, PTL DEF Spec, EnrolledAtKept

\* A pipeline that does not come to save answers nobody, or with a failure.
LEMMA OnlySaveSucceeds ==
    ASSUME NEW d \in Callers, PipelineStep(d), ~Save(d)
    PROVE  UNCHANGED status \/ Finish(d, Failed) \/ Die
  <1>1. CASE Parse(d) \/ Clone(d) \/ FindSeed(d) \/ FindLoop(d) \/ MakeCard(d) \/ CallFails(d)
             \/ PanicNoRequirement(d)
    BY <1>1 DEF Parse, Clone, FindSeed, FindLoop, MakeCard, CallFails, PanicNoRequirement,
       Refuse, ReadReturns, Goto, callVars
  <1>2. CASE CommentSeed(d) \/ CloseSeed(d) \/ EnsureLabels(d) \/ WriteBadge(d) \/ CreateLoop(d)
    BY <1>2 DEF CommentSeed, CloseSeed, EnsureLabels, WriteBadge, CreateLoop, WriteReturns,
       LostReply, Goto, callVars
  <1>3. CASE Evaluate(d) \/ ReadReadme(d)
    BY <1>3 DEF Evaluate, ReadReadme, ReadReturns, Goto, callVars
  <1>4. CASE GetRecord(d)
    BY <1>4 DEF GetRecord, Goto, callVars
  <1> QED
    BY <1>1, <1>2, <1>3, <1>4 DEF PipelineStep

\* A call that is answered with success shares the spelling of a pipeline that saves.
LEMMA SuccessSaves ==
    ASSUME TypeOK, FlightInv, [Next]_vars, NEW c \in Callers,
           status[c] \in {"running", "waiting"}, status'[c] = "answered", answer'[c].ok
    PROVE  \E d \in Callers : /\ Save(d) /\ key[c] = key[d]
                              /\ answer'[c] = [ok |-> TRUE, pct |-> job[d].pct,
                                               issue |-> job[d].issue]
  <1>1. status'[c] # status[c] /\ ~Failed.ok
    BY DEF Failed
  <1>2. ~Die
    BY <1>1 DEF Die
  <1>3. \A d \in Callers : ~Finish(d, Failed)
    BY <1>1 DEF Finish
  <1>4. PICK d \in Callers : PipelineStep(d)
    BY <1>1, <1>2 DEF Next, vars, callVars, Crash, Tick, WorldStep, Push, CloseByHand,
       EditReadme, Cancel, RejectBlank, Call, TypeOK
  <1>5. Save(d) /\ Finish(d, [ok |-> TRUE, pct |-> job[d].pct, issue |-> job[d].issue])
    <2>1. Save(d)
      BY <1>1, <1>2, <1>3, <1>4, OnlySaveSucceeds
    <2> QED
      BY <1>3, <2>1 DEF Save, LostReply
  <1>6. c \in Flight(d) /\ answer'[c] = [ok |-> TRUE, pct |-> job[d].pct, issue |-> job[d].issue]
    BY <1>1, <1>5 DEF Finish
  <1> QED
    BY <1>5, <1>6 DEF Flight

\* If every repository goes by one spelling, a call answered with success leaves behind what
\* it reports: record, labels and badge (pipeline.go 199-320).
THEOREM SuccessIsBacked == OneSpelling => (Spec => AnswerBacked)
  <1> SUFFICES ASSUME OneSpelling PROVE Spec => AnswerBacked
    OBVIOUS
  <1>1. ASSUME TypeOK, FlightInv, RecordInv, [Next]_vars, NEW c \in Callers,
               status[c] \in {"running", "waiting"}, status'[c] = "answered", answer'[c].ok
        PROVE  /\ record'[Repo(c)] # None
               /\ record'[Repo(c)].pct = answer'[c].pct
               /\ record'[Repo(c)].issue = answer'[c].issue
               /\ labels'[Repo(c)] = Labels
               /\ readme'[Repo(c)].badge = answer'[c].pct
    <2>1. PICK d \in Callers : /\ Save(d) /\ key[c] = key[d]
                               /\ answer'[c] = [ok |-> TRUE, pct |-> job[d].pct,
                                                issue |-> job[d].issue]
      BY <1>1, SuccessSaves
    <2>2. Repo(c) = Repo(d) /\ Knows(d)
      BY <1>1, <2>1 DEF Repo, RecordInv
    <2>3. /\ record'[Repo(d)] \in Records
          /\ record'[Repo(d)].pct = job[d].pct /\ record'[Repo(d)].issue = job[d].issue
          /\ labels'[Repo(d)] = Labels /\ readme'[Repo(d)].badge = job[d].pct
      BY <1>1, <2>1, <2>2, SaveKnows
    <2> QED
      BY <2>1, <2>2, <2>3, NoneNoRecord
  <1>2. TypeOK /\ FlightInv /\ RecordInv /\ [Next]_vars =>
          [\A c \in Callers :
             status[c] \in {"running", "waiting"} /\ status'[c] = "answered" /\ answer'[c].ok =>
               LET r == Repo(c) IN
               /\ record'[r] # None
               /\ record'[r].pct = answer'[c].pct
               /\ record'[r].issue = answer'[c].issue
               /\ labels'[r] = Labels
               /\ readme'[r].badge = answer'[c].pct]_vars
    BY <1>1
  <1> QED
    BY <1>2, RecordKept, PTL DEF Spec, AnswerBacked

\* The badge commit never undoes what a person wrote into the README meanwhile, even when
\* two pipelines work on one repository (real.go 420-438).
THEOREM EditsOfReadmeSurvive == Spec => NoLostReadmeEdit
  <1>1. ASSUME TypeOK, [Next]_vars, NEW r \in Repos
        PROVE  readme'[r].text >= readme[r].text
    <2>1. readme[r] \in Readmes /\ readme[r].text \in Nat
      BY <1>1 DEF TypeOK, Readmes
    <2>2. CASE UNCHANGED readme
      BY <2>1, <2>2
    <2>3. ASSUME NEW c \in Callers, WriteBadge(c) PROVE readme'[r].text >= readme[r].text
      <3>1. CASE /\ readme[Repo(c)] = job[c].base
                 /\ readme' = [readme EXCEPT ![Repo(c)] = [job[c].base EXCEPT !.exists = TRUE,
                                                                              !.badge = job[c].pct]]
        <4>1. readme'[r].text = readme[r].text
          BY <1>1, <2>1, <3>1 DEF TypeOK, Readmes
        <4> QED
          BY <2>1, <4>1
      <3> QED
        BY <2>2, <2>3, <3>1 DEF WriteBadge
    <2>4. ASSUME NEW q \in Repos, EditReadme(q) PROVE readme'[r].text >= readme[r].text
      <3>1. readme'[r].text \in {readme[r].text, readme[r].text + 1}
        BY <1>1, <2>4 DEF EditReadme, TypeOK, Readmes
      <3> QED
        BY <2>1, <3>1
    <2>5. ASSUME NEW c \in Callers, PipelineStep(c), ~WriteBadge(c) PROVE UNCHANGED readme
      BY <2>5 DEF PipelineStep, Parse, Clone, FindSeed, CommentSeed, CloseSeed, Evaluate,
         EnsureLabels, ReadReadme, GetRecord, FindLoop, MakeCard, CreateLoop, Save, CallFails,
         PanicNoRequirement, Refuse, ReadReturns, Die, githubVars
    <2> QED
      BY <1>1, <2>2, <2>3, <2>4, <2>5 DEF Next, vars, Tick, Crash, Die, RejectBlank, Cancel,
         Call, WorldStep, Push, CloseByHand, githubVars
  <1>2. TypeOK /\ [Next]_vars => [\A r \in Repos : readme'[r].text >= readme[r].text]_vars
    BY <1>1
  <1> QED
    BY <1>2, TypeCorrect, PTL DEF Spec, NoLostReadmeEdit
=============================================================================
