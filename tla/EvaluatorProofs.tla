--------------------------- MODULE EvaluatorProofs ---------------------------
(* What a score and the requirement asked for mean, for every specification, *)
(* every change of the tests and every answer of the LLM.                    *)
EXTENDS Evaluator, FiniteSetTheorems, WellFoundedInduction, TLAPS

-----------------------------------------------------------------------------
(* Percentages *)

LEMMA DivBelow ==
    ASSUME NEW a \in Nat, NEW t \in Nat, t > 0, a < 100 * t
    PROVE  a \div t < 100 /\ a \div t \in Nat
  OBVIOUS

\* A part is less than 100 percent.
LEMMA PartBelow ==
    ASSUME NEW c \in Nat, NEW t \in Nat, c < t
    PROVE  Percentage(c, t) # 100
  <1>1. 100 * c < 100 * t /\ 100 * c \in Nat
    OBVIOUS
  <1>2. (100 * c) \div t < 100 /\ (100 * c) \div t \in Nat
    BY <1>1, DivBelow
  <1> QED
    BY <1>2 DEF Percentage

LEMMA WholeIs100 == ASSUME NEW t \in Nat, t > 0 PROVE Percentage(t, t) = 100
  <1>1. (100 * t) \div t = 100
    OBVIOUS
  <1> QED
    BY <1>1 DEF Percentage

LEMMA PercentageType ==
    ASSUME NEW c \in Nat, NEW t \in Nat, t > 0
    PROVE  Percentage(c, t) \in Nat
  <1>1. 100 * c \in Nat
    OBVIOUS
  <1>2. (100 * c) \div t \in Nat
    BY <1>1
  <1> QED
    BY <1>2 DEF Percentage

-----------------------------------------------------------------------------
(* Specifications *)

LEMMA SpecType ==
    ASSUME spec \in Specs
    PROVE  /\ Len(spec) \in Nat /\ DOMAIN spec = 1..Len(spec)
           /\ \A s \in DOMAIN spec : spec[s].size \in Nat
  <1>1. spec \in Seq(Stages)
    BY SpecsType
  <1>2. \A s \in DOMAIN spec : spec[s] \in Stages
    BY <1>1
  <1> QED
    BY <1>1, <1>2 DEF Stages

LEMMA RequirementType ==
    ASSUME spec \in Specs, NEW r \in Requirements
    PROVE  /\ r[1] \in DOMAIN spec /\ r[2] \in 1..spec[r[1]].size /\ r = <<r[1], r[2]>>
           /\ r[1] \in Nat /\ r[2] \in Nat
  <1>1. PICK s \in DOMAIN spec : r \in {s} \X (1..spec[s].size)
    BY DEF Requirements
  <1>2. r[1] = s /\ r[2] \in 1..spec[s].size /\ r = <<r[1], r[2]>>
    BY <1>1
  <1> QED
    BY <1>2, SpecType

LEMMA RequirementIntro ==
    ASSUME NEW s \in DOMAIN spec, NEW k \in 1..spec[s].size
    PROVE  <<s, k>> \in Requirements
  BY DEF Requirements

LEMMA RequirementsFinite == ASSUME spec \in Specs PROVE IsFiniteSet(Requirements)
  <1> DEFINE ofStage(s) == {s} \X (1..spec[s].size)
             parts      == {ofStage(s) : s \in DOMAIN spec}
  <1>1. IsFiniteSet(DOMAIN spec)
    BY SpecType, FS_Interval
  <1>2. IsFiniteSet(parts)
    <2> DEFINE partOf == [s \in DOMAIN spec |-> ofStage(s)]
    <2>1. partOf \in Surjection(DOMAIN spec, parts)
      BY DEF Surjection
    <2> QED
      BY <1>1, <2>1, FS_Surjection
  <1>3. \A s \in DOMAIN spec : IsFiniteSet(ofStage(s))
    <2> TAKE s \in DOMAIN spec
    <2>1. 1 \in Int /\ spec[s].size \in Int
      BY SpecType
    <2>2. IsFiniteSet(1..spec[s].size)
      BY <2>1, FS_Interval
    <2> QED
      BY <2>2, FS_Singleton, FS_Product
  <1>4. \A p \in parts : IsFiniteSet(p)
    BY <1>3
  <1> QED
    BY <1>2, <1>4, FS_UNION DEF Requirements

-----------------------------------------------------------------------------
(* Least elements *)

LEMMA LeastNatural ==
    ASSUME NEW S \in SUBSET Nat, S # {}
    PROVE  \E x \in S : \A y \in S : x <= y
  <1>1. PICK x \in S : \A y \in S : ~ (<<y, x>> \in OpToRel(<, Nat))
    BY NatLessThanWellFounded, WFMin
  <1>2. \A y \in S : ~ (y < x)
    BY <1>1 DEF OpToRel
  <1> QED
    BY <1>2

\* First finds one: the first bullet asked for of the first stage.
LEMMA FirstChosen ==
    ASSUME spec \in Specs, NEW S \in SUBSET Requirements, S # {}
    PROVE  First(S) \in S
  <1> DEFINE stages == {r[1] : r \in S}
  <1>1. \A r \in S : r \in Requirements
    OBVIOUS
  <1>2. stages \in SUBSET Nat /\ stages # {}
    BY <1>1, RequirementType
  <1>3. PICK s \in stages : \A q \in stages : s <= q
    <2> HIDE DEF stages
    <2> QED
      BY <1>2, LeastNatural
  <1> DEFINE bullets == {r[2] : r \in {p \in S : p[1] = s}}
  <1>4. bullets \in SUBSET Nat /\ bullets # {}
    BY <1>1, <1>3, RequirementType
  <1>5. PICK k \in bullets : \A q \in bullets : k <= q
    <2> HIDE DEF bullets
    <2> QED
      BY <1>4, LeastNatural
  <1>6. PICK r \in S : r[1] = s /\ r[2] = k
    BY <1>5
  <1>7. ASSUME NEW q \in S PROVE Before(r, q)
    <2>1. s <= q[1] /\ s \in Nat /\ q[1] \in Nat
      BY <1>2, <1>3
    <2>2. q[1] = s => k <= q[2]
      BY <1>5
    <2> QED
      BY <1>6, <2>1, <2>2 DEF Before
  <1> QED
    BY <1>6, <1>7 DEF First

-----------------------------------------------------------------------------
(* Types *)

LEMMA IdType == ASSUME NEW r \in Requirements PROVE Id(r) \in Ids
  BY DEF Ids

LEMMA JudgedType == ASSUME NEW answered \in SUBSET Requirements PROVE Judged(answered) \subseteq Ids
  BY DEF Judged, Ids

LEMMA ScoreType == ASSUME spec \in Specs PROVE Score \in Nat
  <1>1. CASE Requirements = {}
    BY <1>1 DEF Score
  <1>2. CASE Requirements # {}
    <2>1. IsFiniteSet(Requirements) /\ IsFiniteSet(Covered)
      BY RequirementsFinite, FS_Subset DEF Covered
    <2>2. Cardinality(Requirements) \in Nat /\ Cardinality(Covered) \in Nat
      BY <2>1, FS_CardinalityType
    <2>3. Cardinality(Requirements) > 0
      BY <1>2, <2>1, <2>2, FS_EmptySet
    <2> QED
      BY <1>2, <2>2, <2>3, PercentageType DEF Score
  <1> QED
    BY <1>1, <1>2

\* A full score is full coverage.
LEMMA FullScore ==
    ASSUME spec \in Specs, Requirements # {}
    PROVE  Score = 100 <=> Covered = Requirements
  <1>1. IsFiniteSet(Requirements) /\ Covered \in SUBSET Requirements
    BY RequirementsFinite DEF Covered
  <1>2. /\ IsFiniteSet(Covered) /\ Cardinality(Covered) <= Cardinality(Requirements)
        /\ Cardinality(Requirements) = Cardinality(Covered) => Requirements = Covered
    BY <1>1, FS_Subset
  <1>3. Cardinality(Requirements) \in Nat /\ Cardinality(Covered) \in Nat
    BY <1>1, <1>2, FS_CardinalityType
  <1>4. Cardinality(Requirements) > 0
    BY <1>1, <1>3, FS_EmptySet
  <1>5. Score = Percentage(Cardinality(Covered), Cardinality(Requirements))
    BY DEF Score
  <1>6. ASSUME Score = 100 PROVE Covered = Requirements
    <2>1. ~ (Cardinality(Covered) < Cardinality(Requirements))
      BY <1>3, <1>5, <1>6, PartBelow
    <2> QED
      BY <1>2, <1>3, <2>1
  <1>7. ASSUME Covered = Requirements PROVE Score = 100
    BY <1>3, <1>4, <1>5, <1>7, WholeIs100
  <1> QED
    BY <1>6, <1>7

LEMMA SameSpec ==
    ASSUME spec' = spec
    PROVE  /\ Requirements' = Requirements /\ Ids' = Ids
           /\ UniqueNames' = UniqueNames /\ WellFormed' = WellFormed
           /\ covered' = covered => Covered' = Covered /\ Score' = Score
  <1>1. Requirements' = Requirements
    BY DEF Requirements
  <1>2. Ids' = Ids
    BY <1>1 DEF Ids, Id
  <1>3. UniqueNames' = UniqueNames
    BY DEF UniqueNames
  <1>4. WellFormed' = WellFormed
    BY <1>3 DEF WellFormed
  <1>5. ASSUME covered' = covered PROVE Covered' = Covered /\ Score' = Score
    <2>1. Covered' = Covered
      BY <1>1, <1>5 DEF Covered, Id
    <2> QED
      BY <1>1, <2>1 DEF Score
  <1> QED
    BY <1>1, <1>2, <1>3, <1>4, <1>5

LEMMA SpecFixed == [Next]_vars => spec' = spec
  BY DEF Next, vars, Evaluate, Step, PushTests, EndContext, Attempt, SendFails, BadStatus,
         BadReply, Elapsed, WaitEnds, Reply, PopulateMetrics, GiveUp, Choose, Fail, BackOff, Goto

LEMMA FailTyped == TypeOK /\ Fail => TypeOK'
  BY SameSpec DEF TypeOK, Fail, Goto, local


\* What is chosen from was scored as it stands, and that is why there is something to ask.
Scored ==
    /\ score # None => pc \in {"choose", "idle"} /\ score = Score
    /\ pc = "choose" => score = Score

\* A wait is for an attempt that is left.
Waits == pc = "backoff" => AttemptLeft

LEMMA CandidateLeft ==
    ASSUME spec \in Specs, Requirements # {}, Score # 100
    PROVE  Candidates # {} /\ Candidates \subseteq Uncovered
  <1>1. Covered # Requirements /\ Covered \subseteq Requirements
    BY FullScore DEF Covered
  <1>2. Uncovered # {}
    BY <1>1 DEF Uncovered
  <1> QED
    BY <1>2 DEF Candidates

LEMMA AskedType == TypeOK /\ Scored /\ Choose => asked' \in Requirements \cup {None}
  <1> SUFFICES ASSUME TypeOK, Scored, Choose, score # 100
               PROVE  asked' \in Requirements
    BY DEF Choose
  <1>1. Candidates # {} /\ Candidates \subseteq Requirements
    BY CandidateLeft DEF TypeOK, Scored, Choose, Uncovered
  <1>2. First(Candidates) \in Candidates
    BY <1>1, FirstChosen DEF TypeOK
  <1> QED
    BY <1>1, <1>2 DEF Choose

\* The steps of the loop that leave everything but pc alone.
LEMMA MoveTyped ==
    ASSUME TypeOK, NEW step \in {"attempt", "wire", "backoff"}, Goto(step), UNCHANGED local
    PROVE  TypeOK'
  BY SameSpec DEF TypeOK, Goto, local

LEMMA StepTyped == TypeOK /\ Scored /\ Waits /\ Step => TypeOK'
  <1> SUFFICES ASSUME TypeOK, Scored, Waits, Step PROVE TypeOK'
    OBVIOUS
  <1>1. spec' = spec
    BY SpecFixed DEF Next
  <1>2. CASE Attempt \/ SendFails \/ BadStatus \/ BadReply \/ WaitEnds \/ GiveUp
    <2>1. Fail \/ BackOff \/ (Goto("wire") /\ UNCHANGED local)
      BY <1>2 DEF Attempt, SendFails, BadStatus, BadReply, WaitEnds, GiveUp
    <2> QED
      BY <2>1, FailTyped, MoveTyped DEF BackOff
  <1>3. CASE Elapsed
    <2>1. attempt' \in 0..(MaxAttempts - 1)
      BY <1>3, AttemptsType DEF TypeOK, Elapsed, Waits, AttemptLeft
    <2> QED
      BY <1>1, <1>3, <2>1, SameSpec DEF TypeOK, Elapsed, Goto
  <1>4. CASE Reply
    <2>1. covered' \subseteq Ids
      BY <1>4, JudgedType DEF Reply
    <2> QED
      BY <1>1, <1>4, <2>1, SameSpec DEF TypeOK, Reply, Goto
  <1>5. CASE PopulateMetrics
    <2>1. score' \in Nat
      BY <1>5, ScoreType DEF TypeOK, PopulateMetrics
    <2> QED
      BY <1>1, <1>5, <2>1, SameSpec DEF TypeOK, PopulateMetrics, Goto
  <1>6. CASE Choose
    <2>1. asked' \in Requirements \cup {None}
      BY <1>6, AskedType
    <2> QED
      BY <1>1, <1>6, <2>1, SameSpec DEF TypeOK, Choose, Goto
  <1> QED
    BY <1>2, <1>3, <1>4, <1>5, <1>6 DEF Step

LEMMA NextTyped == TypeOK /\ Scored /\ Waits /\ [Next]_vars => TypeOK'
  <1> SUFFICES ASSUME TypeOK, Scored, Waits, [Next]_vars PROVE TypeOK'
    OBVIOUS
  <1>1. spec' = spec
    BY SpecFixed
  <1>2. CASE Evaluate
    <2>1. 0 \in 0..(MaxAttempts - 1)
      BY AttemptsType
    <2> QED
      BY <1>1, <1>2, <2>1, SameSpec DEF TypeOK, Evaluate
  <1>3. CASE PushTests
    BY <1>1, <1>3, SameSpec DEF TypeOK, PushTests, local
  <1>4. CASE EndContext
    BY <1>1, <1>4, SameSpec DEF TypeOK, EndContext, local
  <1>5. CASE UNCHANGED vars
    BY <1>1, <1>5, SameSpec DEF TypeOK, vars, local
  <1> QED
    BY <1>2, <1>3, <1>4, <1>5, StepTyped DEF Next

LEMMA NextScored == TypeOK /\ Scored /\ [Next]_vars => Scored'
  <1> SUFFICES ASSUME TypeOK, Scored, [Next]_vars PROVE Scored'
    OBVIOUS
  <1>1. spec' = spec
    BY SpecFixed
  <1>2. CASE Evaluate
    BY <1>2 DEF Scored, Evaluate
  <1>3. CASE PopulateMetrics
    <2>1. Score' = Score
      BY <1>1, <1>3, SameSpec DEF PopulateMetrics
    <2> QED
      BY <1>3, <2>1 DEF Scored, PopulateMetrics, Goto
  <1>4. CASE Reply
    BY <1>4 DEF Scored, Reply, Goto
  <1>5. CASE PushTests \/ EndContext \/ UNCHANGED vars
    <2>1. Score' = Score
      BY <1>1, <1>5, SameSpec DEF PushTests, EndContext, vars, local
    <2> QED
      BY <1>5, <2>1 DEF Scored, PushTests, EndContext, vars, local
  <1>6. CASE Step /\ ~Reply /\ ~PopulateMetrics
    <2>1. covered' = covered /\ score' = score /\ pc' # "choose" /\ (pc \in {"choose", "idle"} => pc' = "idle")
      BY <1>6 DEF Step, Attempt, SendFails, BadStatus, BadReply, Elapsed, WaitEnds, GiveUp,
                  Choose, Fail, BackOff, Goto, local
    <2>2. Score' = Score
      BY <1>1, <2>1, SameSpec
    <2> QED
      BY <2>1, <2>2 DEF Scored
  <1> QED
    BY <1>2, <1>3, <1>4, <1>5, <1>6 DEF Next

LEMMA NextWaits == Waits /\ [Next]_vars => Waits'
  BY DEF Waits, AttemptLeft, Next, vars, local, Evaluate, Step, PushTests, EndContext, Attempt,
         SendFails, BadStatus, BadReply, Elapsed, WaitEnds, Reply, PopulateMetrics, GiveUp,
         Choose, Fail, BackOff, Goto

LEMMA InitHolds == Init => TypeOK /\ Scored /\ Waits
  <1>1. 0 \in 0..(MaxAttempts - 1)
    BY AttemptsType
  <1>2. Init => TypeOK
    BY <1>1 DEF Init, TypeOK
  <1>3. Init => Scored /\ Waits
    BY DEF Init, Scored, Waits
  <1> QED
    BY <1>2, <1>3

LEMMA Kept == Spec => [](TypeOK /\ Scored /\ Waits)
  BY InitHolds, NextTyped, NextScored, NextWaits, PTL DEF Spec

\* Whatever the specification, the LLM and its failures: types hold, and an evaluation makes
\* no more attempts than the client is configured for.
THEOREM EvaluatorTypeCorrect == Spec => []TypeOK
  BY Kept, PTL

\* A score below 100 always leaves an uncovered requirement to ask for.
THEOREM AlwaysSomethingToAsk == Spec => []SomethingToAsk
  <1>1. TypeOK /\ Scored => SomethingToAsk
    BY CandidateLeft DEF TypeOK, Scored, SomethingToAsk
  <1> QED
    BY <1>1, Kept, PTL
-----------------------------------------------------------------------------
(* What a full score means *)

\* What is counted as covered was judged by its own tests, if no two stages share a name.
JudgedFairly == UniqueNames => Covered \subseteq suite

LEMMA ReplyFair ==
    ASSUME TypeOK, Reply, UniqueNames PROVE Covered' \subseteq suite'
  <1>1. spec' = spec /\ suite' = suite
    BY DEF Reply, Goto
  <1>2. Requirements' = Requirements
    BY <1>1, SameSpec
  <1>3. PICK answered \in SUBSET Requirements : covered' = Judged(answered)
    BY DEF Reply
  <1>4. ASSUME NEW r \in Covered' PROVE r \in suite
    <2>1. r \in Requirements /\ Id(r) \in covered'
      BY <1>1, <1>2 DEF Covered, Id
    <2>2. PICK q \in answered \cap suite : Id(q) = Id(r)
      BY <1>3, <2>1 DEF Judged
    <2>3. q \in Requirements
      BY <1>3
    <2>4. spec[q[1]].name = spec[r[1]].name /\ q[2] = r[2]
      BY <2>2 DEF Id
    <2>5. q[1] = r[1]
      BY <2>1, <2>3, <2>4, RequirementType DEF TypeOK, UniqueNames
    <2> QED
      BY <2>1, <2>2, <2>3, <2>4, <2>5, RequirementType DEF TypeOK
  <1> QED
    BY <1>1, <1>4

LEMMA NextFair == TypeOK /\ JudgedFairly /\ [Next]_vars => JudgedFairly'
  <1> SUFFICES ASSUME TypeOK, JudgedFairly, [Next]_vars, UniqueNames
               PROVE  Covered' \subseteq suite'
    BY SpecFixed, SameSpec DEF JudgedFairly
  <1>1. CASE Evaluate
    BY <1>1 DEF Evaluate, Covered
  <1>2. CASE Reply
    BY <1>2, ReplyFair
  <1>3. CASE ~Evaluate /\ ~Reply
    <2>1. covered' = covered /\ suite' = suite
      BY <1>3 DEF Next, Step, vars, local, PushTests, EndContext, Attempt, SendFails, BadStatus,
                  BadReply, Elapsed, WaitEnds, PopulateMetrics, GiveUp, Choose, Fail, BackOff, Goto
    <2> QED
      BY <2>1, SpecFixed, SameSpec DEF JudgedFairly
  <1> QED
    BY <1>1, <1>2, <1>3

LEMMA KeptFair == Spec => []JudgedFairly
  <1>1. Init => JudgedFairly
    BY DEF Init, JudgedFairly, Covered
  <1> QED
    BY <1>1, NextFair, EvaluatorTypeCorrect, PTL DEF Spec

\* As long as no two stages share a name, a score of 100 means that the tests which were
\* cloned exercise every requirement, whatever the LLM overlooked.
THEOREM HundredMeansTested == Spec => [](UniqueNames => FullScoreTested)
  <1>1. TypeOK /\ Scored /\ JudgedFairly => (UniqueNames => FullScoreTested)
    <2> SUFFICES ASSUME TypeOK, Scored, JudgedFairly, UniqueNames, score = 100
                 PROVE  Requirements \subseteq suite
      BY DEF FullScoreTested
    <2>1. score # None
      BY NoneFresh
    <2>2. Score = 100
      BY <2>1 DEF Scored
    <2> QED
      BY <2>2, FullScore DEF TypeOK, JudgedFairly
  <1> QED
    BY <1>1, Kept, KeptFair, PTL

-----------------------------------------------------------------------------
(* Dependencies first *)

\* Of the stages that are not completed, one of the least rank is ready.
LEMMA SomeReady ==
    ASSUME spec \in Specs, WellFormed, Uncovered # {}
    PROVE  \E s \in DOMAIN spec : Ready(s)
  <1>1. PICK rank \in [DOMAIN spec -> DOMAIN spec] :
          \A r, s \in DOMAIN spec : spec[r].name \in spec[s].deps => rank[r] < rank[s]
    BY DEF WellFormed
  <1> DEFINE open  == {s \in DOMAIN spec : ~Completed(s)}
             ranks == {rank[s] : s \in open}
  <1>2. open # {}
    <2>1. PICK r \in Requirements : r \notin Covered
      BY DEF Uncovered
    <2>2. r[1] \in DOMAIN spec /\ r[2] \in 1..spec[r[1]].size /\ <<r[1], r[2]>> \notin Covered
      BY <2>1, RequirementType
    <2> QED
      BY <2>2 DEF Completed
  <1>3. ranks \in SUBSET Nat /\ ranks # {}
    BY <1>2, SpecType
  <1>4. PICK least \in ranks : \A q \in ranks : least <= q
    <2> HIDE DEF ranks
    <2> QED
      BY <1>3, LeastNatural
  <1>5. PICK s \in open : rank[s] = least
    OBVIOUS
  <1>6. ASSUME NEW name \in spec[s].deps PROVE StageCompletion(name)
    <2>1. PICK r \in DOMAIN spec : spec[r].name = name
      BY <1>6 DEF WellFormed
    <2>2. rank[r] < rank[s] /\ rank[r] \in Nat /\ rank[s] \in Nat
      BY <1>1, <2>1, SpecType
    <2>3. r \notin open
      BY <1>4, <1>5, <2>2
    <2>4. Completed(r)
      BY <2>3
    <2>5. \A q \in DOMAIN spec : spec[q].name = name => q <= r
      <3>1. \A q \in DOMAIN spec : spec[q].name = name => q = r
        BY <2>1 DEF WellFormed, UniqueNames
      <3> QED
        BY <3>1, SpecType
    <2> QED
      BY <2>1, <2>4, <2>5 DEF StageCompletion
  <1> QED
    BY <1>6 DEF Ready

LEMMA CandidatesReady ==
    ASSUME spec \in Specs, WellFormed, Uncovered # {}, NEW r \in Candidates
    PROVE  Ready(r[1]) /\ r \in Requirements
  <1> DEFINE ready == {s \in DOMAIN spec : Ready(s)}
             next  == {q \in Uncovered : q[1] \in Frontier}
  <1>1. ready \in SUBSET Nat /\ ready # {}
    BY SomeReady, SpecType
  <1>2. PICK s \in ready : \A q \in ready : s <= q
    <2> HIDE DEF ready
    <2> QED
      BY <1>1, LeastNatural
  <1>3. s \in Frontier
    BY <1>2 DEF Frontier
  <1>4. PICK k \in 1..spec[s].size : <<s, k>> \notin Covered
    BY <1>2 DEF Ready, Completed, WellFormed
  <1>5. <<s, k>> \in next
    BY <1>2, <1>3, <1>4, RequirementIntro DEF Uncovered
  <1>6. r \in next
    BY <1>5 DEF Candidates
  <1> QED
    BY <1>6 DEF Frontier, Uncovered

BuiltOnCovered(r) ==
    \A q \in Requirements : spec[q[1]].name \in spec[r[1]].deps => q \in Covered

LEMMA ReadyBuilt ==
    ASSUME spec \in Specs, UniqueNames, NEW r \in Requirements, Ready(r[1])
    PROVE  BuiltOnCovered(r)
  <1> SUFFICES ASSUME NEW q \in Requirements, spec[q[1]].name \in spec[r[1]].deps
               PROVE  q \in Covered
    BY DEF BuiltOnCovered
  <1>1. StageCompletion(spec[q[1]].name)
    BY DEF Ready
  <1>2. PICK s \in DOMAIN spec : spec[s].name = spec[q[1]].name /\ Completed(s)
    BY <1>1 DEF StageCompletion
  <1>3. s = q[1]
    BY <1>2, RequirementType DEF UniqueNames
  <1> QED
    BY <1>2, <1>3, RequirementType DEF Completed

\* What was asked for stays asked while the evaluation rests.
Asked == asked # None => pc = "idle" /\ (WellFormed => BuiltOnCovered(asked))

LEMMA ChooseAsked ==
    ASSUME TypeOK, Scored, Choose, score # 100, WellFormed
    PROVE  BuiltOnCovered(asked')
  <1>1. score # 100 /\ Requirements # {} /\ asked' = First(Candidates)
    BY DEF Choose
  <1>2. Candidates # {} /\ Candidates \subseteq Uncovered
    BY <1>1, CandidateLeft DEF TypeOK, Scored, Choose
  <1>3. asked' \in Candidates
    BY <1>1, <1>2, FirstChosen DEF TypeOK, Uncovered
  <1>4. Uncovered # {}
    BY <1>2
  <1>5. Ready(asked'[1]) /\ asked' \in Requirements
    BY <1>3, <1>4, CandidatesReady DEF TypeOK
  <1> QED
    BY <1>5, ReadyBuilt DEF TypeOK, WellFormed

LEMMA NextAsked == TypeOK /\ Scored /\ Asked /\ [Next]_vars => Asked'
  <1> SUFFICES ASSUME TypeOK, Scored, Asked, [Next]_vars, asked' # None PROVE Asked'
    BY DEF Asked
  <1>1. spec' = spec /\ WellFormed' = WellFormed /\ Requirements' = Requirements
    BY SpecFixed, SameSpec
  <1>2. covered' = covered => Covered' = Covered
    BY <1>1, SameSpec
  <1>3. CASE Choose
    <2>1. pc' = "idle" /\ Covered' = Covered
      BY <1>2, <1>3 DEF Choose, Goto
    <2>2. WellFormed => BuiltOnCovered(asked')
      BY <1>3, ChooseAsked DEF Choose
    <2> QED
      BY <1>1, <2>1, <2>2 DEF Asked, BuiltOnCovered
  <1>4. CASE ~Choose
    <2>1. asked' = asked
      BY <1>4 DEF Next, Step, vars, local, Evaluate, PushTests, EndContext, Attempt, SendFails,
           BadStatus, BadReply, Elapsed, WaitEnds, Reply, PopulateMetrics, GiveUp, Fail, BackOff
    <2>2. pc = "idle"
      BY <2>1 DEF Asked
    <2>3. PushTests \/ UNCHANGED vars
      BY <2>2 DEF Next, Step, Evaluate, EndContext, Attempt, SendFails, BadStatus, BadReply,
           Elapsed, WaitEnds, Reply, PopulateMetrics, GiveUp, Choose
    <2> QED
      BY <1>1, <1>2, <2>1, <2>3 DEF Asked, BuiltOnCovered, PushTests, vars, local
  <1> QED
    BY <1>3, <1>4

\* In a well-formed specification whatever is asked for builds on stages whose every
\* requirement is tested, in whichever order they are written and whatever the LLM overlooked.
THEOREM DependenciesAreTested == Spec => []DependenciesFirst
  <1>1. Init => Asked
    BY DEF Init, Asked
  <1>2. TypeOK /\ JudgedFairly /\ Asked => DependenciesFirst
    BY DEF JudgedFairly, Asked, DependenciesFirst, BuiltOnCovered, WellFormed
  <1> QED
    BY <1>1, <1>2, NextAsked, Kept, KeptFair, PTL DEF Spec
-----------------------------------------------------------------------------
(* One judgement *)

\* What the integer division leaves is less than the divisor.
LEMMA Quotient ==
    ASSUME NEW a \in Nat, NEW t \in Nat, t > 0, NEW p, p = a \div t
    PROVE  p \in Nat /\ p * t <= a /\ a < (p + 1) * t
  OBVIOUS

\* A percentage never flatters, and falls short by less than 2.
LEMMA PercentageHonest ==
    ASSUME NEW c \in Nat, NEW t \in Nat, t > 0, c <= t, NEW pct, pct = Percentage(c, t)
    PROVE  pct \in 0..100 /\ pct * t <= 100 * c /\ 100 * c < (pct + 2) * t
  <1>1. PICK a \in Nat : a = 100 * c
    OBVIOUS
  <1>2. PICK p : p = a \div t
    OBVIOUS
  <1>3. p \in Nat /\ p * t <= a /\ a < (p + 1) * t
    BY <1>2, Quotient
  <1>4. p <= 100
    <2>1. a <= 100 * t
      BY <1>1
    <2>2. a < 101 * t
      BY <2>1
    <2>3. ASSUME p >= 101 PROVE FALSE
      <3>1. p * t >= 101 * t
        BY <1>3, <2>3
      <3> QED
        BY <1>3, <2>2, <3>1
    <2> QED
      BY <1>3, <2>3
  <1>5. pct = p \/ (pct = p - 1 /\ p \in {29, 57, 58})
    BY <1>1, <1>2 DEF Percentage
  <1>6. CASE pct = p
    <2>1. (p + 1) * t <= (p + 2) * t
      BY <1>3
    <2> QED
      BY <1>1, <1>3, <1>4, <1>6, <2>1
  <1>7. CASE pct = p - 1 /\ p \in {29, 57, 58}
    <2>1. pct * t <= p * t /\ pct + 2 = p + 1
      BY <1>7
    <2> QED
      BY <1>1, <1>3, <1>7, <2>1
  <1> QED
    BY <1>5, <1>6, <1>7

\* Appraisal counts as the evaluator does.
LEMMA SameCount == \A S : Judgement!Cardinality(S) = Cardinality(S)
  BY Zenon DEF Judgement!Cardinality, Cardinality, Judgement!IsFiniteSet, IsFiniteSet

\* A score means what it says.
LEMMA ScoreMeans ==
    ASSUME spec \in Specs, Score \in Nat
    PROVE  Judgement!Meaning(Requirements, Covered, Score)
  <1>1. IsFiniteSet(Requirements) /\ Covered \in SUBSET Requirements
    BY RequirementsFinite DEF Covered
  <1>2. IsFiniteSet(Covered) /\ Cardinality(Covered) <= Cardinality(Requirements)
    BY <1>1, FS_Subset
  <1>3. PICK c \in Nat, t \in Nat : c = Cardinality(Covered) /\ t = Cardinality(Requirements)
    BY <1>1, <1>2, FS_CardinalityType
  <1>4. CASE Requirements = {}
    <2>1. Covered = {} /\ Cardinality(Covered) = 0 /\ Cardinality(Requirements) = 0
      BY <1>1, <1>4, FS_EmptySet
    <2> QED
      BY <1>4, <2>1, SameCount DEF Judgement!Meaning, Score
  <1>5. CASE Requirements # {}
    <2>1. t > 0
      BY <1>1, <1>3, <1>5, FS_EmptySet
    <2>2. Score = Percentage(c, t)
      BY <1>3, <1>5 DEF Score
    <2>3. Score \in 0..100 /\ Score * t <= 100 * c /\ 100 * c < (Score + 2) * t
      BY <1>2, <1>3, <2>1, <2>2, PercentageHonest
    <2>4. Score = 100 <=> Covered = Requirements
      BY <1>5, FullScore
    <2> QED
      BY <1>1, <1>3, <1>5, <2>3, <2>4, SameCount DEF Judgement!Meaning
  <1> QED
    BY <1>4, <1>5

\* No two stages of a specification share a name.
UniqueSpecs == \A s \in Specs : \A i, j \in DOMAIN s : s[i].name = s[j].name => i = j

LEMMA TaskFixed == ASSUME spec' = spec PROVE Task' = Task
  <1>1. Requirements' = Requirements /\ WellFormed' = WellFormed
    BY SameSpec
  <1>2. \A r : Needs(r)' = Needs(r)
    BY <1>1 DEF Needs
  <1> QED
    BY <1>1, <1>2 DEF Task

LEMMA FoundFixed == ASSUME spec' = spec, covered' = covered, score' = score PROVE Found' = Found
  BY SameSpec DEF Found

\* To whoever waits for the judgement nothing has happened.
LEMMA Unseen ==
    ASSUME Phase' = Phase, spec' = spec, UNCHANGED <<tested, suite, score, asked>>,
           covered' = covered \/ score = None
    PROVE  UNCHANGED Judgement!vars
  <1>1. Task' = Task
    BY TaskFixed
  <1>2. Found' = Found
    BY FoundFixed DEF Found
  <1> QED
    BY <1>1, <1>2 DEF Judgement!vars

LEMMA FailGivesUp == ASSUME Fail, pc # "idle" PROVE Judgement!GiveUp
  <1>1. spec' = spec /\ UNCHANGED <<tested, suite, covered, score, asked>> /\ pc' = "idle"
    BY DEF Fail, Goto, local
  <1>2. Task' = Task /\ Found' = Found
    BY <1>1, TaskFixed, FoundFixed
  <1>3. Phase # "idle" /\ Phase' = "idle"
    BY <1>1 DEF Phase
  <1> QED
    BY <1>1, <1>2, <1>3 DEF Judgement!GiveUp

LEMMA EvaluateBegins == ASSUME Evaluate PROVE Judgement!Begin
  <1>1. /\ spec' = spec /\ tested' = tested /\ suite' = tested /\ score' = None
        /\ asked' = None /\ pc = "idle" /\ pc' \in {"attempt", "metrics"}
    BY DEF Evaluate
  <1>2. Task' = Task
    BY <1>1, TaskFixed
  <1>3. Phase = "idle" /\ Phase' = "judging" /\ Found' = {}
    BY <1>1 DEF Phase, Found
  <1> QED
    BY <1>1, <1>2, <1>3 DEF Judgement!Begin

LEMMA MetricsJudge ==
    ASSUME TypeOK, UniqueNames, JudgedFairly, PopulateMetrics PROVE Judgement!Judge
  <1>1. /\ spec' = spec /\ covered' = covered /\ UNCHANGED <<tested, suite, asked>>
        /\ pc = "metrics" /\ pc' = "choose" /\ score' = Score
    BY DEF PopulateMetrics, Goto
  <1>2. Score \in Nat /\ Score # None
    BY ScoreType, NoneFresh DEF TypeOK
  <1>3. Task' = Task /\ Covered' = Covered
    BY <1>1, TaskFixed, SameSpec
  <1>4. Phase = "judging" /\ Phase' = "judged" /\ Found' = Covered
    BY <1>1, <1>2, <1>3 DEF Phase, Found
  <1>5. Judgement!Meaning(Task.wanted, Found', score')
    BY <1>1, <1>2, <1>4, ScoreMeans DEF Task, TypeOK
  <1>6. Found' \subseteq suite
    BY <1>4 DEF JudgedFairly
  <1> QED
    BY <1>1, <1>3, <1>4, <1>5, <1>6 DEF Judgement!Judge

LEMMA ChooseAsks == ASSUME TypeOK, Scored, Choose PROVE Judgement!Ask
  <1>1. /\ spec' = spec /\ UNCHANGED <<tested, suite, covered, score>>
        /\ pc = "choose" /\ pc' = "idle"
    BY DEF Choose, Goto
  <1>2. score = Score /\ Score # None
    BY <1>1, ScoreType, NoneFresh DEF Scored, TypeOK
  <1>3. Task' = Task /\ Found' = Found /\ Found = Covered
    BY <1>1, <1>2, TaskFixed, FoundFixed DEF Found
  <1>4. Phase = "judged" /\ Phase' = "idle"
    BY <1>1 DEF Phase
  <1>5. CASE score = 100
    BY <1>1, <1>3, <1>4, <1>5 DEF Judgement!Ask, Choose
  <1>6. CASE score # 100
    <2>1. Requirements # {} /\ asked' = First(Candidates)
      BY <1>6 DEF Choose
    <2>2. Candidates # {} /\ Candidates \subseteq Uncovered
      BY <1>2, <1>6, <2>1, CandidateLeft DEF TypeOK
    <2>3. asked' \in Uncovered
      BY <2>1, <2>2, FirstChosen DEF TypeOK, Uncovered
    <2>4. asked' \in Requirements \ Covered
      BY <2>3 DEF Uncovered
    <2>5. WellFormed => Needs(asked') \subseteq Covered
      BY <1>6, ChooseAsked DEF BuiltOnCovered, Needs
    <2>6. /\ Task.wanted = Requirements /\ Task.orderly = WellFormed
          /\ Task.needs[asked'] = Needs(asked')
      BY <2>4 DEF Task
    <2> QED
      BY <1>1, <1>3, <1>4, <1>6, <2>4, <2>5, <2>6 DEF Judgement!Ask
  <1> QED
    BY <1>5, <1>6

LEMMA StepJudges ==
    ASSUME TypeOK, Scored, UniqueNames, JudgedFairly, [Next]_vars
    PROVE  [Judgement!Next]_Judgement!vars
  <1>1. spec' = spec
    BY SpecFixed
  <1>2. CASE Evaluate
    BY <1>2, EvaluateBegins DEF Judgement!Next
  <1>3. CASE PopulateMetrics
    BY <1>3, MetricsJudge DEF Judgement!Next
  <1>4. CASE Choose
    BY <1>4, ChooseAsks DEF Judgement!Next
  <1>5. CASE Fail /\ pc # "idle"
    BY <1>5, FailGivesUp DEF Judgement!Next
  <1>6. CASE Attempt \/ SendFails \/ BadStatus \/ BadReply \/ WaitEnds \/ GiveUp
    <2>1. pc # "idle"
      BY <1>6 DEF Attempt, SendFails, BadStatus, BadReply, WaitEnds, GiveUp
    <2>2. \/ Fail
          \/ /\ pc \in {"attempt", "wire"} /\ pc' \in {"wire", "backoff"}
             /\ UNCHANGED <<tested, suite, covered, score, asked>>
      BY <1>6 DEF Attempt, SendFails, BadStatus, BadReply, WaitEnds, GiveUp, BackOff, Goto, local
    <2> QED
      BY <1>1, <1>5, <2>1, <2>2, Unseen DEF Phase
  <1>7. CASE Elapsed \/ Reply
    <2>1. /\ pc \in {"backoff", "wire"} /\ pc' \in {"attempt", "metrics"}
          /\ UNCHANGED <<tested, suite, score, asked>>
      BY <1>7 DEF Elapsed, Reply, Goto
    <2>2. score = None
      BY <2>1 DEF Scored
    <2>3. Phase' = Phase
      BY <2>1 DEF Phase
    <2> QED
      BY <1>1, <2>1, <2>2, <2>3, Unseen
  <1>8. CASE PushTests
    <2>1. Task' = Task /\ Found' = Found
      BY <1>8, TaskFixed, FoundFixed DEF PushTests, local
    <2>2. Judgement!Change
      BY <1>8, <2>1 DEF Judgement!Change, PushTests, local, Phase, Task
    <2> QED
      BY <2>2 DEF Judgement!Next
  <1>9. CASE EndContext \/ UNCHANGED vars
    <2>1. UNCHANGED <<tested, pc, suite, covered, score, asked>>
      BY <1>9 DEF EndContext, vars, local
    <2> QED
      BY <1>1, <2>1, Unseen DEF Phase
  <1> QED
    BY <1>2, <1>3, <1>4, <1>6, <1>7, <1>8, <1>9 DEF Next, Step

\* If no two stages of a specification share a name, the evaluation, with its retries,
\* failures, overlooked requirements and tests that change meanwhile, implements one
\* judgement on the tests that were cloned (pipeline.go 181-274).
THEOREM OneJudgement == UniqueSpecs => (Spec => JudgesInOneStroke)
  <1> SUFFICES ASSUME UniqueSpecs PROVE Spec => JudgesInOneStroke
    OBVIOUS
  <1>1. Init => Judgement!Init
    BY DEF Init, Judgement!Init, Phase, Found
  <1>2. TypeOK => UniqueNames
    BY DEF UniqueSpecs, TypeOK, UniqueNames
  <1>3. TypeOK /\ Scored /\ JudgedFairly /\ [Next]_vars => [Judgement!Next]_Judgement!vars
    BY <1>2, StepJudges
  <1> QED
    BY <1>1, <1>3, Kept, KeptFair, PTL DEF Spec, JudgesInOneStroke, Judgement!Spec
=============================================================================
