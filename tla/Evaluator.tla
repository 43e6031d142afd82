------------------------------ MODULE Evaluator ------------------------------
(***************************************************************************)
(* How aligned a repository is, and which test it is asked for next: the   *)
(* evaluator (pkg/evaluator/evaluator.go), the client it asks an LLM       *)
(* through (pkg/evaluator/client.go), and the choice that the enrollment   *)
(* pipeline makes from the result (pkg/enroll/pipeline.go 249-274).        *)
(*                                                                         *)
(* One action is one step of an evaluation: the retry loop is step by      *)
(* step, the metrics are one step.  Meanwhile people push and delete       *)
(* tests, and the caller's context may end.                                *)
(*                                                                         *)
(* The LLM is taken at its best: what it answers is right, but it may      *)
(* overlook requirements.                                                  *)
(***************************************************************************)
EXTENDS Integers, Sequences, FiniteSets

CONSTANTS
    None,        \* the absent value
    Names,       \* stage names
    Specs,       \* the specifications that the repository may have
    MaxAttempts  \* maxAttempts of the client

\* The parser's Stage. A dependency is a name, whether or not a stage has it.
Stages == [name : Names, deps : SUBSET Names, size : Nat]

\* The stages of all files of specs/, one after the other; the pipeline goes on with one
\* stage at least. WithMaxAttempts ignores what is not positive.
ASSUME SpecsType == Specs \subseteq Seq(Stages) \ {<<>>}
ASSUME AttemptsType == MaxAttempts \in Nat \ {0}
ASSUME NoneFresh == None \notin Nat

VARIABLES
    spec,      \* the specification of the repository
    tested,    \* the requirements that its tests exercise
    pc,        \* what the evaluation does next, "idle" when none is under way
    ended,     \* the caller's context has ended
    attempt,   \* the attempt of Complete
    suite,     \* the requirements exercised by the tests that were cloned
    covered,   \* the IDs of the statuses marked as covered
    score,     \* result.Percentage, None for none
    asked      \* the requirement that the loop issue is to ask a test for

local == <<attempt, suite, covered, score, asked>>
vars  == <<spec, tested, pc, ended, local>>
-----------------------------------------------------------------------------
(* The specification *)

\* A requirement is the k-th bullet of the s-th stage. Its ID is made of the stage's name.
Requirements == UNION {{s} \X (1..spec[s].size) : s \in DOMAIN spec}

\* Mutant of Id: bullets are numbered within the stage, and the stage is left out.
IdOfNumber(r) == r[2]

Id(r)  == <<spec[r[1]].name, r[2]>>
Ids    == {Id(r) : r \in Requirements}
Before(q, r) == q[1] < r[1] \/ (q[1] = r[1] /\ q[2] <= r[2])
First(S) == CHOOSE r \in S : \A q \in S : Before(r, q)
-----------------------------------------------------------------------------
(* Metrics *)

\* int(float64(c) / float64(t) * 100): the product falls short of these three integers.
Percentage(c, t) ==
    LET p == (100 * c) \div t
    IN  IF p \in {29, 57, 58} /\ (100 * c) % t = 0 THEN p - 1 ELSE p

Covered      == {r \in Requirements : Id(r) \in covered}
Uncovered    == Requirements \ Covered
Score        == IF Requirements = {} THEN 0
                ELSE Percentage(Cardinality(Covered), Cardinality(Requirements))

\* Mutant of Completed: one covered requirement is enough.
CompletedBySome(s) == \E k \in 1..spec[s].size : <<s, k>> \in Covered

Completed(s) == spec[s].size > 0 /\ \A k \in 1..spec[s].size : <<s, k>> \in Covered

\* Of stages that share a name the last one counts.
StageCompletion(name) ==
    \E s \in DOMAIN spec :
        /\ spec[s].name = name /\ Completed(s)
        /\ \A r \in DOMAIN spec : spec[r].name = name => r <= s

\* Mutant of Ready: dependencies are not looked at.
ReadyAtOnce(s) == ~Completed(s)

\* Ready to be ActiveFrontierStage, which is the first such stage.
Ready(s) == ~Completed(s) /\ \A name \in spec[s].deps : StageCompletion(name)
Frontier == {s \in DOMAIN spec : Ready(s) /\ \A r \in DOMAIN spec : Ready(r) => s <= r}

\* Mutant of Candidates: no fallback to the other stages.
CandidatesOnFrontier == {r \in Uncovered : r[1] \in Frontier}

\* NextRequirement is the first of the frontier stage; without one the pipeline falls back
\* to the first of all.
Candidates ==
    LET next == {r \in Uncovered : r[1] \in Frontier}
    IN  IF next # {} THEN next ELSE Uncovered
-----------------------------------------------------------------------------
(* The evaluation *)

TypeOK ==
    /\ spec \in Specs /\ tested \subseteq Requirements /\ suite \subseteq Requirements
    /\ pc \in {"idle", "attempt", "wire", "backoff", "metrics", "choose"}
    /\ ended \in BOOLEAN /\ attempt \in 0..(MaxAttempts - 1)
    /\ covered \subseteq Ids /\ score \in Nat \cup {None} /\ asked \in Requirements \cup {None}

Init ==
    /\ spec \in Specs /\ tested = {} /\ pc = "idle" /\ ended = FALSE
    /\ attempt = 0 /\ suite = {} /\ covered = {} /\ score = None /\ asked = None

Goto(step) == pc' = step /\ UNCHANGED <<spec, tested, ended>>
Fail       == Goto("idle") /\ UNCHANGED local

\* Evaluate of a fresh clone: without test scenarios the LLM is not asked. A repository
\* may have tests that exercise nothing.
Evaluate ==
    /\ pc = "idle" /\ UNCHANGED <<spec, tested>>
    /\ ended' = FALSE /\ attempt' = 0 /\ suite' = tested /\ covered' = {}
    /\ score' = None /\ asked' = None
    /\ \/ pc' = "attempt"
       \/ tested = {} /\ pc' = "metrics"

\* The head of the loop in Complete.
Attempt ==
    /\ pc = "attempt"
    /\ IF ended THEN Fail ELSE Goto("wire") /\ UNCHANGED local

AttemptLeft == attempt < MaxAttempts - 1
BackOff     == Goto("backoff") /\ UNCHANGED local

\* Mutant of SendFails: one attempt too many.
SendFailsOneMore ==
    /\ pc = "wire"
    /\ \E transient \in BOOLEAN :
         IF transient /\ ~ended /\ attempt < MaxAttempts THEN BackOff ELSE Fail

\* Sending or reading fails. Network errors are transient, but for the client's own timeout:
\* it passes for an ended context (context.DeadlineExceeded).
SendFails ==
    /\ pc = "wire"
    /\ \E transient \in BOOLEAN : IF transient /\ ~ended /\ AttemptLeft THEN BackOff ELSE Fail

\* 502, 503, 504 and 429 are transient.
BadStatus ==
    /\ pc = "wire"
    /\ \E transient \in BOOLEAN : IF transient /\ AttemptLeft THEN BackOff ELSE Fail

\* Complete or queryLLMCoverage cannot make sense of it.
BadReply == pc = "wire" /\ Fail

\* Mutant of Elapsed: the loop variable is not counted up.
ElapsedUncounted == pc = "backoff" /\ Goto("attempt") /\ UNCHANGED local

\* The select of the wait: if the context has ended as well, either case is taken.
Elapsed ==
    /\ pc = "backoff" /\ Goto("attempt")
    /\ attempt' = attempt + 1 /\ UNCHANGED <<suite, covered, score, asked>>
WaitEnds == pc = "backoff" /\ ended /\ Fail

\* The LLM answers for these requirements, in the order in which it was asked. Answers are
\* matched by ID, and of several the last one counts.
Judged(answered) ==
    {Id(r) : r \in {r \in answered \cap suite : \A q \in answered : Id(q) = Id(r) => Before(q, r)}}

Reply ==
    /\ pc = "wire" /\ Goto("metrics")
    /\ \E answered \in SUBSET Requirements : covered' = Judged(answered)
    /\ UNCHANGED <<attempt, suite, score, asked>>

PopulateMetrics ==
    /\ pc = "metrics" /\ Goto("choose")
    /\ score' = Score /\ UNCHANGED <<attempt, suite, covered, asked>>

\* The pipeline fails before it gets to the loop issue, or panics over a specification
\* without requirements.
GiveUp == pc = "choose" /\ Fail

\* The pipeline, when no loop issue is open: a full score asks for nothing.
Choose ==
    /\ pc = "choose" /\ (score # 100 => Requirements # {}) /\ Goto("idle")
    /\ asked' = IF score = 100 THEN None ELSE First(Candidates)
    /\ UNCHANGED <<attempt, suite, covered, score>>

Step == \/ Attempt \/ SendFails \/ BadStatus \/ BadReply \/ Elapsed \/ WaitEnds
        \/ Reply \/ PopulateMetrics \/ GiveUp \/ Choose

\* People push tests and delete them.
PushTests ==
    /\ tested' \in (SUBSET Requirements) \ {tested}
    /\ UNCHANGED <<spec, pc, ended, local>>

EndContext == pc # "idle" /\ ~ended /\ ended' = TRUE /\ UNCHANGED <<spec, tested, pc, local>>

Next == Evaluate \/ Step \/ PushTests \/ EndContext

\* Requests end within the client's timeout, waits when their time is up.
Spec == Init /\ [][Next]_vars /\ WF_vars(Step)
-----------------------------------------------------------------------------
(* Properties *)

\* No two stages, of one file or of several, have the same name.
UniqueNames == \A r, s \in DOMAIN spec : spec[r].name = spec[s].name => r = s

\* Stages have requirements, depend on stages that exist, and not in a circle.
WellFormed ==
    /\ UniqueNames /\ \A s \in DOMAIN spec : spec[s].size > 0
    /\ \A s \in DOMAIN spec : spec[s].deps \subseteq {spec[r].name : r \in DOMAIN spec}
    /\ \E rank \in [DOMAIN spec -> DOMAIN spec] :
         \A r, s \in DOMAIN spec : spec[r].name \in spec[s].deps => rank[r] < rank[s]

\* "The daemon's LLM evaluator assesses the proportion of spec requirements covered by
\* active tests" (MECHANICS.md:95): of 100 there is a test for every requirement, whatever
\* the LLM overlooked and whichever attempt it answered.
FullScoreTested == score = 100 => Requirements \subseteq suite

\* "The agent only targets the active frontier stage" (PROCESS.md:114): what is asked for
\* builds on stages whose every requirement is tested, though the LLM overlooks what it
\* likes and whichever order the stages are written in.
DependenciesFirst ==
    WellFormed /\ asked # None =>
        \A r \in Requirements : spec[r[1]].name \in spec[asked[1]].deps => r \in suite

\* With a score below 100 there is a requirement to ask for that the evaluation found
\* uncovered, even if a dependency is unknown or circular or a stage is empty
\* (pipeline.go 255-274 does without it only for a specification without requirements).
SomethingToAsk ==
    pc = "choose" /\ score # 100 /\ Requirements # {} =>
        Candidates # {} /\ Candidates \subseteq Uncovered

\* What an evaluation looks like from the pipeline.
Needs(r) == {q \in Requirements : spec[q[1]].name \in spec[r[1]].deps}
Task     == [wanted |-> Requirements, needs |-> [r \in Requirements |-> Needs(r)],
             orderly |-> WellFormed]
Phase    == CASE pc = "idle"   -> "idle"
              [] pc = "choose" -> "judged"
              [] OTHER         -> "judging"
Found    == IF score = None THEN {} ELSE Covered

Judgement == INSTANCE Appraisal WITH
    task <- Task, phase <- Phase, given <- suite, found <- Found

\* However often the client retries, whatever the LLM overlooks and people push meanwhile,
\* an evaluation is one judgement on the tests that were cloned: nothing of an earlier one
\* comes in, the score means what it says, and what is asked for is missing by that very
\* judgement and builds on what it found (pipeline.go 181-274).
JudgesInOneStroke == Judgement!Spec

\* An evaluation ends, however the LLM behaves: attempts are counted and waits are finite.
EvaluationEnds == pc # "idle" ~> pc = "idle"
=============================================================================
