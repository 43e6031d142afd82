---------------------------- MODULE ProberProofs ----------------------------
(* What holds of the prober for every set of places it is started from, every   *)
(* command line and every bound.                                                *)
EXTENDS Prober, TLAPS

\* TypeOK in two parts: what belongs to the runs, what they leave behind.
RunType ==
    /\ \A p \in Probers : pc[p] \in EvaluatorSteps => line[p].mode = "evaluator"
    /\ pc \in [Probers -> Steps \cup {"off"}]
    /\ line \in [Probers -> Lines]
    /\ runs \in [Probers -> Nat]
    /\ job \in [Probers -> Jobs]
    /\ ends \subseteq [run : Runs, end : {"pass", "fail", "killed"}]

WorldType ==
    /\ file \in Files \cup {None}
    /\ clones \subseteq Runs
    /\ alerts \subseteq Alerts
    /\ faults \subseteq Runs

LEMMA TypeParts ==
    /\ TypeOK <=> RunType /\ WorldType
    /\ TypeOK' <=> RunType' /\ WorldType'
  BY DEF TypeOK, RunType, WorldType

LEMMA NoJobType == NoJob \in Jobs /\ NoLine \in Lines
  BY DEF NoJob, Jobs, NoLine, Lines, Modes

LEMMA StepNames ==
    /\ Steps = {"resolve", "parse", "evaluate", "card", "write", "build", "test", "github",
                "dcm", "enroll", "again", "daemon", "direct", "record", "search", "create",
                "listen", "hold", "exit"}
    /\ EvaluatorSteps = {"parse", "evaluate", "card", "write", "build", "test"}
    /\ "off" \notin Steps
  BY DEF Steps, EvaluatorSteps

LEMMA InitTyped == Init => TypeOK
  BY NoJobType, StepNames DEF Init, TypeOK

LEMMA RunTyped == ASSUME TypeOK, NEW p \in Probers PROVE Run(p) \in Runs
  BY DEF TypeOK, Run, Runs

LEMMA GotoTyped ==
    ASSUME TypeOK, NEW p \in Probers, NEW s \in Steps, NEW j \in Jobs, Goto(p, s, j),
           s \in EvaluatorSteps => line[p].mode = "evaluator"
    PROVE  RunType'
  BY DEF Goto, TypeOK, RunType

LEMMA EndedTyped ==
    ASSUME TypeOK, NEW p \in Probers, NEW end \in {"pass", "fail", "killed"}, Ended(p, end)
    PROVE  RunType'
  <1>1. ends' \subseteq [run : Runs, end : {"pass", "fail", "killed"}]
    BY RunTyped DEF Ended, TypeOK
  <1> QED
    BY <1>1, NoJobType, StepNames DEF Ended, TypeOK, RunType

LEMMA JobFields ==
    ASSUME NEW j \in Jobs
    PROVE  /\ \A b \in BOOLEAN : [j EXCEPT !.err = b] \in Jobs
           /\ \A f \in Files \cup {None} : [j EXCEPT !.padded = f] \in Jobs
           /\ \A s \in {"none", "own", "other", "broken"} : [j EXCEPT !.saw = s] \in Jobs
           /\ \A o \in {"none", "red", "green", "blind"} : [j EXCEPT !.outcome = o] \in Jobs
           /\ \A f \in {"none", "opened", "found", "failed"} : [j EXCEPT !.filed = f] \in Jobs
           /\ [j EXCEPT !.scraped = TRUE] \in Jobs
           /\ [j EXCEPT !.over = TRUE] \in Jobs
  BY DEF Jobs

LEMMA ProbedTyped ==
    ASSUME TypeOK, NEW p \in Probers, NEW j \in Jobs, NEW b \in BOOLEAN, Probed(p, j, b)
    PROVE  RunType'
  BY JobFields, GotoTyped, StepNames DEF Probed

LEMMA SameWorld == WorldType /\ UNCHANGED <<file, clones, alerts, faults>> => WorldType'
  BY DEF WorldType

LEMMA CallTyped ==
    ASSUME TypeOK, NEW p \in Probers, NEW s \in Steps,
           s \in EvaluatorSteps => line[p].mode = "evaluator",
           Call(p, s) \/ LastCall(p)
    PROVE  TypeOK'
  <1>1. job[p] \in Jobs
    BY DEF TypeOK
  <1>2. RunType'
    BY <1>1, GotoTyped, ProbedTyped DEF Call, LastCall
  <1> QED
    BY <1>2, SameWorld, TypeParts DEF Call, LastCall

LEMMA FaultTyped ==
    ASSUME TypeOK, NEW p \in Probers, Fault(p) PROVE RunType' /\ faults' \subseteq Runs
  <1>1. AfterAlert(p) \in Steps \ EvaluatorSteps
    BY StepNames DEF AfterAlert
  <1>2. [job[p] EXCEPT !.filed = "failed"] \in Jobs
    BY JobFields DEF TypeOK
  <1> QED
    BY <1>1, <1>2, GotoTyped, RunTyped DEF Fault, TypeOK
-----------------------------------------------------------------------------
(* The probe *)

LEMMA ResolveTyped ==
    ASSUME TypeOK, NEW p \in Probers, Resolve(p) PROVE TypeOK'
  <1>1. job[p] \in Jobs
    BY DEF TypeOK
  <1>2. RunType'
    BY <1>1, GotoTyped, ProbedTyped, StepNames DEF Resolve
  <1>3. WorldType'
    BY RunTyped, TypeParts DEF Resolve, WorldType
  <1> QED
    BY <1>2, <1>3, TypeParts

LEMMA ParseTyped ==
    ASSUME TypeOK, NEW p \in Probers, ParseTarget(p) PROVE TypeOK'
  <1>1. job[p] \in Jobs /\ file \in Files \cup {None} /\ line[p].mode = "evaluator"
    BY StepNames DEF TypeOK, ParseTarget, At
  <1> DEFINE f == IF Local(p) THEN file ELSE None
  <1>2. f \in Files \cup {None}
    BY <1>1
  <1> HIDE DEF f
  <1>3. [job[p] EXCEPT !.padded = f] \in Jobs
    BY <1>1, <1>2, JobFields
  <1>4. Goto(p, "evaluate", [job[p] EXCEPT !.padded = f]) \/ Probed(p, job[p], TRUE)
    BY DEF ParseTarget, f
  <1>5. RunType'
    BY <1>1, <1>3, <1>4, GotoTyped, ProbedTyped, StepNames
  <1> QED
    BY <1>5, SameWorld, TypeParts DEF ParseTarget

LEMMA WriteTyped ==
    ASSUME TypeOK, NEW p \in Probers, WriteProbe(p) PROVE TypeOK'
  <1>1. job[p] \in Jobs /\ line[p].mode = "evaluator"
    BY StepNames DEF TypeOK, WriteProbe, At
  <1>2. RunType'
    BY <1>1, GotoTyped, ProbedTyped, StepNames DEF WriteProbe
  <1>3. Torn(p) \in Files /\ [run |-> Run(p), torn |-> FALSE] \in Files
    BY RunTyped DEF Torn, Files
  <1>4. file' \in Files \cup {None}
    BY <1>3 DEF WriteProbe, TypeOK
  <1> QED
    BY <1>2, <1>4, TypeParts DEF WriteProbe, WorldType

LEMMA BuildTyped ==
    ASSUME TypeOK, NEW p \in Probers, BuildProbe(p) PROVE TypeOK'
  <1>1. job[p] \in Jobs /\ line[p].mode = "evaluator"
    BY StepNames DEF TypeOK, BuildProbe, At
  <1>2. \E s \in {"none", "own", "other", "broken"} :
          Goto(p, "test", [job[p] EXCEPT !.saw = s])
    BY DEF BuildProbe
  <1>3. RunType'
    BY <1>1, <1>2, JobFields, GotoTyped, StepNames
  <1> QED
    BY <1>3, SameWorld, TypeParts DEF BuildProbe

LEMMA TestTyped ==
    ASSUME TypeOK, NEW p \in Probers, RunTest(p) PROVE TypeOK'
  <1>1. job[p] \in Jobs
    BY DEF TypeOK
  <1>2. \E o \in {"none", "red", "green", "blind"} :
          Probed(p, [job[p] EXCEPT !.outcome = o], o = "green")
    BY DEF RunTest, Outcomes
  <1>3. RunType'
    <2>1. PICK o \in {"none", "red", "green", "blind"} :
            Probed(p, [job[p] EXCEPT !.outcome = o], o = "green")
      BY <1>2
    <2>2. (o = "green") \in BOOLEAN /\ [job[p] EXCEPT !.outcome = o] \in Jobs
      BY <1>1, JobFields
    <2> QED
      BY <2>1, <2>2, ProbedTyped
  <1> QED
    BY <1>3, TypeParts DEF RunTest, WorldType, TypeOK

LEMMA OtherModesTyped ==
    ASSUME TypeOK, NEW p \in Probers,
           \/ EvaluateTarget(p) \/ MakeCard(p) \/ ProbeGitHub(p) \/ ProbeDCM(p)
           \/ FirstEnroll(p) \/ SecondEnroll(p) \/ AskDaemon(p) \/ RunDirect(p)
    PROVE  TypeOK'
  <1>1. job[p] \in Jobs
    BY DEF TypeOK
  <1>2. CASE EvaluateTarget(p) \/ MakeCard(p)
    <2>1. line[p].mode = "evaluator"
      BY <1>2, StepNames DEF EvaluateTarget, MakeCard, At, TypeOK
    <2> QED
      BY <1>2, <2>1, CallTyped, StepNames DEF EvaluateTarget, MakeCard
  <1>3. CASE ProbeGitHub(p)
    <2>1. CASE Goto(p, "dcm", job[p]) /\ UNCHANGED <<file, clones, alerts, faults>>
      BY <1>1, <2>1, GotoTyped, SameWorld, TypeParts, StepNames
    <2> QED
      BY <1>3, <2>1, CallTyped, StepNames DEF ProbeGitHub
  <1>4. CASE ProbeDCM(p) \/ FirstEnroll(p) \/ SecondEnroll(p) \/ RunDirect(p)
    BY <1>4, CallTyped, StepNames DEF ProbeDCM, FirstEnroll, SecondEnroll, RunDirect
  <1>5. CASE AskDaemon(p)
    BY <1>1, <1>5, GotoTyped, ProbedTyped, SameWorld, TypeParts, StepNames DEF AskDaemon
  <1> QED
    BY <1>2, <1>3, <1>4, <1>5
-----------------------------------------------------------------------------
(* What follows it *)

LEMMA AfterTyped ==
    ASSUME TypeOK, NEW p \in Probers,
           Record(p) \/ Listen(p) \/ EndHold(p) \/ Scrape(p)
    PROVE  TypeOK'
  <1>1. job[p] \in Jobs /\ [job[p] EXCEPT !.scraped = TRUE] \in Jobs
    BY JobFields DEF TypeOK
  <1>2. \E s \in {"search", "listen", "hold", "exit"} : \E j \in Jobs : Goto(p, s, j)
    BY <1>1 DEF Record, Listen, EndHold, Scrape, AfterAlert
  <1>3. RunType'
    BY <1>2, GotoTyped, StepNames
  <1> QED
    BY <1>3, SameWorld, TypeParts DEF Record, Listen, EndHold, Scrape

LEMMA AlertTyped ==
    ASSUME TypeOK, NEW p \in Probers, SearchAlert(p) \/ CreateAlert(p) PROVE TypeOK'
  <1>1. job[p] \in Jobs /\ line[p] \in Lines
    BY DEF TypeOK
  <1>2. AfterAlert(p) \in Steps \ EvaluatorSteps /\ "create" \in Steps \ EvaluatorSteps
    BY StepNames DEF AfterAlert
  <1>3. \A f \in {"opened", "found", "failed"} : [job[p] EXCEPT !.filed = f] \in Jobs
    BY <1>1, JobFields
  <1>4. RunType' /\ faults' \subseteq Runs
    <2>1. CASE Fault(p)
      BY <2>1, FaultTyped
    <2>2. CASE UNCHANGED faults /\ \E s \in Steps \ EvaluatorSteps, j \in Jobs : Goto(p, s, j)
      BY <2>2, GotoTyped DEF TypeOK
    <2> QED
      BY <1>1, <1>2, <1>3, <2>1, <2>2 DEF SearchAlert, CreateAlert
  <1>5. [by |-> Run(p), title |-> line[p].mode, open |-> TRUE, listed |-> FALSE] \in Alerts
    BY <1>1, RunTyped DEF Lines, Alerts
  <1>6. alerts' \subseteq Alerts
    BY <1>5 DEF SearchAlert, CreateAlert, TypeOK
  <1> QED
    BY <1>4, <1>6, TypeParts DEF SearchAlert, CreateAlert, WorldType

LEMMA EndTyped ==
    ASSUME TypeOK, NEW p \in Probers, Exit(p) \/ Kill(p) \/ PanicDirect(p) PROVE TypeOK'
  <1>1. RunType'
    BY EndedTyped DEF Exit, Kill, PanicDirect
  <1>2. Torn(p) \in Files /\ Run(p) \in Runs
    BY RunTyped DEF Torn, Files
  <1>3. WorldType'
    <2>1. CASE Exit(p) \/ PanicDirect(p)
      BY <2>1 DEF Exit, PanicDirect, WorldType, TypeOK
    <2>2. CASE Kill(p)
      <3>1. file' \in Files \cup {None}
        BY <1>2, <2>2 DEF Kill, TypeOK
      <3>2. clones' \subseteq Runs
        BY <1>2, <2>2 DEF Kill, TypeOK
      <3> QED
        BY <2>2, <3>1, <3>2 DEF Kill, WorldType, TypeOK
    <2> QED
      BY <2>1, <2>2
  <1> QED
    BY <1>1, <1>3, TypeParts

LEMMA StartTyped ==
    ASSUME TypeOK, NEW p \in Probers, Start(p) PROVE TypeOK'
  <1>1. PICK l \in CommandLines : /\ line' = [line EXCEPT ![p] = l]
                                  /\ pc' = [pc EXCEPT ![p] = FirstStep(l)]
    BY DEF Start
  <1>2. l \in Lines /\ FirstStep(l) \in Steps \ EvaluatorSteps
    BY LinesType, StepNames DEF FirstStep
  <1>3. RunType'
    BY <1>1, <1>2 DEF Start, TypeOK, RunType
  <1> QED
    BY <1>3, SameWorld, TypeParts DEF Start

LEMMA NextTyped == TypeOK /\ [Next]_vars => TypeOK'
  <1> SUFFICES ASSUME TypeOK, [Next]_vars PROVE TypeOK'
    OBVIOUS
  <1>1. CASE UNCHANGED vars
    BY <1>1 DEF vars, TypeOK
  <1>2. CASE CloseAlert \/ Reindex
    <2>2. \A i \in Alerts : /\ [i EXCEPT !.open = FALSE] \in Alerts
                           /\ [i EXCEPT !.listed = i.open] \in Alerts
      BY DEF Alerts
    <2>1. alerts' \subseteq Alerts
      BY <1>2, <2>2 DEF CloseAlert, Reindex, TypeOK
    <2> QED
      BY <1>2, <2>1 DEF CloseAlert, Reindex, TypeOK
  <1>3. ASSUME NEW p \in Probers, Deadline(p) PROVE TypeOK'
    BY <1>3, JobFields DEF Deadline, TypeOK
  <1>4. ASSUME NEW p \in Probers, Step(p) PROVE TypeOK'
    BY <1>4, ResolveTyped, ParseTyped, WriteTyped, BuildTyped, TestTyped, OtherModesTyped,
       AfterTyped, AlertTyped, EndTyped DEF Step
  <1> QED
    BY <1>1, <1>2, <1>3, <1>4, StartTyped, AfterTyped, EndTyped DEF Next

\* Every variable of the prober keeps its type, and only a run in evaluator mode works on
\* the target (main.go 113-187).
THEOREM ProberTypeCorrect == Spec => []TypeOK
  BY InitTyped, NextTyped, PTL DEF Spec
-----------------------------------------------------------------------------
(* A step of one run *)

Acts(p) == Start(p) \/ Step(p) \/ Deadline(p) \/ Scrape(p) \/ Kill(p)

\* What a step does to the run that takes it: the probe goes on, comes to its result, ends.
Goes(p)  == \E s \in Steps, j \in Jobs : Goto(p, s, j)
Stops(p) == \E end \in {"pass", "fail", "killed"} : Ended(p, end)

LEMMA StepShape ==
    ASSUME TypeOK, NEW p \in Probers, Step(p) \/ Scrape(p) \/ Kill(p)
    PROVE  Goes(p) \/ Stops(p)
  <1>1. job[p] \in Jobs
    BY DEF TypeOK
  <1>2. \A j \in Jobs, b \in BOOLEAN : Probed(p, j, b) => Goes(p)
    BY JobFields, StepNames DEF Probed, Goes
  <1>3. \A s \in Steps, j \in Jobs : Goto(p, s, j) => Goes(p)
    BY DEF Goes
  <1>4. \A s \in Steps : Call(p, s) \/ LastCall(p) => Goes(p)
    BY <1>1, <1>2, <1>3 DEF Call, LastCall
  <1>5. AfterAlert(p) \in Steps
    BY StepNames DEF AfterAlert
  <1>6. \A f \in {"opened", "found", "failed"} : [job[p] EXCEPT !.filed = f] \in Jobs
    BY <1>1, JobFields
  <1>7. Resolve(p) => Goes(p)
    BY <1>1, <1>2, <1>3, StepNames DEF Resolve
  <1>8. ParseTarget(p) => Goes(p)
    <2> DEFINE f == IF Local(p) THEN file ELSE None
    <2>1. f \in Files \cup {None}
      BY DEF TypeOK
    <2> HIDE DEF f
    <2>2. [job[p] EXCEPT !.padded = f] \in Jobs
      BY <1>1, <2>1, JobFields
    <2> QED
      BY <1>1, <1>2, <1>3, <2>2, StepNames DEF ParseTarget, f
  <1>9. WriteProbe(p) => Goes(p)
    BY <1>1, <1>2, <1>3, StepNames DEF WriteProbe
  <1>10. BuildProbe(p) => Goes(p)
    <2>1. BuildProbe(p) => \E s \in {"none", "own", "other", "broken"} :
            Goto(p, "test", [job[p] EXCEPT !.saw = s])
      BY DEF BuildProbe
    <2> QED
      BY <1>1, <1>3, <2>1, JobFields, StepNames
  <1>11. RunTest(p) => Goes(p)
    <2>1. RunTest(p) => \E o \in {"none", "red", "green", "blind"} :
            Probed(p, [job[p] EXCEPT !.outcome = o], o = "green")
      BY DEF RunTest, Outcomes
    <2>2. \A o \in {"none", "red", "green", "blind"} :
            [job[p] EXCEPT !.outcome = o] \in Jobs /\ (o = "green") \in BOOLEAN
      BY <1>1, JobFields
    <2> QED
      BY <1>2, <2>1, <2>2
  <1>12. EvaluateTarget(p) \/ MakeCard(p) \/ ProbeDCM(p) \/ FirstEnroll(p) \/ SecondEnroll(p)
           \/ RunDirect(p) => Goes(p)
    BY <1>4, StepNames DEF EvaluateTarget, MakeCard, ProbeDCM, FirstEnroll, SecondEnroll,
       RunDirect
  <1>13. ProbeGitHub(p) \/ AskDaemon(p) => Goes(p)
    BY <1>1, <1>2, <1>3, <1>4, StepNames DEF ProbeGitHub, AskDaemon
  <1>14. Record(p) \/ Listen(p) \/ EndHold(p) \/ Scrape(p) => Goes(p)
    <2>1. [job[p] EXCEPT !.scraped = TRUE] \in Jobs
      BY <1>1, JobFields
    <2> QED
      BY <1>1, <1>3, <1>5, <2>1, StepNames DEF Record, Listen, EndHold, Scrape
  <1>15. SearchAlert(p) \/ CreateAlert(p) => Goes(p)
    BY <1>1, <1>3, <1>5, <1>6, StepNames DEF SearchAlert, CreateAlert, Fault
  <1>16. Exit(p) \/ Kill(p) \/ PanicDirect(p) => Stops(p)
    BY DEF Exit, Kill, PanicDirect, Stops
  <1> QED
    BY <1>7, <1>8, <1>9, <1>10, <1>11, <1>12, <1>13, <1>14, <1>15, <1>16 DEF Step

\* The locals and the whereabouts of the other runs stay.
Same(q) == pc'[q] = pc[q] /\ line'[q] = line[q] /\ runs'[q] = runs[q] /\ job'[q] = job[q]

LEMMA OthersSame ==
    ASSUME TypeOK, NEW p \in Probers, NEW q \in Probers, q # p, Acts(p) PROVE Same(q)
  <1>1. CASE Goes(p)
    BY <1>1 DEF Goes, Goto, Same, TypeOK
  <1>2. CASE Stops(p)
    BY <1>2 DEF Stops, Ended, Same, TypeOK
  <1>3. CASE Start(p)
    BY <1>3 DEF Start, Same, TypeOK
  <1>4. CASE Deadline(p)
    BY <1>4 DEF Deadline, Same, TypeOK
  <1> QED
    BY <1>1, <1>2, <1>3, <1>4, StepShape DEF Acts

\* Alerts are never taken back, and what is history stays.
LEMMA AlertsGrow ==
    ASSUME TypeOK, [Next]_vars
    PROVE  /\ \A i \in alerts : \E j \in alerts' : j.title = i.title
           /\ faults \subseteq faults'
           /\ ends \subseteq ends'
  <1>1. CASE UNCHANGED vars
    BY <1>1 DEF vars
  <1>2. CASE CloseAlert \/ Reindex
    <2>1. \A i \in alerts : /\ [i EXCEPT !.open = FALSE].title = i.title
                           /\ \A b : [i EXCEPT !.listed = b].title = i.title
      BY DEF TypeOK, Alerts
    <2>2. \A i \in alerts, k \in alerts : alerts' = (alerts \ {k}) \cup {[k EXCEPT !.open = FALSE]}
            => \E j \in alerts' : j.title = i.title
      BY <2>1
    <2>3. \A i \in alerts, k \in alerts : \A b :
            alerts' = (alerts \ {k}) \cup {[k EXCEPT !.listed = b]}
              => \E j \in alerts' : j.title = i.title
      BY <2>1
    <2> QED
      BY <1>2, <2>2, <2>3 DEF CloseAlert, Reindex
  <1>3. ASSUME NEW p \in Probers, Acts(p)
        PROVE  alerts \subseteq alerts' /\ faults \subseteq faults' /\ ends \subseteq ends'
    <2>1. ends \subseteq ends'
      <3>1. Goes(p) \/ Stops(p) => ends \subseteq ends'
        BY DEF Goes, Goto, Stops, Ended
      <3> QED
        BY <1>3, <3>1, StepShape DEF Acts, Start, Deadline
    <2>2. alerts \subseteq alerts' /\ faults \subseteq faults'
      BY <1>3 DEF Acts, Start, Deadline, Kill, Scrape, Step, Resolve, ParseTarget,
         EvaluateTarget, MakeCard, WriteProbe, BuildProbe, RunTest, ProbeGitHub, ProbeDCM,
         FirstEnroll, SecondEnroll, AskDaemon, RunDirect, PanicDirect, Record, SearchAlert, CreateAlert,
         Listen, EndHold, Exit, Call, LastCall, Fault
    <2> QED
      BY <2>1, <2>2
  <1> QED
    BY <1>1, <1>2, <1>3 DEF Next, Acts
-----------------------------------------------------------------------------
(* A failed run has its alert *)

Heard(p) ==
    job[p].err /\ line[p].filing = "on" =>
        \/ /\ job[p].filed \in {"opened", "found"}
           /\ \E i \in alerts : i.title = line[p].mode
        \/ job[p].filed = "failed" /\ Run(p) \in faults

LEMMA HeardIs == FailureAlerted <=> \A p \in Probers : pc[p] \in {"listen", "hold", "exit"} => Heard(p)
  BY DEF FailureAlerted, Heard, At

LEMMA SameHeard ==
    ASSUME TypeOK, [Next]_vars, NEW q \in Probers, Same(q), Heard(q) PROVE Heard(q)'
  BY AlertsGrow DEF Same, Heard, Run

\* Where a run can come from to the steps after its alert.
LEMMA ReachesMetrics ==
    ASSUME TypeOK, NEW p \in Probers, Acts(p), pc'[p] \in {"listen", "hold", "exit"}
    PROVE  \/ Record(p) \/ SearchAlert(p) \/ CreateAlert(p)
           \/ Listen(p) \/ Scrape(p) \/ EndHold(p) \/ Deadline(p)
  <1>1. \A s, j : Goto(p, s, j) => pc'[p] = s
    BY DEF Goto, TypeOK
  <1>2. \A j, b : Probed(p, j, b) => pc'[p] = "record"
    BY <1>1 DEF Probed
  <1>3. \A s : /\ Call(p, s) => pc'[p] \in {s, "record"}
               /\ LastCall(p) => pc'[p] = "record"
    BY <1>1, <1>2 DEF Call, LastCall
  <1>4. ~(Resolve(p) \/ ParseTarget(p) \/ WriteProbe(p) \/ BuildProbe(p) \/ RunTest(p))
    BY <1>1, <1>2 DEF Resolve, ParseTarget, WriteProbe, BuildProbe, RunTest
  <1>5. ~(EvaluateTarget(p) \/ MakeCard(p) \/ ProbeDCM(p) \/ FirstEnroll(p) \/ SecondEnroll(p)
          \/ RunDirect(p))
    <2>1. ~EvaluateTarget(p)
      BY <1>3 DEF EvaluateTarget
    <2>2. ~MakeCard(p)
      BY <1>3 DEF MakeCard
    <2>3. ~FirstEnroll(p)
      BY <1>3 DEF FirstEnroll
    <2>4. ~(ProbeDCM(p) \/ SecondEnroll(p) \/ RunDirect(p))
      BY <1>3 DEF ProbeDCM, SecondEnroll, RunDirect
    <2> QED
      BY <2>1, <2>2, <2>3, <2>4
  <1>6. ~(ProbeGitHub(p) \/ AskDaemon(p))
    <2>1. ~ProbeGitHub(p)
      <3>1. ProbeGitHub(p) => pc'[p] \in {"dcm", "record"}
        BY <1>1, <1>3 DEF ProbeGitHub
      <3> QED
        BY <3>1
    <2>2. ~AskDaemon(p)
      BY <1>1, <1>2 DEF AskDaemon
    <2> QED
      BY <2>1, <2>2
  <1>7. ~(Start(p) \/ Kill(p) \/ Exit(p) \/ PanicDirect(p))
    BY DEF Start, FirstStep, Kill, Exit, PanicDirect, Ended, TypeOK
  <1> QED
    BY <1>4, <1>5, <1>6, <1>7 DEF Acts, Step

LEMMA OwnHeard ==
    ASSUME TypeOK, FailureAlerted, NEW p \in Probers, Acts(p),
           pc'[p] \in {"listen", "hold", "exit"}
    PROVE  Heard(p)'
  <1>1. job[p] \in Jobs
    BY DEF TypeOK
  <1>2. \A s, j : Goto(p, s, j) => /\ pc'[p] = s /\ job'[p] = j
                                   /\ line'[p] = line[p] /\ Run(p)' = Run(p)
    BY DEF Goto, TypeOK, Run
  <1>3. CASE Record(p)
    <2>1. ~(job[p].err /\ line[p].filing = "on") /\ job'[p] = job[p] /\ line'[p] = line[p]
      BY <1>2, <1>3 DEF Record
    <2> QED
      BY <2>1 DEF Heard
  <1>4. CASE SearchAlert(p) \/ CreateAlert(p)
    <2>1. \A f \in {"opened", "found", "failed"} : LET j == [job[p] EXCEPT !.filed = f] IN
            j.err = job[p].err /\ j.filed = f
      BY <1>1 DEF Jobs
    <2>2. CASE Fault(p)
      BY <1>2, <2>1, <2>2 DEF Fault, Heard
    <2>6. CASE line[p].filing = "misnamed" /\ \E s, j : Goto(p, s, j)
      BY <1>2, <2>6 DEF Heard
    <2>3. CASE /\ SearchIssues(p) # {}
               /\ Goto(p, AfterAlert(p), [job[p] EXCEPT !.filed = "found"])
               /\ UNCHANGED alerts
      BY <1>2, <2>1, <2>3 DEF SearchIssues, Heard
    <2>4. CASE /\ alerts' = alerts \cup {[by |-> Run(p), title |-> line[p].mode,
                                          open |-> TRUE, listed |-> FALSE]}
               /\ Goto(p, AfterAlert(p), [job[p] EXCEPT !.filed = "opened"])
      <3> DEFINE new == [by |-> Run(p), title |-> line[p].mode, open |-> TRUE,
                      listed |-> FALSE]
      <3>2. new \in alerts' /\ new.title = line[p].mode
        BY <2>4
      <3> HIDE DEF new
      <3>1. \E i \in alerts' : i.title = line[p].mode
        BY <3>2
      <3> QED
        BY <1>2, <2>1, <2>4, <3>1 DEF Heard
    <2>5. CASE Goto(p, "create", job[p])
      BY <1>2, <2>5
    <2> QED
      BY <1>4, <2>2, <2>3, <2>4, <2>5, <2>6 DEF SearchAlert, CreateAlert
  <1>5. CASE Listen(p) \/ Scrape(p) \/ EndHold(p) \/ Deadline(p)
    <2>1. pc[p] \in {"listen", "hold", "exit"}
      BY <1>5 DEF Listen, Scrape, EndHold, Deadline, At
    <2>2. Heard(p)
      BY <2>1, HeardIs
    <2>3. /\ job'[p].err = job[p].err /\ job'[p].filed = job[p].filed
          /\ line'[p] = line[p] /\ Run(p)' = Run(p)
      <3>1. LET j == [job[p] EXCEPT !.scraped = TRUE] IN
              j.err = job[p].err /\ j.filed = job[p].filed
        BY <1>1 DEF Jobs
      <3>2. CASE Listen(p) \/ EndHold(p)
        BY <1>2, <3>2 DEF Listen, EndHold
      <3>3. CASE Scrape(p)
        BY <1>2, <3>1, <3>3 DEF Scrape
      <3>4. CASE Deadline(p)
        BY <1>1, <3>4 DEF Deadline, TypeOK, Jobs, Run
      <3> QED
        BY <1>5, <3>2, <3>3, <3>4
    <2>4. UNCHANGED <<alerts, faults>>
      BY <1>5 DEF Listen, Scrape, EndHold, Deadline
    <2> QED
      BY <2>2, <2>3, <2>4 DEF Heard
  <1> QED
    BY <1>3, <1>4, <1>5, ReachesMetrics

LEMMA NextFiled == TypeOK /\ FailureAlerted /\ [Next]_vars => FailureAlerted'
  <1> SUFFICES ASSUME TypeOK, FailureAlerted, [Next]_vars,
                      NEW q \in Probers, pc'[q] \in {"listen", "hold", "exit"}
               PROVE  Heard(q)'
    BY DEF FailureAlerted, Heard, At
  <1>1. CASE Same(q)
    <2>1. Heard(q)
      BY <1>1, HeardIs DEF Same
    <2> QED
      BY <1>1, <2>1, SameHeard
  <1>2. CASE UNCHANGED vars \/ CloseAlert \/ Reindex
    BY <1>1, <1>2 DEF vars, CloseAlert, Reindex, Same
  <1>3. ASSUME NEW p \in Probers, Acts(p) PROVE Heard(q)'
    BY <1>1, <1>3, OthersSame, OwnHeard
  <1> QED
    BY <1>2, <1>3 DEF Next, Acts

\* A failed run that may file an alert has one by the time it offers its metrics, unless
\* GitHub failed that very run; its own deadline is no excuse (main.go 173-175, 196).
THEOREM FailuresAreAlerted == Spec => []FailureAlerted
  <1>1. Init => FailureAlerted
    BY DEF Init, FailureAlerted, At
  <1> QED
    BY <1>1, NextFiled, ProberTypeCorrect, PTL DEF Spec
-----------------------------------------------------------------------------
(* One open alert of each title *)

Alone == \A p, q \in Probers : pc[p] # "off" /\ pc[q] # "off" => p = q

\* While no search misses an alert, a run creates one only when none of its title is open.
OpenAlerts(p) == {i \in alerts : i.open /\ i.title = line[p].mode}
Cleared == \A p \in Probers : At(p, "create") => OpenAlerts(p) = {}

AlertInv == Alone /\ Cleared /\ NoDuplicateAlert

LEMMA ActsRunning == ASSUME NEW p \in Probers, Acts(p) PROVE Start(p) \/ pc[p] # "off"
  BY DEF Acts, Step, Deadline, Scrape, Kill, At, Resolve, ParseTarget,
     EvaluateTarget, MakeCard, WriteProbe, BuildProbe, RunTest, ProbeGitHub, ProbeDCM,
     FirstEnroll, SecondEnroll, AskDaemon, RunDirect, PanicDirect, Record, SearchAlert, CreateAlert,
     Listen, EndHold, Exit

LEMMA NextAlone == ~Overlap /\ TypeOK /\ Alone /\ [Next]_vars => Alone'
  <1> SUFFICES ASSUME ~Overlap, TypeOK, Alone, [Next]_vars PROVE Alone'
    OBVIOUS
  <1>1. CASE UNCHANGED vars \/ CloseAlert \/ Reindex
    BY <1>1 DEF vars, CloseAlert, Reindex, Alone
  <1>2. ASSUME NEW p \in Probers, Acts(p) PROVE Alone'
    <2>1. \A q \in Probers : q # p => pc'[q] = pc[q]
      BY <1>2, OthersSame DEF Same
    <2>2. \A q \in Probers : q # p => pc[q] = "off"
      <3>1. CASE Start(p)
        BY <3>1 DEF Start, At
      <3>2. CASE pc[p] # "off"
        BY <3>2 DEF Alone
      <3> QED
        BY <1>2, <3>1, <3>2, ActsRunning
    <2> QED
      BY <2>1, <2>2 DEF Alone
  <1> QED
    BY <1>1, <1>2 DEF Next, Acts

\* A run comes to create an alert only by a search that sees none open, and waits for nothing there.
LEMMA ReachesAlert ==
    ASSUME TypeOK, NEW p \in Probers, Acts(p), pc'[p] = "create"
    PROVE  SearchAlert(p) \/ Deadline(p)
  <1>1. \A s, j : Goto(p, s, j) => pc'[p] = s
    BY DEF Goto, TypeOK
  <1>2. \A j, b : Probed(p, j, b) => pc'[p] = "record"
    BY <1>1 DEF Probed
  <1>3. \A s : /\ Call(p, s) => pc'[p] \in {s, "record"}
               /\ LastCall(p) => pc'[p] = "record"
    BY <1>1, <1>2 DEF Call, LastCall
  <1>4. ~(Resolve(p) \/ ParseTarget(p) \/ WriteProbe(p) \/ BuildProbe(p) \/ RunTest(p))
    BY <1>1, <1>2 DEF Resolve, ParseTarget, WriteProbe, BuildProbe, RunTest
  <1>5. ~(EvaluateTarget(p) \/ MakeCard(p) \/ ProbeDCM(p) \/ FirstEnroll(p) \/ SecondEnroll(p)
          \/ RunDirect(p))
    <2>1. ~EvaluateTarget(p)
      BY <1>3 DEF EvaluateTarget
    <2>2. ~MakeCard(p)
      BY <1>3 DEF MakeCard
    <2>3. ~FirstEnroll(p)
      BY <1>3 DEF FirstEnroll
    <2>4. ~(ProbeDCM(p) \/ SecondEnroll(p) \/ RunDirect(p))
      BY <1>3 DEF ProbeDCM, SecondEnroll, RunDirect
    <2> QED
      BY <2>1, <2>2, <2>3, <2>4
  <1>6. ~(ProbeGitHub(p) \/ AskDaemon(p))
    <2>1. ~ProbeGitHub(p)
      <3>1. ProbeGitHub(p) => pc'[p] \in {"dcm", "record"}
        BY <1>1, <1>3 DEF ProbeGitHub
      <3> QED
        BY <3>1
    <2>2. ~AskDaemon(p)
      BY <1>1, <1>2 DEF AskDaemon
    <2> QED
      BY <2>1, <2>2
  <1>7. ~(Start(p) \/ Kill(p) \/ Exit(p) \/ PanicDirect(p))
    BY DEF Start, FirstStep, Kill, Exit, PanicDirect, Ended, TypeOK
  <1>8. AfterAlert(p) # "create"
    BY DEF AfterAlert
  <1>9. ~(Record(p) \/ CreateAlert(p) \/ Listen(p) \/ Scrape(p) \/ EndHold(p))
    BY <1>1, <1>8 DEF Record, CreateAlert, Listen, Scrape, EndHold, Fault
  <1> QED
    BY <1>4, <1>5, <1>6, <1>7, <1>9 DEF Acts, Step

LEMMA NextAlert ==
    ~Overlap /\ TypeOK /\ SearchComplete /\ AlertInv /\ [Next]_vars => AlertInv'
  <1> SUFFICES ASSUME ~Overlap, TypeOK, SearchComplete, AlertInv, [Next]_vars PROVE AlertInv'
    OBVIOUS
  <1>1. Alone'
    BY NextAlone DEF AlertInv
  <1>2. CASE UNCHANGED vars
    BY <1>1, <1>2 DEF vars, AlertInv, Cleared, NoDuplicateAlert, At, OpenAlerts
  <1>3. CASE CloseAlert
    <2>1. PICK i \in alerts : alerts' = (alerts \ {i}) \cup {[i EXCEPT !.open = FALSE]}
      BY <1>3 DEF CloseAlert
    <2>2. ~[i EXCEPT !.open = FALSE].open
      BY DEF TypeOK, Alerts
    <2>3. \A j \in alerts' : j.open => j \in alerts
      BY <2>1, <2>2
    <2> QED
      BY <1>1, <1>3, <2>3
         DEF CloseAlert, AlertInv, Cleared, NoDuplicateAlert, At, OpenAlerts
  <1>5. CASE Reindex
    <2>1. PICK i \in alerts : alerts' = (alerts \ {i}) \cup {[i EXCEPT !.listed = i.open]}
      BY <1>5 DEF Reindex
    <2> DEFINE now == [i EXCEPT !.listed = i.open]
    <2>2. now.open = i.open /\ now.title = i.title
      BY DEF TypeOK, Alerts
    <2>3. alerts' = (alerts \ {i}) \cup {now}
      BY <2>1
    <2> HIDE DEF now
    <2>4. Cleared'
      BY <1>5, <2>2, <2>3 DEF Reindex, AlertInv, Cleared, At, OpenAlerts
    <2>5. NoDuplicateAlert'
      BY <2>2, <2>3 DEF AlertInv, NoDuplicateAlert
    <2> QED
      BY <1>1, <2>4, <2>5 DEF AlertInv
  <1>4. ASSUME NEW p \in Probers, Acts(p) PROVE Cleared' /\ NoDuplicateAlert'
    <2>1. Cleared'
      <3> SUFFICES ASSUME NEW q \in Probers, pc'[q] = "create" PROVE OpenAlerts(q)' = {}
        BY DEF Cleared, At
      <3>1. q = p
        <4>1. CASE Start(p)
          BY <1>4, <4>1, OthersSame DEF Start, At, Same
        <4>2. CASE pc[p] # "off" /\ q # p
          BY <1>4, <4>2, OthersSame DEF Same, AlertInv, Alone
        <4> QED
          BY <1>4, <4>1, <4>2, ActsRunning
      <3>2. CASE Deadline(p)
        BY <3>1, <3>2 DEF Deadline, AlertInv, Cleared, At, OpenAlerts
      <3>3. CASE SearchAlert(p)
        <4>1. AfterAlert(p) # "create" /\ \A s, j : Goto(p, s, j) => pc'[p] = s
          BY DEF AfterAlert, Goto, TypeOK
        <4>2. NoneOpen(p) /\ Goto(p, "create", job[p]) /\ UNCHANGED alerts
          BY <3>1, <3>3, <4>1 DEF SearchAlert, Fault
        <4>3. OpenAlerts(p) = {}
          BY <3>3, <4>2
             DEF SearchComplete, SearchAlert, OpenAlerts, NoneOpen, SearchIssues
        <4> QED
          BY <3>1, <4>2, <4>3 DEF OpenAlerts, Goto
      <3> QED
        BY <1>4, <3>1, <3>2, <3>3, ReachesAlert
    <2>2. NoDuplicateAlert'
      <3>1. CASE alerts' = alerts
        BY <3>1 DEF AlertInv, NoDuplicateAlert
      <3>2. CASE CreateAlert(p)
        <4>1. OpenAlerts(p) = {}
          BY <3>2 DEF CreateAlert, AlertInv, Cleared
        <4>2. \A i \in alerts : i.open => i.title # line[p].mode
          BY <4>1 DEF OpenAlerts
        <4> DEFINE new == [by |-> Run(p), title |-> line[p].mode, open |-> TRUE,
                      listed |-> FALSE]
        <4>3. alerts' \subseteq alerts \cup {new} /\ new.title = line[p].mode
          BY <3>2 DEF CreateAlert
        <4> HIDE DEF new
        <4>4. \A i, j \in alerts : i.open /\ j.open /\ i.title = j.title => i = j
          BY DEF AlertInv, NoDuplicateAlert
        <4>5. \A i, j \in alerts \cup {new} : i.open /\ j.open /\ i.title = j.title => i = j
          BY <4>2, <4>3, <4>4
        <4> QED
          BY <4>3, <4>5 DEF NoDuplicateAlert
      <3>3. alerts' = alerts \/ CreateAlert(p)
        BY <1>4 DEF Acts, Start, Deadline, Kill, Scrape, Step, Resolve, ParseTarget,
           EvaluateTarget, MakeCard, WriteProbe, BuildProbe, RunTest, ProbeGitHub, ProbeDCM,
           FirstEnroll, SecondEnroll, AskDaemon, RunDirect, PanicDirect, Record, SearchAlert,
           Listen, EndHold, Exit, Call, LastCall
      <3> QED
        BY <3>1, <3>2, <3>3
    <2> QED
      BY <2>1, <2>2
  <1> QED
    BY <1>1, <1>2, <1>3, <1>4, <1>5 DEF Next, Acts, AlertInv

\* As long as runs do not overlap (concurrencyPolicy Forbid) and the search index has every
\* open alert when it is asked, no probe ever has two open alert issues, whatever else
\* fails, is lost, killed or closed (alerter.go 229-279).
THEOREM OneAlert == ~Overlap => (Spec => OneAlertIfIndexed)
  <1> SUFFICES ASSUME ~Overlap PROVE Spec => OneAlertIfIndexed
    OBVIOUS
  <1>1. Init => AlertInv
    BY DEF Init, AlertInv, Alone, Cleared, NoDuplicateAlert, At
  <1>2. TypeOK /\ SearchComplete /\ AlertInv /\ [Next]_vars => AlertInv'
    BY NextAlert
  <1>3. AlertInv => NoDuplicateAlert
    BY DEF AlertInv
  <1> QED
    BY <1>1, <1>2, <1>3, ProberTypeCorrect, PTL DEF Spec, OneAlertIfIndexed
-----------------------------------------------------------------------------
(* What runs leave on disk *)

Post == {"record", "search", "create", "listen", "hold", "exit"}
Running(r) == pc[r.by] # "off" /\ runs[r.by] = r.n

\* A run ends once, and its number is not given out again.
EndsInv ==
    /\ \A e \in ends : /\ e.run.n <= runs[e.run.by]
                       /\ ~Running(e.run)
    /\ \A e, f \in ends : e.run = f.run => e = f

\* Whose a probe file can be, torn or whole.
Accounted(r, torn) ==
    IF Running(r)
    THEN IF torn THEN pc[r.by] \in Post /\ job[r.by].err
                 ELSE pc[r.by] \in {"build", "test"} /\ Local(r.by)
    ELSE \E e \in ends : e.run = r /\ (e.end = "killed" \/ (torn /\ e.end = "fail"))

FileInv == file # None => Accounted(file.run, file.torn)

PassedCloneGone == \A e \in ends : e.end = "pass" => e.run \notin clones

DiskInv == EndsInv /\ FileInv /\ PassedCloneGone

LEMMA DiskExplained == TypeOK /\ DiskInv => LeftoversExplained
  <1> SUFFICES ASSUME TypeOK, DiskInv, NEW e \in ends
               PROVE  /\ e.end = "pass" => e.run \notin clones
                      /\ e.end = "pass" /\ file # None => file.run # e.run
                      /\ e.end = "fail" /\ file # None /\ file.run = e.run => file.torn
    BY DEF LeftoversExplained
  <1>1. file # None /\ file.run = e.run =>
          e.end = "killed" \/ (file.torn /\ e.end = "fail")
    BY DEF DiskInv, EndsInv, FileInv, Accounted
  <1> QED
    BY <1>1 DEF DiskInv, PassedCloneGone

LEMMA RunFields ==
    ASSUME TypeOK, NEW p \in Probers
    PROVE  /\ Run(p) \in Runs /\ Run(p).by = p /\ Run(p).n = runs[p] /\ runs[p] \in Nat
           /\ \A r \in Runs : r.by = p /\ r.n = runs[p] => r = Run(p)
           /\ pc[p] # "off" => Running(Run(p))
  BY DEF TypeOK, Run, Runs, Running

\* The books of the runs that ended.
LEMMA ActsEnds ==
    ASSUME TypeOK, EndsInv, NEW p \in Probers, Acts(p) PROVE EndsInv'
  <1>1. \A e \in ends : e.run \in Runs /\ e.run.by \in Probers /\ e.run.n \in Nat
    BY DEF TypeOK, Runs
  <1>2. \A q \in Probers : q # p => pc'[q] = pc[q] /\ runs'[q] = runs[q]
    BY OthersSame DEF Same
  <1>3. CASE Goes(p) \/ Deadline(p)
    <2>1. ends' = ends /\ runs' = runs
      BY <1>3 DEF Goes, Goto, Deadline
    <2>5. pc[p] # "off"
      <3>1. ~Start(p)
        BY <2>1 DEF Start, TypeOK
      <3> QED
        BY <3>1, ActsRunning
    <2>2. \A e \in ends : ~Running(e.run)'
      BY <1>1, <1>2, <2>1, <2>5 DEF EndsInv, Running
    <2> QED
      BY <2>1, <2>2 DEF EndsInv
  <1>4. CASE Start(p)
    <2>1. ends' = ends /\ runs' = [runs EXCEPT ![p] = @ + 1] /\ runs[p] \in Nat
      BY <1>4 DEF Start, TypeOK
    <2>2. \A e \in ends : e.run.n <= runs'[e.run.by] /\ ~Running(e.run)'
      <3> SUFFICES ASSUME NEW e \in ends PROVE e.run.n <= runs'[e.run.by] /\ ~Running(e.run)'
        OBVIOUS
      <3>1. CASE e.run.by = p
        <4>1. e.run.n <= runs[p] /\ runs'[p] = runs[p] + 1
          BY <2>1, <3>1 DEF EndsInv, TypeOK
        <4>2. e.run.n < runs'[p]
          BY <1>1, <2>1, <4>1
        <4> QED
          BY <1>1, <2>1, <3>1, <4>1, <4>2 DEF Running
      <3>2. CASE e.run.by # p
        BY <1>1, <1>2, <3>2 DEF EndsInv, Running
      <3> QED
        BY <3>1, <3>2
    <2> QED
      BY <2>1, <2>2 DEF EndsInv
  <1>5. ASSUME NEW end \in {"pass", "fail", "killed"}, Ended(p, end), pc[p] # "off"
        PROVE  EndsInv'
    <2>0. PICK new \in [run : Runs, end : {"pass", "fail", "killed"}] :
            new.run = Run(p) /\ ends' = ends \cup {new}
      BY <1>5, RunFields DEF Ended
    <2>1. ends' = ends \cup {new} /\ runs' = runs /\ pc'[p] = "off"
      BY <1>5, <2>0 DEF Ended, TypeOK
    <2>2. new.run = Run(p) /\ \A e \in ends : e.run # Run(p)
      BY <1>5, <2>0, RunFields DEF EndsInv
    <2>3. \A e \in ends : e.run.n <= runs'[e.run.by] /\ ~Running(e.run)'
      BY <1>1, <1>2, <2>1 DEF EndsInv, Running
    <2>4. new.run.n <= runs'[new.run.by] /\ ~Running(new.run)'
      <3>1. new.run.by = p /\ new.run.n = runs[p] /\ runs[p] \in Nat
        BY <2>2, RunFields
      <3> QED
        BY <2>1, <3>1 DEF Running
    <2>5. \A e, f \in ends \cup {new} : e.run = f.run => e = f
      BY <2>2 DEF EndsInv
    <2>6. \A e \in ends' : e.run.n <= runs'[e.run.by] /\ ~Running(e.run)'
      BY <2>1, <2>3, <2>4
    <2> QED
      BY <2>1, <2>5, <2>6 DEF EndsInv
  <1>6. CASE Stops(p)
    <2>1. pc[p] # "off"
      BY <1>6, ActsRunning DEF Stops, Ended, Start, FirstStep, TypeOK
    <2> QED
      BY <1>5, <1>6, <2>1 DEF Stops
  <1> QED
    BY <1>3, <1>4, <1>6, StepShape DEF Acts

\* From the result of the probe on, a run keeps it until it ends by it.
LEMMA PostSteps ==
    ASSUME TypeOK, NEW p \in Probers, Acts(p), pc[p] \in Post, job[p].err
    PROVE  \/ Ended(p, "fail") \/ Ended(p, "killed")
           \/ pc'[p] \in Post /\ job'[p].err /\ runs'[p] = runs[p]
  <1>1. job[p] \in Jobs
    BY DEF TypeOK
  <1>2. \A s, j : Goto(p, s, j) => pc'[p] = s /\ job'[p] = j /\ runs'[p] = runs[p]
    BY DEF Goto, TypeOK
  <1>3. /\ [job[p] EXCEPT !.scraped = TRUE].err
        /\ \A f : [job[p] EXCEPT !.filed = f].err
    BY <1>1 DEF Jobs
  <1>4. AfterAlert(p) \in Post
    BY DEF AfterAlert, Post
  <1>5. Record(p) \/ SearchAlert(p) \/ CreateAlert(p) \/ Listen(p) \/ EndHold(p)
          \/ Exit(p) \/ Scrape(p) \/ Deadline(p) \/ Kill(p)
    BY DEF Acts, Step, Post, At, Start, Resolve, ParseTarget, EvaluateTarget, MakeCard,
       WriteProbe, BuildProbe, RunTest, ProbeGitHub, ProbeDCM, FirstEnroll, SecondEnroll,
       AskDaemon, RunDirect, PanicDirect
  <1>6. CASE Record(p) \/ Listen(p) \/ EndHold(p) \/ Scrape(p)
    <2>1. /\ {"search", "hold", "exit"} \subseteq Post
      BY DEF Post
    <2>2. CASE Record(p)
      <3>1. PICK s \in Post : Goto(p, s, job[p])
        BY <1>4, <2>1, <2>2 DEF Record
      <3> QED
        BY <1>2, <3>1
    <2>3. CASE Scrape(p)
      BY <1>2, <1>3, <2>1, <2>3 DEF Scrape
    <2>4. CASE Listen(p) \/ EndHold(p)
      <3>1. PICK s \in Post : Goto(p, s, job[p])
        BY <2>1, <2>4 DEF Listen, EndHold
      <3> QED
        BY <1>2, <3>1
    <2> QED
      BY <1>6, <2>2, <2>3, <2>4
  <1>7. CASE SearchAlert(p) \/ CreateAlert(p)
    <2>1. "create" \in Post
      BY DEF Post
    <2>2. PICK j : j.err /\ \E s \in Post : Goto(p, s, j)
      BY <1>3, <1>4, <1>7, <2>1 DEF SearchAlert, CreateAlert, Fault
    <2> QED
      BY <1>2, <2>2
  <1>8. CASE Exit(p) \/ Kill(p)
    BY <1>8 DEF Exit, Kill
  <1>9. CASE Deadline(p)
    BY <1>1, <1>9 DEF Deadline, TypeOK, Jobs
  <1> QED
    BY <1>5, <1>6, <1>7, <1>8, <1>9

\* While its whole file lies there, a run builds and runs its test.
LEMMA TestSteps ==
    ASSUME TypeOK, NEW p \in Probers, Acts(p), pc[p] \in {"build", "test"}
    PROVE  \/ RunTest(p) \/ Ended(p, "killed")
           \/ pc'[p] \in {"build", "test"} /\ line'[p] = line[p] /\ runs'[p] = runs[p]
  <1>1. BuildProbe(p) \/ RunTest(p) \/ Deadline(p) \/ Kill(p)
    BY DEF Acts, Step, At, Start, Resolve, ParseTarget, EvaluateTarget, MakeCard, Scrape,
       WriteProbe, ProbeGitHub, ProbeDCM, FirstEnroll, SecondEnroll, AskDaemon, RunDirect, PanicDirect,
       Record, SearchAlert, CreateAlert, Listen, EndHold, Exit
  <1>2. \A s, j : Goto(p, s, j) => pc'[p] = s /\ line'[p] = line[p] /\ runs'[p] = runs[p]
    BY DEF Goto, TypeOK
  <1>3. CASE BuildProbe(p)
    <2>1. \E j : Goto(p, "test", j)
      BY <1>3 DEF BuildProbe
    <2> QED
      BY <1>2, <2>1
  <1>4. CASE Deadline(p) \/ Kill(p)
    BY <1>4 DEF Deadline, Kill
  <1> QED
    BY <1>1, <1>3, <1>4

LEMMA ActsKeepEnds ==
    ASSUME NEW p \in Probers, TypeOK, Acts(p) PROVE \A e \in ends : e \in ends'
  BY StepShape DEF Acts, Goes, Stops, Goto, Ended, Start, Deadline

\* Whose file it was is not forgotten by a step that leaves the file alone.
LEMMA AccountedKept ==
    ASSUME TypeOK, EndsInv, NEW p \in Probers, Acts(p), NEW r \in Runs, NEW t \in BOOLEAN,
           Accounted(r, t), RunTest(p) /\ Local(p) => r # Run(p)
    PROVE  Accounted(r, t)'
  <1>1. r.by \in Probers /\ r.n \in Nat
    BY DEF Runs
  <1>2. \A e \in ends : e \in ends'
    BY ActsKeepEnds
  <1>3. CASE r.by # p
    <2>1. Same(r.by)
      BY <1>1, <1>3, OthersSame
    <2>2. Running(r)' <=> Running(r)
      BY <2>1 DEF Same, Running
    <2> QED
      BY <1>2, <2>1, <2>2 DEF Accounted, Same, Local
  <1>4. CASE r.by = p /\ Running(r)
    <2>1. r = Run(p) /\ runs[p] = r.n /\ pc[p] # "off"
      BY <1>4, RunFields DEF Running
    <2>2. ASSUME NEW end \in {"killed", "fail"}, Ended(p, end), end = "fail" => t
          PROVE  Accounted(r, t)'
      <3>1. \E e \in ends' : e.run = r /\ e.end = end
        <4> DEFINE e == [run |-> Run(p), end |-> end]
        <4>1. e \in ends' /\ e.run = r /\ e.end = end
          BY <2>1, <2>2 DEF Ended
        <4> QED
          BY <4>1
      <3>2. ~Running(r)'
        BY <1>4, <2>2 DEF Running, Ended, TypeOK
      <3> QED
        BY <2>2, <3>1, <3>2 DEF Accounted
    <2>3. CASE t
      <3>1. pc[p] \in Post /\ job[p].err
        BY <1>4, <2>3 DEF Accounted
      <3>2. CASE pc'[p] \in Post /\ job'[p].err /\ runs'[p] = runs[p]
        <4>1. pc'[p] # "off"
          BY <3>2 DEF Post
        <4> QED
          BY <1>4, <2>1, <2>3, <3>2, <4>1 DEF Accounted, Running
      <3> QED
        BY <2>2, <2>3, <3>1, <3>2, PostSteps
    <2>4. CASE ~t
      <3>1. pc[p] \in {"build", "test"} /\ Local(p)
        BY <1>4, <2>4 DEF Accounted
      <3>2. ~RunTest(p)
        BY <2>1, <3>1
      <3>3. CASE pc'[p] \in {"build", "test"} /\ line'[p] = line[p] /\ runs'[p] = runs[p]
        BY <1>4, <2>1, <2>4, <3>1, <3>3 DEF Accounted, Running, Local
      <3> QED
        BY <2>2, <3>1, <3>2, <3>3, TestSteps
    <2> QED
      BY <2>3, <2>4
  <1>5. CASE r.by = p /\ ~Running(r)
    <2>1. PICK e \in ends : e.run = r /\ (e.end = "killed" \/ (t /\ e.end = "fail"))
      BY <1>5 DEF Accounted
    <2>2. ~Running(r)'
      BY <1>2, <2>1, ActsEnds DEF EndsInv
    <2> QED
      BY <1>2, <2>1, <2>2 DEF Accounted
  <1> QED
    BY <1>3, <1>4, <1>5

LEMMA PostRuns == "off" \notin Post /\ {"build", "test"} \cap Post = {}
  BY DEF Post

LEMMA NextFile ==
    ASSUME TypeOK, DiskInv, NEW p \in Probers, Acts(p) PROVE FileInv'
  <1>1. PICK r \in Runs : r = Run(p)
    BY RunFields
  <1>2. r.by = p /\ r.n = runs[p]
    BY <1>1, RunFields
  <1>3. CASE file' = None
    BY <1>3 DEF FileInv
  <1>4. CASE file' = file /\ file # None /\ ~(RunTest(p) /\ Local(p))
    <2>1. PICK r1 \in Runs, t1 \in BOOLEAN : r1 = file.run /\ t1 = file.torn
      BY <1>4 DEF TypeOK, Files
    <2>2. Accounted(r1, t1)'
      BY <1>4, <2>1, AccountedKept DEF DiskInv, FileInv
    <2> QED
      BY <1>4, <2>1, <2>2 DEF FileInv
  <1>5. ASSUME NEW t \in BOOLEAN, file' = [run |-> r, torn |-> t], Accounted(r, t)'
        PROVE  FileInv'
    BY <1>5 DEF FileInv
  <1>6. CASE WriteProbe(p)
    <2>1. CASE Goto(p, "build", job[p]) /\ file' = [run |-> r, torn |-> FALSE] /\ Local(p)
      <3>1. Running(r)' /\ pc'[p] = "build" /\ line'[p] = line[p]
        BY <1>2, <2>1 DEF Running, Goto, TypeOK
      <3>2. Accounted(r, FALSE)'
        BY <1>2, <2>1, <3>1 DEF Accounted, Local
      <3> QED
        BY <1>5, <2>1, <3>2
    <2>2. CASE Probed(p, job[p], TRUE) /\ file' = Torn(p)
      <3>1. pc'[p] = "record" /\ job'[p].err /\ runs' = runs
        BY <2>2 DEF Probed, Goto, TypeOK, Jobs
      <3>2. Running(r)' /\ pc'[p] \in Post
        BY <1>2, <3>1 DEF Running, Post
      <3>3. Accounted(r, TRUE)'
        BY <1>2, <3>1, <3>2 DEF Accounted
      <3> QED
        BY <1>1, <1>5, <2>2, <3>3 DEF Torn
    <2>3. ~RunTest(p)
      BY <1>6 DEF WriteProbe, RunTest, At
    <2> QED
      BY <1>1, <1>3, <1>4, <1>6, <2>1, <2>2, <2>3 DEF WriteProbe
  <1>7. CASE RunTest(p)
    BY <1>3, <1>4, <1>7 DEF RunTest
  <1>8. CASE Kill(p)
    <2>1. CASE file' = Torn(p)
      <3>1. \E e \in ends' : e.run = r /\ e.end = "killed"
        <4> DEFINE e == [run |-> Run(p), end |-> "killed"]
        <4>1. e \in ends' /\ e.run = r /\ e.end = "killed"
          BY <1>1, <1>8 DEF Kill, Ended
        <4> QED
          BY <4>1
      <3>2. ~Running(r)'
        BY <1>2, <1>8 DEF Running, Kill, Ended, TypeOK
      <3>3. Accounted(r, TRUE)'
        BY <3>1, <3>2 DEF Accounted
      <3> QED
        BY <1>1, <1>5, <2>1, <3>3 DEF Torn
    <2>2. RunTest(p) => file' = None \/ ~Local(p)
      BY DEF RunTest
    <2> QED
      BY <1>3, <1>4, <1>8, <2>1, <2>2 DEF Kill
  <1>9. file' = file \/ WriteProbe(p) \/ RunTest(p) \/ Kill(p)
    BY DEF Acts, Start, Deadline, Scrape, Step, Resolve, ParseTarget, EvaluateTarget,
       MakeCard, BuildProbe, ProbeGitHub, ProbeDCM, FirstEnroll, SecondEnroll, AskDaemon,
       RunDirect, PanicDirect, Record, SearchAlert, CreateAlert, Listen, EndHold, Exit, Call, LastCall
  <1> QED
    BY <1>3, <1>4, <1>6, <1>7, <1>8, <1>9

LEMMA NextClones ==
    ASSUME TypeOK, DiskInv, NEW p \in Probers, Acts(p) PROVE PassedCloneGone'
  <1>1. \A e \in ends : e.run # Run(p) \/ pc[p] = "off"
    BY RunFields DEF DiskInv, EndsInv, TypeOK
  <1>2. CASE Exit(p)
    <2>1. \A e \in ends' : e.end = "pass" =>
            e \in ends \/ (e.run = Run(p) /\ clones' = clones \ {Run(p)})
      BY <1>2 DEF Exit, Ended
    <2>2. clones' \subseteq clones
      BY <1>2 DEF Exit
    <2> QED
      BY <2>1, <2>2 DEF DiskInv, PassedCloneGone
  <1>3. CASE Resolve(p) \/ Kill(p)
    <2>1. pc[p] # "off" /\ clones' \subseteq clones \cup {Run(p)}
      BY <1>3 DEF Resolve, Kill, At
    <2>2. \A e \in ends' : e.end = "pass" => e \in ends
      BY <1>3 DEF Resolve, Kill, Ended, Probed, Goto
    <2> QED
      BY <1>1, <2>1, <2>2 DEF DiskInv, PassedCloneGone
  <1>4. CASE clones' = clones /\ ends' = ends
    BY <1>4 DEF DiskInv, PassedCloneGone
  <1>6. CASE PanicDirect(p)
    <2>1. clones' = clones /\ \A e \in ends' : e.end = "pass" => e \in ends
      BY <1>6 DEF PanicDirect, Ended
    <2> QED
      BY <2>1 DEF DiskInv, PassedCloneGone
  <1>5. (clones' = clones /\ ends' = ends) \/ Exit(p) \/ Resolve(p) \/ Kill(p) \/ PanicDirect(p)
    BY DEF Acts, Start, Deadline, Scrape, Step, ParseTarget, EvaluateTarget, WriteProbe,
       RunTest, MakeCard, BuildProbe, ProbeGitHub, ProbeDCM, FirstEnroll, SecondEnroll,
       AskDaemon, RunDirect, Record, SearchAlert, CreateAlert, Listen, EndHold, Call,
       LastCall, Probed, Goto, Fault
  <1> QED
    BY <1>2, <1>3, <1>4, <1>5, <1>6

LEMMA NextDisk == TypeOK /\ DiskInv /\ [Next]_vars => DiskInv'
  <1> SUFFICES ASSUME TypeOK, DiskInv, [Next]_vars PROVE DiskInv'
    OBVIOUS
  <1>1. CASE UNCHANGED vars
    BY <1>1 DEF vars, DiskInv, EndsInv, FileInv, Accounted, Running, PassedCloneGone, Local
  <1>2. CASE CloseAlert \/ Reindex
    BY <1>2 DEF CloseAlert, Reindex, DiskInv, EndsInv, FileInv, Accounted, Running, PassedCloneGone,
       Local
  <1>3. ASSUME NEW p \in Probers, Acts(p) PROVE DiskInv'
    BY <1>3, ActsEnds, NextFile, NextClones DEF DiskInv
  <1> QED
    BY <1>1, <1>2, <1>3 DEF Next, Acts

\* A run leaves its clone or its probe file behind only by failing or being killed, also
\* when probers overlap and write and remove each other's file (main.go 149, 184-186).
THEOREM LeftoversAreExplained == Spec => []LeftoversExplained
  <1>1. Init => DiskInv
    BY DEF Init, DiskInv, EndsInv, FileInv, PassedCloneGone
  <1> QED
    BY <1>1, NextDisk, DiskExplained, ProberTypeCorrect, PTL DEF Spec
-----------------------------------------------------------------------------
(* What a score counts *)

LEMMA PaddedFields ==
    ASSUME NEW j \in Jobs
    PROVE  /\ \A b : [j EXCEPT !.err = b].padded = j.padded
           /\ \A s : [j EXCEPT !.saw = s].padded = j.padded
           /\ \A o : [j EXCEPT !.outcome = o].padded = j.padded
           /\ \A o, b : [[j EXCEPT !.outcome = o] EXCEPT !.err = b].padded = j.padded
           /\ \A f : [j EXCEPT !.filed = f].padded = j.padded
           /\ [j EXCEPT !.scraped = TRUE].padded = j.padded
           /\ [j EXCEPT !.over = TRUE].padded = j.padded
           /\ NoJob.padded = None
  BY DEF Jobs, NoJob

\* Only the parser takes a file into the score.
LEMMA PaddedKept ==
    ASSUME TypeOK, NEW p \in Probers, Acts(p), ~ParseTarget(p)
    PROVE  job'[p].padded \in {job[p].padded, None}
  <1>1. job[p] \in Jobs
    BY DEF TypeOK
  <1>2. \A s, j : Goto(p, s, j) => job'[p] = j
    BY DEF Goto, TypeOK
  <1>3. ASSUME NEW b, Probed(p, job[p], b) PROVE job'[p].padded = job[p].padded
    <2>1. job'[p] = [job[p] EXCEPT !.err = b]
      BY <1>2, <1>3 DEF Probed
    <2> QED
      BY <1>1, <2>1, PaddedFields
  <1>4. \A end : Ended(p, end) => job'[p].padded = None
    BY PaddedFields DEF Ended, TypeOK
  <1>5. CASE Start(p)
    BY <1>5 DEF Start
  <1>6. CASE Deadline(p)
    BY <1>1, <1>6, PaddedFields DEF Deadline, TypeOK
  <1>7. CASE Resolve(p) \/ EvaluateTarget(p) \/ MakeCard(p) \/ WriteProbe(p)
    BY <1>2, <1>3, <1>7 DEF Resolve, EvaluateTarget, MakeCard, WriteProbe, Call
  <1>8. CASE BuildProbe(p)
    <2>1. PICK saw : Goto(p, "test", [job[p] EXCEPT !.saw = saw])
      BY <1>8 DEF BuildProbe
    <2>2. job'[p] = [job[p] EXCEPT !.saw = saw]
      BY <1>2, <2>1
    <2> QED
      BY <1>1, <2>2, PaddedFields
  <1>9. CASE RunTest(p)
    <2>1. PICK o : Probed(p, [job[p] EXCEPT !.outcome = o], o = "green")
      BY <1>9 DEF RunTest
    <2>2. job'[p] = [[job[p] EXCEPT !.outcome = o] EXCEPT !.err = (o = "green")]
      BY <1>2, <2>1 DEF Probed
    <2> QED
      BY <1>1, <2>2, PaddedFields
  <1>10. CASE ProbeGitHub(p) \/ ProbeDCM(p) \/ FirstEnroll(p) \/ SecondEnroll(p)
                \/ AskDaemon(p) \/ RunDirect(p)
    BY <1>2, <1>3, <1>10 DEF ProbeGitHub, ProbeDCM, FirstEnroll, SecondEnroll, AskDaemon,
       RunDirect, Call, LastCall
  <1>11. CASE Record(p) \/ Listen(p) \/ EndHold(p) \/ Scrape(p)
    BY <1>1, <1>2, <1>11, PaddedFields DEF Record, Listen, EndHold, Scrape
  <1>12. CASE SearchAlert(p) \/ CreateAlert(p)
    <2>1. PICK j : j.padded = job[p].padded /\ \E s : Goto(p, s, j)
      <3>1. \A f : [job[p] EXCEPT !.filed = f].padded = job[p].padded
        BY <1>1, PaddedFields
      <3> QED
        BY <1>12, <3>1 DEF SearchAlert, CreateAlert, Fault
    <2> QED
      BY <1>2, <2>1
  <1>13. CASE Exit(p) \/ Kill(p) \/ PanicDirect(p)
    BY <1>4, <1>13 DEF Exit, Kill, PanicDirect
  <1> QED
    BY <1>5, <1>6, <1>7, <1>8, <1>9, <1>10, <1>11, <1>12, <1>13 DEF Acts, Step

\* What the parser takes in is the file of a killed run.
LEMMA ParsedIsLeftover ==
    ASSUME TypeOK, FileInv, Alone, NEW p \in Probers, ParseTarget(p),
           job'[p].padded \notin {job[p].padded, None}
    PROVE  [run |-> job'[p].padded.run, end |-> "killed"] \in ends
  <1>1. job[p] \in Jobs /\ \A s, j : Goto(p, s, j) => job'[p] = j
    BY DEF Goto, TypeOK
  <1>2. ~Probed(p, job[p], TRUE)
    <2> SUFFICES ASSUME Probed(p, job[p], TRUE) PROVE job'[p].padded = job[p].padded
      OBVIOUS
    <2>1. job'[p] = [job[p] EXCEPT !.err = TRUE]
      BY <1>1 DEF Probed
    <2> QED
      BY <1>1, <2>1, PaddedFields
  <1>3. job'[p].padded = file /\ file # None /\ ~file.torn /\ Local(p)
    BY <1>1, <1>2 DEF ParseTarget, Jobs
  <1>4. file.run \in Runs /\ file.run.by \in Probers
    BY <1>3 DEF TypeOK, Files, Runs
  <1>5. ~Running(file.run)
    BY <1>3, <1>4 DEF FileInv, Accounted, Running, Alone, ParseTarget, At
  <1>6. PICK e \in ends : e.run = file.run /\ e.end = "killed"
    BY <1>3, <1>5 DEF FileInv, Accounted
  <1>7. e = [run |-> file.run, end |-> "killed"]
    BY <1>6 DEF TypeOK
  <1> QED
    BY <1>3, <1>6, <1>7

LEMMA NextScore ==
    ~Overlap /\ TypeOK /\ Alone /\ DiskInv /\ ScoreOfRepositoryTests /\ [Next]_vars
      => ScoreOfRepositoryTests'
  <1> SUFFICES ASSUME ~Overlap, TypeOK, Alone, DiskInv, ScoreOfRepositoryTests, [Next]_vars
               PROVE  ScoreOfRepositoryTests'
    OBVIOUS
  <1>1. CASE UNCHANGED vars
    BY <1>1 DEF vars, ScoreOfRepositoryTests
  <1>2. CASE CloseAlert \/ Reindex
    BY <1>2 DEF CloseAlert, Reindex, ScoreOfRepositoryTests
  <1>3. ASSUME NEW p \in Probers, Acts(p) PROVE ScoreOfRepositoryTests'
    <2>1. \A e \in ends : e \in ends'
      BY <1>3, ActsKeepEnds
    <2> SUFFICES ASSUME NEW q \in Probers, job'[q].padded # None
                 PROVE  [run |-> job'[q].padded.run, end |-> "killed"] \in ends
      BY <2>1 DEF ScoreOfRepositoryTests
    <2>2. CASE job'[q].padded = job[q].padded
      BY <2>2 DEF ScoreOfRepositoryTests
    <2>3. CASE q = p
      BY <1>3, <2>2, <2>3, PaddedKept, ParsedIsLeftover DEF DiskInv
    <2>4. CASE q # p
      BY <1>3, <2>2, <2>4, OthersSame DEF Same
    <2> QED
      BY <2>3, <2>4
  <1> QED
    BY <1>1, <1>2, <1>3 DEF Next, Acts

\* As long as runs do not overlap, the only generated test that ever gets into a score is
\* that of a run killed before it could remove it (synthesizer.go 164-169).
THEOREM ScoresAreOwn == ~Overlap => (Spec => []ScoreOfRepositoryTests)
  <1> SUFFICES ASSUME ~Overlap PROVE Spec => []ScoreOfRepositoryTests
    OBVIOUS
  <1>1. Init => Alone /\ DiskInv /\ ScoreOfRepositoryTests
    BY PaddedFields DEF Init, Alone, DiskInv, EndsInv, FileInv, PassedCloneGone,
       ScoreOfRepositoryTests, NoJob
  <1>2. TypeOK /\ Alone /\ DiskInv /\ ScoreOfRepositoryTests /\ [Next]_vars
          => Alone' /\ DiskInv' /\ ScoreOfRepositoryTests'
    BY NextAlone, NextDisk, NextScore
  <1> QED
    BY <1>1, <1>2, ProberTypeCorrect, PTL DEF Spec
=============================================================================
