------------------------------ MODULE Appraisal ------------------------------
(***************************************************************************)
(* What the enrollment pipeline takes an evaluation to be (pipeline.go     *)
(* 181-274), with no word of LLM, retries, IDs or stages: the tests of a   *)
(* repository, as they were when it began, are judged in one stroke, which *)
(* gives a score or nothing; and a score below 100 asks for a requirement  *)
(* that this very judgement found missing.                                 *)
(***************************************************************************)
EXTENDS Integers, FiniteSets

CONSTANT None  \* no score, or nothing asked for

VARIABLES
    task,    \* the requirements, what each builds on, and whether that is in order
    tested,  \* the requirements that the tests of the repository exercise
    phase,   \* where the evaluation stands
    given,   \* the requirements exercised by the tests that it is to judge
    found,   \* the requirements that it found covered
    score,   \* None as long as it has none
    asked    \* the requirement that the next test is asked for

vars == <<task, tested, phase, given, found, score, asked>>

Init ==
    /\ phase = "idle" /\ tested = {} /\ given = {}
    /\ found = {} /\ score = None /\ asked = None

\* An evaluation starts from nothing but the tests as they are.
Begin ==
    /\ phase = "idle" /\ phase' = "judging"
    /\ given' = tested
    /\ found' = {} /\ score' = None /\ asked' = None
    /\ UNCHANGED <<task, tested>>

\* A score never flatters, falls short by less than 2, and 100 says that everything is
\* covered. Where nothing is required, nothing is scored.
Meaning(all, part, pct) ==
    LET t == Cardinality(all)  c == Cardinality(part) IN
    /\ part \subseteq all /\ pct \in 0..100
    /\ pct * t <= 100 * c /\ (t > 0 => 100 * c < (pct + 2) * t)
    /\ IF all = {} THEN pct = 0 ELSE pct = 100 <=> part = all

\* Tests may be overlooked, and none is imagined.
Judge ==
    /\ phase = "judging" /\ phase' = "judged"
    /\ found' \subseteq given
    /\ Meaning(task.wanted, found', score')
    /\ UNCHANGED <<task, tested, given, asked>>

\* Whatever has been judged by then stands.
GiveUp ==
    /\ phase # "idle" /\ phase' = "idle"
    /\ UNCHANGED <<task, tested, given, found, score, asked>>

\* Of an orderly task, what is asked for builds on requirements that were found covered.
Ask ==
    /\ phase = "judged" /\ phase' = "idle"
    /\ IF score = 100
       THEN asked' = None
       ELSE /\ asked' \in task.wanted \ found
            /\ task.orderly => task.needs[asked'] \subseteq found
    /\ UNCHANGED <<task, tested, given, found, score>>

\* People change the tests at any time.
Change == tested' \subseteq task.wanted /\ UNCHANGED <<task, phase, given, found, score, asked>>

Next == Begin \/ Judge \/ GiveUp \/ Ask \/ Change

Spec == Init /\ [][Next]_vars
=============================================================================
