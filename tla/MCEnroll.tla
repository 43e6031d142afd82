------------------------------ MODULE MCEnroll ------------------------------
(* Small instances of Enroll for TLC. *)
EXTENDS EnrollLedger, TLC

CONSTANTS c1, c2, r1, r2, s1, s2, bad

\* Each valid spelling names a repository of its own.
OwnSpelling == [s \in Spellings |-> IF s = s1 THEN r1 ELSE IF s = s2 THEN r2 ELSE NoRepo]

\* "o/r" and "https://github.com/o/r" name one repository.
OneRepo == [s \in Spellings |-> r1]

AllSteps == Steps

\* No definition tells one caller from another; used where no liveness is checked.
CallerSymmetry == Permutations(Callers)
=============================================================================
