------------------------------- MODULE MCSetup -------------------------------
(* Small instances of Setup for TLC. *)
EXTENDS Setup

Empty == [i \in Parts |-> 0]
\* The owner has workflows, a module and tests of their own, and seed files.
Lived == [i \in Parts |-> IF i = "directories" THEN 0 ELSE 2]

NewMain   == {Empty}
BothMains == {Empty, Lived}

Collaborator == [admin |-> FALSE, force |-> FALSE, skip |-> FALSE]
Owner        == [admin |-> TRUE, force |-> FALSE, skip |-> FALSE]
OwnerSkips   == [admin |-> TRUE, force |-> FALSE, skip |-> TRUE]

\* An owner whose permissions cannot be read goes every way of a collaborator, and one who
\* answers the questions with yes every way of a forced run.
PushModes == {Collaborator, Owner}
AllModes  == {Owner, OwnerSkips}
=============================================================================
