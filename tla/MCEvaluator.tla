----------------------------- MODULE MCEvaluator -----------------------------
(* Small instances of Evaluator for TLC. *)
EXTENDS Evaluator

StageNames == {"Core", "Expiry", "Admin", "Gone"}
Stage(name, deps, size) == [name |-> name, deps |-> deps, size |-> size]

Chain    == <<Stage("Core", {}, 2), Stage("Expiry", {"Core"}, 2)>>
Backward == <<Stage("Admin", {"Core", "Expiry"}, 1), Stage("Expiry", {"Core"}, 1), Stage("Core", {}, 2)>>
Fork     == <<Stage("Core", {}, 1), Stage("Expiry", {"Core"}, 1), Stage("Admin", {"Core"}, 2)>>
Circle   == <<Stage("Core", {"Expiry"}, 1), Stage("Expiry", {"Core"}, 2)>>
Unknown  == <<Stage("Expiry", {"Gone"}, 1), Stage("Core", {}, 1)>>
Heading  == <<Stage("Core", {}, 0), Stage("Expiry", {"Core"}, 2)>>
Blank    == <<Stage("Core", {}, 0)>>
\* Two files of specs/, each with a stage "Core".
TwoFiles == <<Stage("Core", {}, 1), Stage("Core", {}, 1)>>

NamedSpecs == {Chain, Backward, Fork, Circle, Unknown, Heading, Blank}
AllSpecs   == NamedSpecs \cup {TwoFiles}

\* The integer division rounds down and no score reaches 100 before all is covered.
ASSUME PercentageBounds ==
    \A t \in 1..300 : \A c \in 0..t :
        /\ Percentage(c, t) \in 0..100 /\ (Percentage(c, t) = 100 <=> c = t)
        /\ c > 0 => Percentage(c - 1, t) <= Percentage(c, t)
=============================================================================
