------------------------------- MODULE MCProber -------------------------------
(* Prober for TLC: the command lines of the instances. *)
EXTENDS Prober

Evaluator(place, metrics) ==
    [mode |-> "evaluator", place |-> place, dry |-> FALSE, filing |-> "on",
     metrics |-> metrics]
Other(mode, dry, filing, metrics) ==
    [mode |-> mode, place |-> "clone", dry |-> dry, filing |-> filing, metrics |-> metrics]

\* The evaluator on a local directory and on a clone, the other modes live and dry, and a
\* mode the flag's help names but main does not know; alerts of two titles, one misnamed
\* repository for them, runs without alerts.
AllLines ==
    {Evaluator("local", "untimed"), Evaluator("clone", "off"),
     Other("clients", FALSE, "on", "off"), Other("clients", TRUE, "misnamed", "off"),
     Other("enroll", FALSE, "off", "off"), Other("enroll", TRUE, "off", "timed"),
     Other("unknown", FALSE, "off", "off")}

\* The evaluator as the CronJob runs it.
CronLines == {Evaluator("clone", "timed")}

ASSUME AllLines \subseteq Lines
=============================================================================
