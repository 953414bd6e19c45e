-------------------------- MODULE MCEvidenceLedger --------------------------
(* Two kinds with a collector each; "runtime" observations expire after one  *)
(* time unit, "tests" observations do not, and a third identity tries to     *)
(* observe.  The second list declares a kind twice.                          *)
EXTENDS EvidenceLedger

Item(k, s, ok, t, c, whole) ==
    [kind |-> k, source |-> s, sound |-> ok, at |-> t, collector |-> c, intact |-> whole]

MCTimes == 0..2

MCRecordable ==
    {Item("runtime", "OBSERVED", ok, t, "probe", TRUE) : ok \in BOOLEAN, t \in {0, 1}}
    \cup {Item("runtime", "OBSERVED", TRUE, Undated, "probe", TRUE),
          Item("tests", "OBSERVED", TRUE, Undated, "ci", TRUE),
          Item("tests", "OBSERVED", FALSE, 1, "ci", TRUE),
          Item("tests", "OBSERVED", TRUE, 1, "executor", TRUE),
          Item("tests", "MODEL", TRUE, 2, "executor", TRUE),
          Item("runtime", "EXECUTOR", TRUE, 2, "executor", TRUE),
          Item("runtime", "EXECUTOR", TRUE, 2, "executor", FALSE)}

MCGrantable ==
    {[collector |-> "probe", kinds |-> {"runtime"}], [collector |-> "ci", kinds |-> {"tests"}]}

Req(k, age) == [kind |-> k, maxAge |-> age]

MCRequirementLists ==
    {<< >>,
     <<Req("runtime", 1), Req("tests", NoHorizon)>>,
     <<Req("runtime", NoHorizon), Req("runtime", 1)>>}
=============================================================================
