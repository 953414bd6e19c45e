---------------------------- MODULE MCExecution ----------------------------
(* The demonstration's requirements (proofos_agent/scenario.py), with a      *)
(* horizon of one time unit, an execution that names a kind twice, and one   *)
(* without requirements.                                                    *)
EXTENDS Execution

MCTimes == 0..2

Demonstration ==
    <<[kind |-> "tests", maxAge |-> NoHorizon], [kind |-> "runtime", maxAge |-> 1]>>

NamedTwice == Append(Demonstration, [kind |-> "tests", maxAge |-> 0])

MCRequirementLists == {Demonstration, NamedTwice, << >>}
=============================================================================
