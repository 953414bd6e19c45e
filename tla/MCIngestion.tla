---------------------------- MODULE MCIngestion ----------------------------
(* Two executions of one task ask for the "runtime" observation; "probe" is  *)
(* in scope, "ci" is a registered collector scoped to another kind.          *)
EXTENDS Ingestion, TLC

MCTarget(e) == [execution |-> e, task |-> "t", kind |-> "runtime", profile |-> "health"]
MCTargets == {MCTarget("e1"), MCTarget("e2")}

MCKeys == [p \in {"probe", "ci"} |-> IF p = "probe" THEN "kp" ELSE "kc"]

Record(key, kinds) == [key |-> key, active |-> TRUE, kinds |-> kinds, profiles |-> {"health"}]
MCRegistry == [c \in {"probe", "ci"} |->
                 IF c = "probe" THEN Record("kp", {"runtime"}) ELSE Record("kc", {"tests"})]

MCCapabilities == [c \in {"probe", "ci"} |-> IF c = "probe" THEN {"runtime"} ELSE {"tests"}]

MCReadings == 0..2

NonceSymmetry == Permutations(Nonces)
=============================================================================
