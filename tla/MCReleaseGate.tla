----------------------------- MODULE MCReleaseGate -----------------------------
(* The release pipeline on a main of two commits, with the surroundings free *)
(* to change a bounded number of times between any two probes.               *)
EXTENDS ReleaseGate

===============================================================================
