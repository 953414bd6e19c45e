---------------------------- MODULE MCContinuity ----------------------------
(* Two workers with the pinned agents in their catalog, and one without.     *)
EXTENDS Continuity, TLC

CONSTANTS w1, w2, w3

MCWorkers == {w1, w2, w3}
MCCurrent == {w1, w2}
CurrentSymmetry == Permutations(MCCurrent)
=============================================================================
