--------------------------- MODULE MCAuditorTrust ----------------------------
(* One instance of AuditorTrust: three keys, a recovery policy of two of three   *)
(* authorities and its successor of two, a majority of two witnesses and one of two.    *)
EXTENDS AuditorTrust, TLC

CONSTANTS k0, k1, k2, a, b, c, w1, w2, w3, w4

MCKeys == {k0, k1, k2}
TwoOfThree == [members |-> {a, b, c}, threshold |-> 2]
TwoOfTwo == [members |-> {a, b}, threshold |-> 2]
BothWitnesses == [members |-> {w1, w2}, threshold |-> 2]
EitherWitness == [members |-> {w3, w4}, threshold |-> 1]
MCPolicies == {TwoOfThree, TwoOfTwo}
MCWitnessPolicies == {BothWitnesses, EitherWitness}
MCRoots == [key |-> k0, policy |-> TwoOfThree, witnesses |-> BothWitnesses]

Symmetry == Permutations({k1, k2}) \cup Permutations({a, b}) \cup Permutations({w1, w2})
            \cup Permutations({w3, w4})
=============================================================================
