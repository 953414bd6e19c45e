--------------------------- MODULE MCTransparency ---------------------------
(* Two of three witnesses, one of which equivocates; two checkpoints of one   *)
(* version and one of another; a policy of the same witnesses that asks for    *)
(* one vote only.                                                           *)
EXTENDS Transparency, TLC

CONSTANTS Honest, Equivocator, Digests, Other

MCCommitments == {[scope |-> "v1", digest |-> d] : d \in Digests}
                 \cup {[scope |-> "v2", digest |-> Other]}

MCKeys == [w \in Honest \cup {Equivocator} |-> <<"key", w>>]
MCPinned == [keys |-> MCKeys, threshold |-> 2]
MCLower == [keys |-> MCKeys, threshold |-> 1]
MCPolicies == {MCPinned, MCLower}

MCSymmetry == Permutations(Honest) \cup Permutations(Digests) \cup Permutations(Paths)
=============================================================================
