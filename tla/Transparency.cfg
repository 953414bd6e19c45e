SPECIFICATION Spec
CONSTANTS
  Honest = {w1, w2}
  Equivocator = w3
  Digests = {d1, d2}
  Other = d3
  Commitments <- MCCommitments
  Pinned <- MCPinned
  Policies <- MCPolicies
  Equivocators = {w3}
  Signer = "s"
  Signers = {"s", "t"}
  Paths = {p, q}
  MaxSigned = 4
  MaxVotes = 2
SYMMETRY MCSymmetry
INVARIANT AcceptedHasQuorum
INVARIANT DivergenceIsEquivocation
INVARIANT QuorumIsOfTheSet
INVARIANT ReceiptsVerify
CHECK_DEADLOCK FALSE
