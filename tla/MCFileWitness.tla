--------------------------- MODULE MCFileWitness ---------------------------
(* Two writers observe two versions, the second also signed by another signer, *)
(* under two readings of the clock: the first may be stamped with either.      *)
EXTENDS FileWitness, TLC

MCEnvelope(version, signer, digest, issued) ==
    [version |-> version, signer |-> signer, execution |-> "x",
     digest |-> digest, issued |-> issued]

MCEnvelopes ==
    {MCEnvelope(1, "s", "a", 1), MCEnvelope(2, "s", "b", 2), MCEnvelope(2, "t", "b", 2)}

MCStamps == 1..2

WriterSymmetry == Permutations(Writers)
=============================================================================
