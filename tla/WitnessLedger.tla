--------------------------- MODULE WitnessLedger ---------------------------
(***************************************************************************)
(* What the two durable witness ledgers (FileWitness, FirestoreWitness) have  *)
(* in common: the processes that observe signed checkpoints of one operation,  *)
(* under clocks of their own.                                               *)
(***************************************************************************)
EXTENDS Witness, FiniteSets

CONSTANTS Writers,
          Envelopes,        \* the validly signed envelopes writers observe
          Stamps,           \* readings of their clocks
          MaxObservations   \* bound on the calls of observe()

ASSUME ObservationsAssumption ==
    /\ MaxObservations \in Nat /\ Stamps \subseteq Nat
    /\ \A envelope \in Envelopes : envelope.version \in Nat \ {0} /\ envelope.issued \in Nat

VARIABLE observations  \* how often observe() was called

NoEnvelope ==
    [version |-> 0, signer |-> "none", execution |-> "none", digest |-> "none", issued |-> 0]

\* A record that is the beginning of another.
Extends(record, other) == Len(record) <= Len(other) /\ record = SubSeq(other, 1, Len(record))
=============================================================================
