------------------------------ MODULE Witness ------------------------------
(***************************************************************************)
(* The rules every witness ledger follows for the signed checkpoints of one  *)
(* operation (src/proofos/witness.py; the file and Firestore ledgers repeat    *)
(* them).  A record's hash covers the hash of the record before it, so a        *)
(* record is the sequence of observations it ends.  An envelope is what a        *)
(* checkpoint's signature covers: [version, signer, execution, digest, issued]; *)
(* two envelopes are equal when digest and signature are.                       *)
(***************************************************************************)
EXTENDS Naturals, Sequences

Observation(envelope, stamp) == [envelope |-> envelope, stamp |-> stamp]

Latest(record) == record[Len(record)].envelope
Before(record) == SubSeq(record, 1, Len(record) - 1)

SameSource(envelope, other) ==
    envelope.signer = other.signer /\ envelope.execution = other.execution

\* An envelope is recorded after this history: the first version, or the next
\* of the same signer and execution.
Follows(envelope, record) ==
    IF record = << >>
    THEN envelope.version = 1
    ELSE SameSource(envelope, Latest(record)) /\ envelope.version = Latest(record).version + 1

\* The latest envelope again, to its signature, is answered with its record.
Replays(envelope, record) == record # << >> /\ Latest(record) = envelope

\* verify(): the stored records, in the order of their versions, are one chain.
VerifyRecords(records) ==
    \A i \in DOMAIN records :
        /\ records[i] # << >> /\ Latest(records[i]).version = i
        /\ Before(records[i]) = IF i = 1 THEN << >> ELSE records[i - 1]
        /\ i > 1 => SameSource(Latest(records[i]), Latest(records[i - 1]))
=============================================================================
