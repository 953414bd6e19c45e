--------------------------- MODULE WitnessQuorum ---------------------------
(***************************************************************************)
(* Signed witness receipts, the quorum recomputed from them, the certificate  *)
(* of a quorum, the gossip bundle that carries the votes, the gate that        *)
(* decides on a bundle and the auditor's receipt of that decision              *)
(* (src/proofos: witness_receipt, witness_quorum, quorum_certificate,           *)
(* witness_gossip, transparency_gate, transparency_audit_receipt).              *)
(*                                                                         *)
(* A digest or a content hash is the value it is computed from.  A signature   *)
(* is the key that made it and what it covers.  A commitment is [scope,         *)
(* digest]: the scope is operation, execution and version, the digest stands     *)
(* for the rest of the record.  Times are left out: a receipt names the hash of   *)
(* its record, which covers the time of the observation.                          *)
(***************************************************************************)
EXTENDS Naturals, Sequences, FiniteSets, SequencesExt

Refused == [state |-> "REFUSED"]
Signed(key, fields) == [key |-> key, over |-> fields]

(* A policy is [keys, threshold]: the key of each witness it names.          *)
Members(policy) == DOMAIN policy.keys

PolicyOK(policy) ==
    /\ \A w, x \in Members(policy) : policy.keys[w] = policy.keys[x] => w = x
    /\ policy.threshold \in 1..Cardinality(Members(policy))

-----------------------------------------------------------------------------
(* Receipts.                                                               *)
Record(witness, commitment) ==
    [witness |-> witness, commitment |-> commitment, hash |-> <<witness, commitment>>]

Intact(record) == record.hash = <<record.witness, record.commitment>>

\* What a receipt repeats of its record, and signs.
Fields(record) ==
    [witness |-> record.witness, commitment |-> record.commitment, hash |-> record.hash]

SignReceipt(record, key) ==
    [fields |-> Fields(record), signature |-> Signed(key, Fields(record))]

\* Variant for the mutation checks: the receipt need not be of this record.
SignatureOnly(receipt, record, key) ==
    Intact(record) /\ receipt.signature = Signed(key, receipt.fields)

ReceiptVerifies(receipt, record, key) ==
    /\ Intact(record)
    /\ receipt.signature = Signed(key, receipt.fields)
    /\ receipt.fields = Fields(record)

-----------------------------------------------------------------------------
(* evaluate_witness_quorum: votes are [receipt, record], in the order given. *)
Voter(vote) == vote.receipt.fields.witness
Commitment(vote) == vote.record.commitment

\* by_witness: the first vote of each witness is the one kept.
First(votes, w) ==
    votes[CHOOSE i \in DOMAIN votes :
             Voter(votes[i]) = w /\ \A j \in 1 .. i - 1 : Voter(votes[j]) # w]

Voters(votes) == {Voter(votes[i]) : i \in DOMAIN votes}

Admissible(votes, policy) ==
    /\ \A i \in DOMAIN votes :
          /\ Voter(votes[i]) \in Members(policy)
          /\ ReceiptVerifies(votes[i].receipt, votes[i].record, policy.keys[Voter(votes[i])])
    /\ \A i \in DOMAIN votes : Commitment(votes[i]).scope = Commitment(votes[1]).scope

\* Variant for the mutation checks: a witness's later votes are not looked at.
FirstVotesDiffer(votes) ==
    LET kept == {Commitment(First(votes, w)) : w \in Voters(votes)}
    IN  IF Cardinality(kept) > 1 THEN kept ELSE {}

\* conflicting_hashes: of the votes kept when they differ, and of every later
\* vote of a witness that differs from its first.
Conflicts(votes) ==
    LET kept == {Commitment(First(votes, w)) : w \in Voters(votes)}
        changed == {i \in DOMAIN votes : Commitment(votes[i]) # Commitment(First(votes, Voter(votes[i])))}
    IN  (IF \E c, d \in kept : c # d THEN kept ELSE {})
        \cup {Commitment(votes[i]) : i \in changed}
        \cup {Commitment(First(votes, Voter(votes[i]))) : i \in changed}

Result(state, policy, commitment, voters, conflicts) ==
    [state |-> state, policy |-> policy, commitment |-> commitment,
     counted |-> voters, required |-> policy.threshold, conflicts |-> conflicts]

NoScope == "no scope"
NoDigest == "no digest"
Unscoped == [scope |-> NoScope, digest |-> NoDigest]

QuorumMet(votes, policy) == Cardinality(Voters(votes)) >= policy.threshold

Evaluate(votes, policy, pin) ==
    IF policy # pin \/ ~ Admissible(votes, policy) THEN Refused
    ELSE IF votes = << >> THEN Result("INSUFFICIENT", policy, Unscoped, {}, {})
    ELSE IF Conflicts(votes) # {}
    THEN Result("SPLIT_VIEW", policy, [Commitment(votes[1]) EXCEPT !.digest = NoDigest],
                Voters(votes), Conflicts(votes))
    ELSE Result(IF QuorumMet(votes, policy) THEN "QUORUM" ELSE "INSUFFICIENT", policy,
                Commitment(votes[1]), Voters(votes), {})

-----------------------------------------------------------------------------
(* The certificate, whose verifier recomputes what the signer was given.     *)
Certifiable(result) == result.state = "QUORUM" /\ Cardinality(result.counted) >= result.required

Certify(result, signer) == [result |-> result, signer |-> signer]

CertificateVerifies(certificate, result, signer) ==
    /\ certificate.signer = signer
    /\ result.state = "QUORUM"
    /\ certificate.result = result

-----------------------------------------------------------------------------
(* A bundle is [policy, claim, votes]; its publisher signs any claim.         *)
Recompute(bundle, pin) ==
    LET result == Evaluate(bundle.votes, bundle.policy, pin)
    IN  IF bundle.claim = result THEN result ELSE Refused

(* evaluate_transparency: certificates are {} or a singleton.                *)
Decision(state, result, signer) == [state |-> state, result |-> result, signer |-> signer]
NoSigner == "none"

Uncertified ==
    [QUORUM |-> "HOLD_CERTIFICATE_REQUIRED", INSUFFICIENT |-> "HOLD_INSUFFICIENT",
     SPLIT_VIEW |-> "REJECTED_SPLIT_VIEW"]

Gate(bundle, pin, certificates, signer) ==
    LET result == Recompute(bundle, pin)
    IN  IF result = Refused THEN Refused
        ELSE IF certificates = {} THEN Decision(Uncertified[result.state], result, NoSigner)
        ELSE IF \A c \in certificates : CertificateVerifies(c, result, signer)
        THEN Decision("ACCEPTED", result, signer)
        ELSE Refused

-----------------------------------------------------------------------------
(* The auditor's receipt, signed by the auditor over the decision and the     *)
(* digests of the artifacts it was made from.                               *)
AuditReceipt(decision, bundle, certificates) ==
    [decision |-> decision, bundle |-> bundle, certificates |-> certificates]

\* Variant for the mutation checks: a digest is never missing.
ParsesStrictly(receipt) ==
    /\ receipt.decision.result.commitment.scope # NoScope
    /\ receipt.decision.result.commitment.digest # NoDigest
    /\ receipt.decision.state = "ACCEPTED" => receipt.certificates # {}

\* from_dict: operation and execution are non-empty, and a digest may be missing
\* only of a split view.
Parses(receipt) ==
    /\ receipt.decision.result.commitment.scope # NoScope
    /\ receipt.decision.state # "REJECTED_SPLIT_VIEW" =>
          receipt.decision.result.commitment.digest # NoDigest
    /\ receipt.decision.state = "ACCEPTED" =>
          /\ Cardinality(receipt.decision.result.counted) >= receipt.decision.result.required
          /\ receipt.certificates # {}

AuditVerifies(receipt, decision, bundle, certificates) ==
    Parses(receipt) /\ decision # Refused /\ receipt = AuditReceipt(decision, bundle, certificates)
=============================================================================
