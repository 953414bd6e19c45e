------------------------- MODULE TransparencyProofs -------------------------
(***************************************************************************)
(* Theorems about what auditors accept (Transparency), for any witnesses,     *)
(* policies, checkpoints and bounds.                                         *)
(*                                                                         *)
(* The argument: whatever a transport makes of the votes, the receipts in a   *)
(* list were signed by witnesses (ListedReceipts), so a vote that is admitted   *)
(* is one a witness cast (AdmittedVotes) and an evaluation without conflicts     *)
(* counts signatories of one commitment (QuorumOfSignatories).  Votes are only    *)
(* added, so what was accepted keeps its quorum, and honest witnesses keep to      *)
(* one commitment of a scope (Kept), which leaves the overlap of two quorums to     *)
(* the equivocators.                                                         *)
(*                                                                         *)
(* An evaluation does not depend on the order of the votes because the first-vote   *)
(* rule keeps, of a witness without a conflict, the one vote it has                 *)
(* (OrderDoesNotMatter), and a vote more can only add to what is counted and to     *)
(* the conflicts (LateVotesShow).  A published receipt verifies because verifying   *)
(* decides again what was decided of the same bundle and certificates (Stands).     *)
(***************************************************************************)
EXTENDS Transparency, FiniteSetTheorems, TLAPS

\* An honest witness has signed at most one commitment of a scope.
Kept ==
    \A u, v \in votes :
        /\ u.record.witness = v.record.witness
        /\ u.record.witness \notin Equivocators
        /\ u.record.commitment.scope = v.record.commitment.scope
        => u.record.commitment = v.record.commitment

Inv == TypeOK /\ IsFiniteSet(votes) /\ Kept /\ AcceptedHasQuorum

-----------------------------------------------------------------------------
(* Votes and lists of votes.                                                *)

LEMMA VoteFields ==
    \A w, c : /\ Vote(w, c).record.witness = w
              /\ Vote(w, c).record.commitment = c
              /\ Vote(w, c).receipt.fields = [witness |-> w, commitment |-> c, hash |-> <<w, c>>]
BY DEF Vote, Record, SignReceipt, Fields

LEMMA VoteNames == \A w, c : Voter(Vote(w, c)) = w /\ Commitment(Vote(w, c)) = c
BY DEF Voter, Commitment, Vote, Record, SignReceipt, Fields

LEMMA PinnedFinite ==
    /\ IsFiniteSet(Members(Pinned)) /\ Cardinality(Members(Pinned)) \in Nat
    /\ Pinned.threshold \in Nat
BY PolicyAssumption, FS_CardinalityType DEF PolicyOK

LEMMA ListingIsSequence ==
    ASSUME IsFiniteSet(votes), NEW list \in Listings
    PROVE  list \in Seq(votes)
<1>1. PICK V \in SUBSET votes : list \in SetToSeqs(V)
  BY DEF Listings, Orders
<1>2. IsFiniteSet(V) /\ Cardinality(V) \in Nat
  BY FS_Subset, FS_CardinalityType
<1>. QED  BY <1>1, <1>2 DEF SetToSeqs

LEMMA ListIsSequence ==
    ASSUME IsFiniteSet(votes), NEW list \in Listings \cup Corrupted
    PROVE  list # << >> => 1 \in DOMAIN list
<1>1. CASE list \in Listings
  BY <1>1, ListingIsSequence
<1>2. CASE list \in Corrupted
  <2>1. PICK l \in Listings, bad \in Mispaired \cup Edited : list = Append(l, bad)
    BY <1>2 DEF Corrupted
  <2>2. l \in Seq(votes)
    BY ListingIsSequence
  <2>. QED  BY <2>1, <2>2
<1>. QED  BY <1>1, <1>2

LEMMA ListedReceipts ==
    ASSUME TypeOK, IsFiniteSet(votes), NEW list \in Listings \cup Corrupted, NEW i \in DOMAIN list
    PROVE  \E v \in votes : list[i].receipt = v.receipt
<1>1. CASE list \in Listings
  <2>1. list \in Seq(votes)
    BY <1>1, ListingIsSequence
  <2>. QED  BY <2>1
<1>2. CASE list \in Corrupted
  <2>1. PICK l \in Listings, bad \in Mispaired \cup Edited : list = Append(l, bad)
    BY <1>2 DEF Corrupted
  <2>2. l \in Seq(votes)
    BY ListingIsSequence
  <2>3. \E v \in votes : bad.receipt = v.receipt
    <3>1. CASE bad \in Mispaired
      BY <3>1 DEF Mispaired
    <3>2. CASE bad \in Edited
      <4>1. PICK v \in votes, c \in Commitments : bad = [v EXCEPT !.record.commitment = c]
        BY <3>2 DEF Edited
      <4>2. PICK w \in Members(Pinned), d \in Commitments : v = Vote(w, d)
        BY DEF TypeOK
      <4>. QED  BY <4>1, <4>2 DEF Vote
    <3>. QED  BY <3>1, <3>2
  <2>4. CASE i = Len(l) + 1
    BY <2>1, <2>2, <2>3, <2>4
  <2>5. CASE i \in 1 .. Len(l)
    BY <2>1, <2>2, <2>5
  <2>. QED  BY <2>1, <2>2, <2>4, <2>5
<1>. QED  BY <1>1, <1>2

\* A vote whose receipt verifies was cast by the witness it names.
LEMMA AdmittedVotes ==
    ASSUME TypeOK, NEW vote, NEW v \in votes, vote.receipt = v.receipt,
           ReceiptVerifies(vote.receipt, vote.record, Pinned.keys[Voter(vote)])
    PROVE  /\ Voter(vote) \in Members(Pinned)
           /\ Vote(Voter(vote), Commitment(vote)) \in votes
<1>1. PICK w \in Members(Pinned), c \in Commitments : v = Vote(w, c)
  BY DEF TypeOK
<1>2. vote.receipt.fields = [witness |-> w, commitment |-> c, hash |-> <<w, c>>]
  BY <1>1, VoteFields
<1>3. vote.receipt.fields = Fields(vote.record)
  BY DEF ReceiptVerifies
<1>4. Voter(vote) = w
  BY <1>2 DEF Voter
<1>5. vote.record.commitment = c
  BY <1>2, <1>3 DEF Fields
<1>. QED  BY <1>1, <1>4, <1>5 DEF Commitment

LEMMA NoConflicts ==
    ASSUME NEW list, Conflicts(list) = {}, NEW i \in DOMAIN list, NEW j \in DOMAIN list
    PROVE  Commitment(list[i]) = Commitment(list[j])
<1>. DEFINE kept == {Commitment(First(list, w)) : w \in Voters(list)}
            changed == {k \in DOMAIN list : Commitment(list[k]) # Commitment(First(list, Voter(list[k])))}
<1>1. /\ (IF \E c, d \in kept : c # d THEN kept ELSE {}) = {}
      /\ {Commitment(list[k]) : k \in changed} = {}
  BY DEF Conflicts
<1>2. \A c, d \in kept : c = d
  BY <1>1
<1>3. changed = {}
  BY <1>1
<1>4. \A k \in DOMAIN list : Commitment(list[k]) \in kept
  <2>. TAKE k \in DOMAIN list
  <2>1. Commitment(list[k]) = Commitment(First(list, Voter(list[k])))
    BY <1>3
  <2>. QED  BY <2>1 DEF Voters
<1>. QED  BY <1>2, <1>4

\* Of a list of receipts that witnesses signed, a quorum counts signatories.
LEMMA QuorumOfSignatories ==
    ASSUME TypeOK, IsFiniteSet(votes), NEW list \in Listings \cup Corrupted,
           Evaluate(list, Pinned, Pinned).state = "QUORUM"
    PROVE  Cardinality(Signatories(Evaluate(list, Pinned, Pinned).commitment)) >= Pinned.threshold
<1>. DEFINE result == Evaluate(list, Pinned, Pinned)
<1>1. /\ Admissible(list, Pinned) /\ Conflicts(list) = {} /\ QuorumMet(list, Pinned)
      /\ result.commitment = Commitment(list[1])
  BY DEF Evaluate, Refused, Result
<1>2. list # << >>
  BY DEF Evaluate, Refused, Result
<1>3. 1 \in DOMAIN list
  BY <1>2, ListIsSequence
<1>4. Voters(list) \subseteq Signatories(result.commitment)
  <2>1. SUFFICES ASSUME NEW i \in DOMAIN list
                 PROVE  Voter(list[i]) \in Signatories(result.commitment)
    BY DEF Voters
  <2>2. PICK v \in votes : list[i].receipt = v.receipt
    BY ListedReceipts
  <2>3. ReceiptVerifies(list[i].receipt, list[i].record, Pinned.keys[Voter(list[i])])
    BY <1>1 DEF Admissible
  <2>4. Commitment(list[i]) = result.commitment
    BY <1>1, <1>3, NoConflicts
  <2>. QED  BY <2>2, <2>3, <2>4, AdmittedVotes DEF Signatories
<1>5. IsFiniteSet(Signatories(result.commitment))
  BY PinnedFinite, FS_Subset DEF Signatories
<1>6. /\ Cardinality(Voters(list)) \in Nat /\ Cardinality(Signatories(result.commitment)) \in Nat
      /\ Cardinality(Voters(list)) <= Cardinality(Signatories(result.commitment))
  BY <1>4, <1>5, FS_Subset, FS_CardinalityType
<1>7. Cardinality(Voters(list)) >= Pinned.threshold
  BY <1>1 DEF QuorumMet
<1>. QED  BY <1>6, <1>7, PinnedFinite

\* Accepting a bundle takes its quorum under the pinned policy and certificates
\* of the trusted signer.
LEMMA AcceptedDecision ==
    ASSUME TypeOK, IsFiniteSet(votes), NEW bundle \in Bundles, NEW certificates \in Certificates,
           Decide(bundle, certificates) # Refused,
           Decide(bundle, certificates).state = "ACCEPTED"
    PROVE  /\ Cardinality(Signatories(Decide(bundle, certificates).result.commitment))
                 >= Pinned.threshold
           /\ certificates # {} /\ certificates \subseteq Issued(Signer)
<1>. DEFINE result == Recompute(bundle, Pinned)
<1>1. result # Refused
  BY DEF Decide, Gate
<1>2. certificates # {}
  <2>1. result = Evaluate(bundle.votes, bundle.policy, Pinned)
    BY <1>1 DEF Recompute
  <2>2. result.state \in {"QUORUM", "INSUFFICIENT", "SPLIT_VIEW"}
    BY <1>1, <2>1 DEF Evaluate, Result
  <2>3. Uncertified[result.state] # "ACCEPTED"
    BY <2>2 DEF Uncertified
  <2>. QED  BY <1>1, <2>3 DEF Decide, Gate, Decision
<1>3. /\ \A c \in certificates : CertificateVerifies(c, result, Signer)
      /\ Decide(bundle, certificates).result = result
  BY <1>1, <1>2 DEF Decide, Gate, Decision
<1>4. result.state = "QUORUM" /\ \A c \in certificates : c.signer = Signer
  BY <1>2, <1>3 DEF CertificateVerifies
<1>5. certificates \subseteq Issued(Signer)
  <2>1. PICK c \in UNION {Issued(signer) : signer \in Signers} : certificates = {c}
    BY <1>2 DEF Certificates
  <2>2. PICK signer \in Signers : c \in Issued(signer)
    BY <2>1
  <2>3. c.signer = signer
    BY <2>2 DEF Issued, Certify
  <2>. QED  BY <1>4, <2>1, <2>2, <2>3
<1>6. PICK list \in Listings \cup Corrupted : \E policy, claimed : bundle = Bundle(policy, list, claimed)
  BY DEF Bundles
<1>7. bundle.votes = list
  BY <1>6 DEF Bundle
<1>8. result = Evaluate(list, bundle.policy, Pinned)
  BY <1>1, <1>7 DEF Recompute
<1>9. bundle.policy = Pinned
  BY <1>1, <1>8 DEF Evaluate
<1>. QED  BY <1>2, <1>3, <1>4, <1>5, <1>8, <1>9, QuorumOfSignatories

-----------------------------------------------------------------------------
(* The invariant.                                                           *)

LEMMA InitInv == Init => Inv
<1>. SUFFICES ASSUME Init PROVE Inv
  OBVIOUS
<1>1. votes = {} /\ receipts = [p \in Paths |-> {}]
  BY DEF Init
<1>2. IsFiniteSet(votes)
  BY <1>1, FS_EmptySet
<1>3. \A p \in Paths : Cardinality(receipts[p]) <= 1
  BY <1>1, FS_EmptySet
<1>4. Accepted = {}
  BY <1>1 DEF Accepted, Published
<1>. QED  BY <1>1, <1>2, <1>3, <1>4 DEF Inv, TypeOK, Kept, AcceptedHasQuorum

\* Lists that can be made, and what is certified of them, stay with more votes.
LEMMA ListsStay ==
    ASSUME votes \subseteq votes', IsFiniteSet(votes)
    PROVE  /\ Listings \subseteq Listings' /\ Corrupted \subseteq Corrupted'
           /\ Issued(Signer) \subseteq Issued(Signer)'
<1>1. Listings \subseteq Listings'
  BY DEF Listings, Orders
<1>2. Mispaired \subseteq Mispaired' /\ Edited \subseteq Edited'
  BY DEF Mispaired, Edited
<1>3. Corrupted \subseteq Corrupted'
  BY <1>1, <1>2 DEF Corrupted
<1>4. Issued(Signer) \subseteq Issued(Signer)'
  BY <1>1, <1>3 DEF Issued
<1>. QED  BY <1>1, <1>3, <1>4

LEMMA AttestInv ==
    ASSUME Inv, NEW w \in Members(Pinned), NEW c \in Commitments, Attest(w, c)
    PROVE  Inv'
<1>. USE DEF Inv
<1>1. votes' = votes \cup {Vote(w, c)} /\ receipts' = receipts
  BY DEF Attest
<1>2. IsFiniteSet(votes)'
  BY <1>1, FS_AddElement
<1>3. TypeOK'
  BY <1>1 DEF TypeOK
<1>4. Kept'
  <2>1. SUFFICES ASSUME NEW u \in votes', NEW v \in votes',
                        u.record.witness = v.record.witness,
                        u.record.witness \notin Equivocators,
                        u.record.commitment.scope = v.record.commitment.scope
                 PROVE  u.record.commitment = v.record.commitment
    BY DEF Kept
  <2>2. \A x \in votes : x.record.witness = w /\ w \notin Equivocators
                         /\ x.record.commitment.scope = c.scope => x.record.commitment = c
    <3>1. SUFFICES ASSUME NEW x \in votes, x.record.witness = w, w \notin Equivocators,
                          x.record.commitment.scope = c.scope
                   PROVE  x.record.commitment = c
      OBVIOUS
    <3>2. PICK y \in Members(Pinned), d \in Commitments : x = Vote(y, d)
      BY DEF TypeOK
    <3>3. y = w /\ x.record.commitment = d
      BY <3>1, <3>2, VoteFields
    <3>4. d \in Attested(w)
      BY <3>2, <3>3 DEF Attested
    <3>5. Consistent(w, c)
      BY DEF Attest
    <3>. QED  BY <3>1, <3>3, <3>4, <3>5 DEF Consistent
  <2>3. Vote(w, c).record.witness = w /\ Vote(w, c).record.commitment = c
    BY VoteFields
  <2>4. CASE u \in votes /\ v \in votes
    BY <2>1, <2>4 DEF Kept
  <2>5. CASE u = Vote(w, c) \/ v = Vote(w, c)
    BY <1>1, <2>1, <2>2, <2>3, <2>5
  <2>. QED  BY <1>1, <2>4, <2>5
<1>5. AcceptedHasQuorum'
  <2>1. SUFFICES ASSUME NEW r \in Accepted'
                 PROVE  /\ Cardinality(Signatories(r.decision.result.commitment)') >= Pinned.threshold
                        /\ r.certificates # {} /\ r.certificates \subseteq Issued(Signer)'
    BY DEF AcceptedHasQuorum
  <2>2. r \in Accepted
    BY <1>1 DEF Accepted, Published
  <2>. DEFINE C == r.decision.result.commitment
  <2>3. Cardinality(Signatories(C)) >= Pinned.threshold /\ r.certificates # {}
        /\ r.certificates \subseteq Issued(Signer)
    BY <2>2 DEF AcceptedHasQuorum
  <2>4. Signatories(C) \subseteq Signatories(C)'
    BY <1>1 DEF Signatories
  <2>5. IsFiniteSet(Signatories(C)')
    BY PinnedFinite, FS_Subset DEF Signatories
  <2>6. /\ Cardinality(Signatories(C)) \in Nat /\ Cardinality(Signatories(C)') \in Nat
        /\ Cardinality(Signatories(C)) <= Cardinality(Signatories(C)')
    BY <2>4, <2>5, FS_Subset, FS_CardinalityType
  <2>7. Issued(Signer) \subseteq Issued(Signer)'
    BY <1>1, ListsStay
  <2>. QED  BY <2>3, <2>6, <2>7, PinnedFinite
<1>. QED  BY <1>2, <1>3, <1>4, <1>5

LEMMA AuditInv ==
    ASSUME Inv, NEW p \in Paths, Audit(p)
    PROVE  Inv'
<1>. USE DEF Inv
<1>1. PICK bundle \in Bundles, certificates \in Certificates :
         /\ Decide(bundle, certificates) # Refused
         /\ receipts' = [receipts EXCEPT ![p] =
               {AuditReceipt(Decide(bundle, certificates), bundle, certificates)}]
  BY DEF Audit, Signable
<1>. DEFINE new == AuditReceipt(Decide(bundle, certificates), bundle, certificates)
<1>2. votes' = votes
  BY DEF Audit
<1>3. TypeOK'
  <2>1. DOMAIN receipts' = Paths
    BY <1>1 DEF TypeOK
  <2>2. \A q \in Paths : Cardinality(receipts'[q]) <= 1
    BY <1>1, FS_Singleton DEF TypeOK
  <2>. QED  BY <1>2, <2>1, <2>2 DEF TypeOK
<1>4. Kept' /\ IsFiniteSet(votes)'
  BY <1>2 DEF Kept
<1>5. AcceptedHasQuorum'
  <2>1. SUFFICES ASSUME NEW r \in Accepted'
                 PROVE  /\ Cardinality(Signatories(r.decision.result.commitment)') >= Pinned.threshold
                        /\ r.certificates # {} /\ r.certificates \subseteq Issued(Signer)'
    BY DEF AcceptedHasQuorum
  <2>2. Issued(Signer)' = Issued(Signer)
    BY <1>2 DEF Issued, Listings, Orders, Corrupted, Mispaired, Edited
  <2>3. Signatories(r.decision.result.commitment)' = Signatories(r.decision.result.commitment)
    BY <1>2 DEF Signatories
  <2>4. r \in Accepted \/ r = new
    BY <1>1 DEF Accepted, Published, TypeOK
  <2>5. CASE r \in Accepted
    BY <2>2, <2>3, <2>5 DEF AcceptedHasQuorum
  <2>6. CASE r = new
    <3>1. /\ r.decision = Decide(bundle, certificates) /\ r.certificates = certificates
      BY <2>6 DEF AuditReceipt
    <3>2. r.decision.state = "ACCEPTED"
      BY <2>1 DEF Accepted
    <3>. QED  BY <1>1, <2>2, <2>3, <3>1, <3>2, AcceptedDecision
  <2>. QED  BY <2>4, <2>5, <2>6
<1>. QED  BY <1>3, <1>4, <1>5

LEMMA InvStutters == Inv /\ UNCHANGED vars => Inv'
<1>. SUFFICES ASSUME Inv, UNCHANGED vars PROVE Inv'
  OBVIOUS
<1>1. votes' = votes /\ receipts' = receipts
  BY DEF vars
<1>2. TypeOK' /\ IsFiniteSet(votes)' /\ Kept'
  BY <1>1 DEF Inv, TypeOK, Kept
<1>3. Issued(Signer)' = Issued(Signer)
  BY <1>1 DEF Issued, Listings, Orders, Corrupted, Mispaired, Edited
<1>4. AcceptedHasQuorum'
  BY <1>1, <1>3 DEF Inv, AcceptedHasQuorum, Accepted, Published, Signatories
<1>. QED  BY <1>2, <1>4 DEF Inv

LEMMA Invariance == Spec => []Inv
<1>1. Inv /\ [Next]_vars => Inv'
  BY AttestInv, AuditInv, InvStutters DEF Next
<1>. QED  BY <1>1, InitInv, PTL DEF Spec

\* The receipts and the votes always have their types.
THEOREM TypeCorrect == Spec => []TypeOK
BY Invariance, PTL DEF Inv

\* Whatever publishers, certifiers and transports do, an accepted checkpoint was
\* signed by a quorum of the pinned witnesses and certified by the trusted signer
\* (evaluate_witness_quorum, QuorumCertificateVerifier, evaluate_transparency).
THEOREM AcceptedQuorum == Spec => []AcceptedHasQuorum
BY Invariance, PTL DEF Inv

\* Two quorums overlap in 2 * threshold - n witnesses, and only an equivocator
\* signs two commitments of a scope (WitnessQuorumPolicy's threshold).
LEMMA OverlapEquivocates == Inv => DivergenceIsEquivocation
<1>. SUFFICES ASSUME Inv, NEW r \in Accepted, NEW s \in Accepted,
                     r.decision.result.commitment.scope = s.decision.result.commitment.scope,
                     r.decision.result.commitment # s.decision.result.commitment
              PROVE  Cardinality(Signatories(r.decision.result.commitment)
                                 \cap Signatories(s.decision.result.commitment) \cap Equivocators)
                       >= 2 * Pinned.threshold - Cardinality(Members(Pinned))
  BY DEF DivergenceIsEquivocation
<1>. DEFINE c == r.decision.result.commitment
            d == s.decision.result.commitment
            A == Signatories(c)
            B == Signatories(d)
<1>1. A \cap B \subseteq Equivocators
  <2>1. SUFFICES ASSUME NEW w \in A, w \in B, w \notin Equivocators PROVE FALSE
    OBVIOUS
  <2>2. Vote(w, c) \in votes /\ Vote(w, d) \in votes
    BY <2>1 DEF Signatories
  <2>. QED  BY <2>1, <2>2, VoteFields DEF Inv, Kept
<1>2. A \cap B \cap Equivocators = A \cap B
  BY <1>1
<1>3. /\ A \subseteq Members(Pinned) /\ B \subseteq Members(Pinned)
      /\ (A \cup B) \subseteq Members(Pinned)
  BY DEF Signatories
<1>4. /\ IsFiniteSet(A) /\ IsFiniteSet(B)
      /\ Cardinality(A \cup B) <= Cardinality(Members(Pinned))
  BY <1>3, PinnedFinite, FS_Subset
<1>5. Cardinality(A \cup B) = Cardinality(A) + Cardinality(B) - Cardinality(A \cap B)
  BY <1>4, FS_Union
<1>6. /\ Cardinality(A) \in Nat /\ Cardinality(B) \in Nat /\ Cardinality(A \cap B) \in Nat
      /\ Cardinality(A \cup B) \in Nat
  BY <1>4, FS_CardinalityType, FS_Intersection, FS_Union
<1>7. Cardinality(A) >= Pinned.threshold /\ Cardinality(B) >= Pinned.threshold
  BY DEF Inv, AcceptedHasQuorum
<1>8. Cardinality(A \cap B) >= 2 * Pinned.threshold - Cardinality(Members(Pinned))
  BY <1>4, <1>5, <1>6, <1>7, PinnedFinite
<1>. QED  BY <1>2, <1>8

\* With a majority threshold no two auditors accept different histories unless a
\* witness equivocated.
THEOREM DivergenceCosts == Spec => []DivergenceIsEquivocation
BY Invariance, OverlapEquivocates, PTL

\* An audit receipt, once published at a path, is never replaced
\* (sign_transparency_audit_receipt.py, os.link of the finished file).
THEOREM Finality == Spec => ReceiptsAreFinal
<1>1. Inv /\ [Next]_vars => \A p \in Paths : receipts[p] # {} => receipts'[p] = receipts[p]
  <2>. SUFFICES ASSUME Inv, [Next]_vars, NEW p \in Paths, receipts[p] # {}
                PROVE  receipts'[p] = receipts[p]
    OBVIOUS
  <2>1. CASE \E w \in Members(Pinned), c \in Commitments : Attest(w, c)
    BY <2>1 DEF Attest
  <2>2. ASSUME NEW q \in Paths, Audit(q)
        PROVE  receipts'[p] = receipts[p]
    <3>1. q # p
      BY <2>2 DEF Audit, Linkable
    <3>2. PICK value : receipts' = [receipts EXCEPT ![q] = value]
      BY <2>2 DEF Audit
    <3>. QED  BY <3>1, <3>2 DEF Inv, TypeOK
  <2>3. CASE UNCHANGED vars
    BY <2>3 DEF vars
  <2>. QED  BY <2>1, <2>2, <2>3 DEF Next
<1>. QED  BY <1>1, Invariance, PTL DEF Spec, ReceiptsAreFinal

-----------------------------------------------------------------------------
(* The evaluation is of the set of votes.                                    *)

\* The commitments the votes of a list are for.
Cast(list) == {Commitment(list[i]) : i \in DOMAIN list}

\* The vote kept of a witness is one of its votes.
LEMMA FirstVote ==
    ASSUME NEW list, NEW n \in Nat, DOMAIN list = 1..n, NEW w \in Voters(list)
    PROVE  \E i \in DOMAIN list : First(list, w) = list[i] /\ Voter(list[i]) = w
<1>. DEFINE R == OpToRel(<, Nat)
            cast == {i \in DOMAIN list : Voter(list[i]) = w}
<1>1. cast # {} /\ cast \subseteq Nat
  BY DEF Voters
<1>2. IsWellFoundedOn(R, Nat)
  BY NatLessThanWellFounded
<1>3. \A x, y \in Nat : x < y => <<x, y>> \in R
  BY DEF OpToRel
<1>. HIDE DEF R
<1>4. PICK i \in cast : \A j \in cast : ~ (<<j, i>> \in R)
  BY <1>1, <1>2, WFMin
<1>5. \A j \in 1 .. i - 1 : Voter(list[j]) # w
  <2>. SUFFICES ASSUME NEW j \in 1 .. i - 1, Voter(list[j]) = w PROVE FALSE
    OBVIOUS
  <2>1. j \in cast /\ j \in Nat /\ i \in Nat /\ j < i
    OBVIOUS
  <2>. QED  BY <1>3, <1>4, <2>1
<1>. DEFINE P(k) == Voter(list[k]) = w /\ \A j \in 1 .. k - 1 : Voter(list[j]) # w
<1>6. i \in DOMAIN list /\ P(i)
  BY <1>5
<1>7. First(list, w) = list[CHOOSE k \in DOMAIN list : P(k)]
  BY DEF First
<1>. DEFINE k == CHOOSE k \in DOMAIN list : P(k)
<1>8. k \in DOMAIN list /\ P(k)
  BY <1>6
<1>. QED  BY <1>7, <1>8

\* Of votes for different commitments all are reported as conflicting, of others none.
LEMMA ConflictsAreCast ==
    ASSUME NEW list, NEW n \in Nat, DOMAIN list = 1..n
    PROVE  Conflicts(list) = IF \E c, d \in Cast(list) : c # d THEN Cast(list) ELSE {}
<1>. DEFINE kept == {Commitment(First(list, w)) : w \in Voters(list)}
            changed == {i \in DOMAIN list : Commitment(list[i]) # Commitment(First(list, Voter(list[i])))}
            later == {Commitment(list[i]) : i \in changed}
            earlier == {Commitment(First(list, Voter(list[i]))) : i \in changed}
            differ == IF \E c, d \in kept : c # d THEN kept ELSE {}
<1>1. Conflicts(list) = differ \cup later \cup earlier
  BY DEF Conflicts
<1>2. kept \subseteq Cast(list) /\ later \subseteq Cast(list) /\ earlier \subseteq kept
  <2>1. kept \subseteq Cast(list)
    BY FirstVote DEF Cast
  <2>2. later \subseteq Cast(list)
    BY DEF Cast
  <2>3. earlier \subseteq kept
    BY DEF Voters
  <2>. QED  BY <2>1, <2>2, <2>3
<1>3. \A c \in Cast(list) : c \in kept \/ c \in later
  <2>. SUFFICES ASSUME NEW i \in DOMAIN list
                PROVE  Commitment(list[i]) \in kept \/ Commitment(list[i]) \in later
    BY DEF Cast
  <2>1. CASE i \in changed
    BY <2>1
  <2>2. CASE i \notin changed
    <3>1. Commitment(list[i]) = Commitment(First(list, Voter(list[i])))
      BY <2>2
    <3>. QED  BY <3>1 DEF Voters
  <2>. QED  BY <2>1, <2>2
<1>4. later # {} => \E c \in later : \E d \in earlier : c # d
  <2>. SUFFICES ASSUME NEW i \in changed
                PROVE  \E c \in later : \E d \in earlier : c # d
    OBVIOUS
  <2>. QED  OBVIOUS
<1>5. earlier # {} => later # {}
  OBVIOUS
<1>6. \A c, d \in kept : differ = {} => c = d
  OBVIOUS
<1>. DEFINE other == \E c, d \in Cast(list) : c # d
<1>7. ASSUME ~ other PROVE Conflicts(list) = {}
  BY <1>1, <1>2, <1>4, <1>5, <1>7
<1>8. ASSUME other PROVE Conflicts(list) = Cast(list)
  <2>1. CASE later = {}
    <3>1. kept = Cast(list)
      BY <1>2, <1>3, <2>1
    <3>. QED  BY <1>1, <1>2, <1>8, <2>1, <3>1
  <2>2. CASE later # {}
    <3>1. PICK i \in changed : TRUE
      BY <2>2
    <3>2. \A c \in kept : c \in differ \/ c \in earlier
      <4>. SUFFICES ASSUME NEW c \in kept, c \notin differ
                    PROVE  c \in earlier
        OBVIOUS
      <4>1. \A d \in kept : d = c
        OBVIOUS
      <4>2. PICK d \in earlier : TRUE
        BY <3>1
      <4>. QED  BY <1>2, <4>1, <4>2
    <3>. HIDE DEF kept, later, earlier, differ, changed
    <3>3. differ \subseteq kept
      BY DEF differ
    <3>. QED  BY <1>1, <1>2, <1>3, <3>2, <3>3
  <2>. QED  BY <2>1, <2>2
<1>. QED  BY <1>7, <1>8

\* What evaluate_witness_quorum answers of votes that were cast.
LEMMA EvaluationOfVotes ==
    ASSUME TypeOK, NEW list \in Seq(votes), list # << >>
    PROVE  LET c == Commitment(list[1])
               result == Evaluate(list, Pinned, Pinned)
           IN  /\ c \in Cast(list)
               /\ (\E x, y \in Cast(list) : x.scope # y.scope) => result = Refused
               /\ (\A x, y \in Cast(list) : x.scope = y.scope) =>
                    /\ (\E x, y \in Cast(list) : x # y) =>
                         result = Result("SPLIT_VIEW", Pinned,
                                         [scope |-> c.scope, digest |-> NoDigest],
                                         Voters(list), Cast(list))
                    /\ (\A x, y \in Cast(list) : x = y) =>
                         result = Result(IF QuorumMet(list, Pinned) THEN "QUORUM" ELSE "INSUFFICIENT",
                                         Pinned, c, Voters(list), {})
<1>. DEFINE c == Commitment(list[1])
<1>1. /\ Len(list) \in Nat /\ DOMAIN list = 1..Len(list) /\ 1 \in DOMAIN list
      /\ \A i \in DOMAIN list : list[i] \in votes
  OBVIOUS
<1>2. c \in Cast(list)
  BY <1>1 DEF Cast
<1>3. \A i \in DOMAIN list :
         /\ Voter(list[i]) \in Members(Pinned)
         /\ ReceiptVerifies(list[i].receipt, list[i].record, Pinned.keys[Voter(list[i])])
         /\ Commitment(list[i]) \in Commitments
  <2>. TAKE i \in DOMAIN list
  <2>1. PICK w \in Members(Pinned), d \in Commitments : list[i] = Vote(w, d)
    BY <1>1 DEF TypeOK
  <2>2. Voter(list[i]) = w /\ Commitment(list[i]) = d
    BY <2>1, VoteNames
  <2>3. ReceiptVerifies(Vote(w, d).receipt, Vote(w, d).record, Pinned.keys[w])
    BY DEF Vote, ReceiptVerifies, Intact, SignReceipt, Record
  <2>. QED  BY <2>1, <2>2, <2>3
<1>4. Admissible(list, Pinned) <=> \A x \in Cast(list) : x.scope = c.scope
  BY <1>3 DEF Admissible, Cast
<1>5. Conflicts(list) = IF \E x, y \in Cast(list) : x # y THEN Cast(list) ELSE {}
  BY <1>1, ConflictsAreCast
<1>6. [c EXCEPT !.digest = NoDigest] = [scope |-> c.scope, digest |-> NoDigest]
  <2>1. c \in Commitments
    BY <1>1, <1>3
  <2>. QED  BY <2>1, CommitmentsAssumption
<1>. HIDE DEF c
<1>7. Evaluate(list, Pinned, Pinned) =
        IF ~ Admissible(list, Pinned) THEN Refused
        ELSE IF Conflicts(list) # {}
        THEN Result("SPLIT_VIEW", Pinned, [c EXCEPT !.digest = NoDigest],
                    Voters(list), Conflicts(list))
        ELSE Result(IF QuorumMet(list, Pinned) THEN "QUORUM" ELSE "INSUFFICIENT",
                    Pinned, c, Voters(list), {})
  BY DEF Evaluate, c
<1>8. ASSUME \E x, y \in Cast(list) : x.scope # y.scope
      PROVE  Evaluate(list, Pinned, Pinned) = Refused
  BY <1>4, <1>7, <1>8
<1>9. ASSUME \A x, y \in Cast(list) : x.scope = y.scope, \E x, y \in Cast(list) : x # y
      PROVE  Evaluate(list, Pinned, Pinned) =
               Result("SPLIT_VIEW", Pinned, [scope |-> c.scope, digest |-> NoDigest],
                      Voters(list), Cast(list))
  BY <1>2, <1>4, <1>5, <1>6, <1>7, <1>9 DEF c
<1>10. ASSUME \A x, y \in Cast(list) : x.scope = y.scope, \A x, y \in Cast(list) : x = y
       PROVE  Evaluate(list, Pinned, Pinned) =
                Result(IF QuorumMet(list, Pinned) THEN "QUORUM" ELSE "INSUFFICIENT",
                       Pinned, c, Voters(list), {})
  BY <1>2, <1>4, <1>5, <1>7, <1>10 DEF c
<1>. QED  BY <1>2, <1>8, <1>9, <1>10 DEF c

LEMMA EvaluationOfNone ==
    Evaluate(<< >>, Pinned, Pinned) = Result("INSUFFICIENT", Pinned, Unscoped, {}, {})
BY DEF Evaluate, Admissible

\* Lists of the same votes are evaluated alike.
LEMMA SameVotes ==
    ASSUME TypeOK, NEW a \in Seq(votes), NEW b \in Seq(votes), Range(a) = Range(b)
    PROVE  Evaluate(a, Pinned, Pinned) = Evaluate(b, Pinned, Pinned)
<1>1. ASSUME NEW list \in Seq(votes)
      PROVE  /\ Cast(list) = {Commitment(v) : v \in Range(list)}
             /\ Voters(list) = {Voter(v) : v \in Range(list)}
             /\ list = << >> <=> Range(list) = {}
  <2>1. Cast(list) = {Commitment(v) : v \in Range(list)}
    BY DEF Cast, Range
  <2>2. Voters(list) = {Voter(v) : v \in Range(list)}
    BY DEF Voters, Range
  <2>3. list = << >> <=> DOMAIN list = {}
    OBVIOUS
  <2>4. DOMAIN list = {} <=> Range(list) = {}
    BY DEF Range
  <2>. QED  BY <2>1, <2>2, <2>3, <2>4
<1>2. Cast(a) = Cast(b) /\ Voters(a) = Voters(b) /\ (a = << >> <=> b = << >>)
  <2>. DEFINE C(V) == {Commitment(v) : v \in V}
              W(V) == {Voter(v) : v \in V}
  <2>1. /\ Cast(a) = C(Range(a)) /\ Voters(a) = W(Range(a)) /\ (a = << >> <=> Range(a) = {})
        /\ Cast(b) = C(Range(b)) /\ Voters(b) = W(Range(b)) /\ (b = << >> <=> Range(b) = {})
    BY <1>1
  <2>. HIDE DEF C, W
  <2>. QED  BY <2>1
<1>3. CASE a = << >>
  BY <1>2, <1>3
<1>4. CASE a # << >>
  <2>. DEFINE c == Commitment(a[1])
              d == Commitment(b[1])
  <2>1. QuorumMet(a, Pinned) <=> QuorumMet(b, Pinned)
    BY <1>2 DEF QuorumMet
  <2>2. c \in Cast(a) /\ d \in Cast(a)
    BY <1>2, <1>4, EvaluationOfVotes
  <2>. HIDE DEF c, d
  <2>3. CASE \E x, y \in Cast(a) : x.scope # y.scope
    BY <1>2, <1>4, <2>3, EvaluationOfVotes
  <2>4. CASE /\ \A x, y \in Cast(a) : x.scope = y.scope
             /\ \E x, y \in Cast(a) : x # y
    <3>1. c.scope = d.scope
      BY <2>2, <2>4
    <3>2. Evaluate(a, Pinned, Pinned) = Result("SPLIT_VIEW", Pinned,
             [scope |-> c.scope, digest |-> NoDigest], Voters(a), Cast(a))
      BY <1>4, <2>4, EvaluationOfVotes DEF c
    <3>3. Evaluate(b, Pinned, Pinned) = Result("SPLIT_VIEW", Pinned,
             [scope |-> d.scope, digest |-> NoDigest], Voters(b), Cast(b))
      BY <1>2, <1>4, <2>4, EvaluationOfVotes DEF d
    <3>. QED  BY <1>2, <3>1, <3>2, <3>3
  <2>5. CASE \A x, y \in Cast(a) : x = y
    <3>1. c = d /\ \A x, y \in Cast(a) : x.scope = y.scope
      BY <2>2, <2>5
    <3>2. Evaluate(a, Pinned, Pinned) =
             Result(IF QuorumMet(a, Pinned) THEN "QUORUM" ELSE "INSUFFICIENT", Pinned,
                    c, Voters(a), {})
      BY <1>4, <2>5, <3>1, EvaluationOfVotes DEF c
    <3>3. Evaluate(b, Pinned, Pinned) =
             Result(IF QuorumMet(b, Pinned) THEN "QUORUM" ELSE "INSUFFICIENT", Pinned,
                    d, Voters(b), {})
      BY <1>2, <1>4, <2>5, <3>1, EvaluationOfVotes DEF d
    <3>. QED  BY <1>2, <2>1, <3>1, <3>2, <3>3
  <2>. QED  BY <2>3, <2>4, <2>5
<1>. QED  BY <1>3, <1>4

\* A listing names each vote of a set once, whatever the order.
LEMMA OrderedVotes ==
    ASSUME NEW V, IsFiniteSet(V), NEW list \in SetToSeqs(V)
    PROVE  list \in Seq(V) /\ Range(list) = V
<1>. DEFINE n == Cardinality(V)
<1>1. n \in Nat
  BY FS_CardinalityType
<1>2. list \in [1..n -> V] /\ \A i, j \in 1..n : i # j => list[i] # list[j]
  BY DEF SetToSeqs
<1>3. IsFiniteSet(1..n) /\ Cardinality(1..n) = n
  BY <1>1, FS_Interval
<1>4. list \in Injection(1..n, V)
  BY <1>2 DEF Injection, IsInjective
<1>5. list \in Surjection(1..n, V)
  BY <1>3, <1>4, FS_Injection
<1>6. Range(list) = V
  BY <1>2, <1>5 DEF Surjection, Range
<1>. QED  BY <1>1, <1>2, <1>6

LEMMA VotersAreFew ==
    ASSUME TypeOK, NEW list \in Seq(votes)
    PROVE  /\ Voters(list) \subseteq Members(Pinned) /\ IsFiniteSet(Voters(list))
           /\ Cardinality(Voters(list)) \in Nat
<1>1. \A v \in votes : Voter(v) \in Members(Pinned)
  <2>. TAKE v \in votes
  <2>1. PICK w \in Members(Pinned), d \in Commitments : v = Vote(w, d)
    BY DEF TypeOK
  <2>. QED  BY <2>1, VoteNames
<1>2. Voters(list) \subseteq Members(Pinned)
  BY <1>1 DEF Voters
<1>. QED  BY <1>2, PinnedFinite, FS_Subset, FS_CardinalityType

Several(S) == \E x, y \in S : x # y

LEMMA CountsDistinct ==
    ASSUME NEW T, NEW n \in Nat, NEW f \in [1..n -> T]
    PROVE  /\ Cardinality(Range(f)) \in Nat
           /\ Cardinality(Range(f)) > 1 <=> Several(Range(f))
<1>. DEFINE S == Range(f)
<1>1. f \in Surjection(1..n, S)
  BY DEF Surjection, Range
<1>. HIDE DEF S
<1>2. IsFiniteSet(1..n)
  BY FS_Interval
<1>3. IsFiniteSet(S) /\ Cardinality(S) \in Nat
  BY <1>1, <1>2, FS_Surjection, FS_CardinalityType
<1>4. CASE Several(S)
  <2>1. Cardinality(S) # 0 /\ Cardinality(S) # 1
    BY <1>3, <1>4, FS_EmptySet, FS_Singleton DEF Several
  <2>. QED  BY <1>3, <1>4, <2>1 DEF S
<1>5. CASE ~ Several(S)
  <2>1. CASE S = {}
    BY <1>3, <1>5, <2>1, FS_EmptySet DEF S
  <2>2. CASE S # {}
    <3>1. PICK x \in S : S = {x}
      BY <1>5, <2>2 DEF Several
    <3>2. Cardinality(S) = 1
      BY <3>1, FS_Singleton
    <3>. QED  BY <1>3, <1>5, <3>2 DEF S
  <2>. QED  BY <2>1, <2>2
<1>. QED  BY <1>4, <1>5

\* The state of an evaluation is the reference's.
LEMMA ReferenceState ==
    ASSUME TypeOK, NEW list \in Seq(votes)
    PROVE  Evaluate(list, Pinned, Pinned).state = Reference(list)
<1>. DEFINE signed == Cast(list)
            scopes == {c.scope : c \in signed}
<1>1. Len(list) \in Nat /\ DOMAIN list = 1..Len(list)
  OBVIOUS
<1>2. Cardinality(signed) > 1 <=> \E c, d \in signed : c # d
  <2>. DEFINE f == [i \in 1..Len(list) |-> Commitment(list[i])]
  <2>1. f \in [1..Len(list) -> signed]
    BY <1>1 DEF Cast
  <2>2. signed = Range(f)
    BY <1>1 DEF Cast, Range
  <2>. HIDE DEF f, signed
  <2>3. Cardinality(Range(f)) > 1 <=> Several(Range(f))
    BY <1>1, <2>1, CountsDistinct
  <2>. QED  BY <2>2, <2>3 DEF Several
<1>3. Cardinality(scopes) > 1 <=> \E c, d \in signed : c.scope # d.scope
  <2>. DEFINE f == [i \in 1..Len(list) |-> Commitment(list[i]).scope]
  <2>1. f \in [1..Len(list) -> scopes]
    BY <1>1 DEF Cast
  <2>2. scopes = Range(f)
    BY <1>1 DEF Cast, Range
  <2>3. Cardinality(scopes) > 1 <=> \E x, y \in scopes : x # y
    <3>. HIDE DEF f, scopes
    <3>1. Cardinality(Range(f)) > 1 <=> Several(Range(f))
      BY <1>1, <2>1, CountsDistinct
    <3>. QED  BY <2>2, <3>1 DEF Several
  <2>. HIDE DEF signed
  <2>4. (\E x, y \in scopes : x # y) <=> \E c, d \in signed : c.scope # d.scope
    OBVIOUS
  <2>. HIDE DEF scopes
  <2>. QED  BY <2>3, <2>4
<1>4. Reference(list) =
        IF \E c, d \in signed : c.scope # d.scope THEN "REFUSED"
        ELSE IF \E c, d \in signed : c # d THEN "SPLIT_VIEW"
        ELSE IF QuorumMet(list, Pinned) THEN "QUORUM" ELSE "INSUFFICIENT"
  BY <1>2, <1>3 DEF Reference, Cast, QuorumMet
<1>5. CASE list = << >>
  <2>1. signed = {} /\ Voters(list) = {}
    BY <1>5 DEF Cast, Voters
  <2>2. ~ QuorumMet(list, Pinned)
    BY <2>1, FS_EmptySet, PolicyAssumption DEF QuorumMet, PolicyOK
  <2>. QED  BY <1>4, <1>5, <2>1, <2>2, EvaluationOfNone DEF Result
<1>6. CASE list # << >>
  <2>. HIDE DEF signed
  <2>1. CASE \E c, d \in signed : c.scope # d.scope
    <3>1. Evaluate(list, Pinned, Pinned) = Refused
      BY <1>6, <2>1, EvaluationOfVotes DEF signed
    <3>2. Reference(list) = "REFUSED"
      BY <1>4, <2>1
    <3>. QED  BY <3>1, <3>2 DEF Refused
  <2>2. CASE (\A c, d \in signed : c.scope = d.scope) /\ \E c, d \in signed : c # d
    BY <1>4, <1>6, <2>2, EvaluationOfVotes DEF Result, signed
  <2>3. CASE \A c, d \in signed : c = d
    <3>1. \A c, d \in signed : c.scope = d.scope
      BY <2>3
    <3>. QED  BY <1>4, <1>6, <2>3, <3>1, EvaluationOfVotes DEF Result, signed
  <2>. QED  BY <2>1, <2>2, <2>3
<1>. QED  BY <1>5, <1>6

LEMMA OrderDoesNotMatter == TypeOK /\ IsFiniteSet(votes) => OrderIsIrrelevant
<1>. SUFFICES ASSUME TypeOK, IsFiniteSet(votes), NEW list \in Orders(MaxVotes + 1)
              PROVE  /\ Evaluate(list, Pinned, Pinned).state = Reference(list)
                     /\ \A other \in SetToSeqs(Range(list)) \cup Repetitions(list) :
                           Evaluate(other, Pinned, Pinned) = Evaluate(list, Pinned, Pinned)
  BY DEF OrderIsIrrelevant
<1>1. PICK V \in SUBSET votes : list \in SetToSeqs(V)
  BY DEF Orders
<1>2. IsFiniteSet(V)
  BY FS_Subset
<1>3. list \in Seq(V) /\ Range(list) = V
  BY <1>1, <1>2, OrderedVotes
<1>4. list \in Seq(votes)
  BY <1>3
<1>5. ASSUME NEW other \in SetToSeqs(Range(list))
      PROVE  other \in Seq(votes) /\ Range(other) = Range(list)
  <2>1. other \in Seq(V) /\ Range(other) = V
    BY <1>2, <1>3, OrderedVotes
  <2>. QED  BY <1>3, <2>1
<1>6. ASSUME NEW other \in Repetitions(list)
      PROVE  other \in Seq(votes) /\ Range(other) = Range(list)
  <2>1. PICK i \in DOMAIN list : other = Append(list, list[i]) \/ other = <<list[i]>> \o list
    BY DEF Repetitions
  <2>2. i \in 1..Len(list) /\ list[i] \in votes /\ Len(list) \in Nat /\ DOMAIN list = 1..Len(list)
    BY <1>4
  <2>3. CASE other = Append(list, list[i])
    <3>1. /\ other \in Seq(votes) /\ DOMAIN other = 1..Len(list) + 1
          /\ \A j \in 1..Len(list) : other[j] = list[j]
          /\ other[Len(list) + 1] = list[i]
      BY <1>4, <2>2, <2>3
    <3>2. Range(list) \subseteq Range(other)
      BY <2>2, <3>1 DEF Range
    <3>3. \A j \in DOMAIN other : other[j] \in Range(list)
      BY <2>2, <3>1 DEF Range
    <3>. QED  BY <3>1, <3>2, <3>3 DEF Range
  <2>4. CASE other = <<list[i]>> \o list
    <3>1. /\ other \in Seq(votes) /\ DOMAIN other = 1..Len(list) + 1
          /\ \A j \in 1..Len(list) : other[j + 1] = list[j]
          /\ other[1] = list[i]
      BY <1>4, <2>2, <2>4
    <3>2. Range(list) \subseteq Range(other)
      BY <2>2, <3>1 DEF Range
    <3>3. \A j \in DOMAIN other : j = 1 \/ (j - 1 \in 1..Len(list) /\ other[j] = list[j - 1])
      BY <2>2, <3>1
    <3>4. \A j \in DOMAIN other : other[j] \in Range(list)
      BY <2>2, <3>1, <3>3 DEF Range
    <3>. QED  BY <3>1, <3>2, <3>4 DEF Range
  <2>. QED  BY <2>1, <2>3, <2>4
<1>7. ASSUME NEW other \in SetToSeqs(Range(list)) \cup Repetitions(list)
      PROVE  Evaluate(other, Pinned, Pinned) = Evaluate(list, Pinned, Pinned)
  BY <1>4, <1>5, <1>6, SameVotes
<1>. QED  BY <1>4, <1>7, ReferenceState

\* What an evaluation that is not refused reports.
LEMMA Reported ==
    ASSUME TypeOK, NEW list \in Seq(votes), Evaluate(list, Pinned, Pinned) # Refused
    PROVE  LET result == Evaluate(list, Pinned, Pinned)
           IN  /\ result.counted = Voters(list)
               /\ result.conflicts = IF Several(Cast(list)) THEN Cast(list) ELSE {}
               /\ result.state = "SPLIT_VIEW" <=> Several(Cast(list))
               /\ result.state = "QUORUM" <=> ~ Several(Cast(list)) /\ QuorumMet(list, Pinned)
               /\ list # << >> /\ ~ Several(Cast(list)) => result.commitment = Commitment(list[1])
<1>. DEFINE result == Evaluate(list, Pinned, Pinned)
<1>1. CASE list = << >>
  <2>1. Cast(list) = {} /\ Voters(list) = {}
    BY <1>1 DEF Cast, Voters
  <2>2. ~ QuorumMet(list, Pinned)
    BY <2>1, FS_EmptySet, PolicyAssumption DEF QuorumMet, PolicyOK
  <2>3. result = Result("INSUFFICIENT", Pinned, Unscoped, {}, {})
    BY <1>1, EvaluationOfNone
  <2>. HIDE DEF result
  <2>4. result.counted = {} /\ result.conflicts = {} /\ result.state = "INSUFFICIENT"
    BY <2>3 DEF Result
  <2>5. ~ Several(Cast(list))
    BY <2>1 DEF Several
  <2>. QED  BY <1>1, <2>1, <2>2, <2>4, <2>5 DEF result
<1>2. CASE list # << >>
  <2>1. \A x, y \in Cast(list) : x.scope = y.scope
    BY <1>2, EvaluationOfVotes
  <2>2. CASE Several(Cast(list))
    <3>1. PICK commitment : result = Result("SPLIT_VIEW", Pinned, commitment, Voters(list), Cast(list))
      BY <1>2, <2>1, <2>2, EvaluationOfVotes DEF Several
    <3>. HIDE DEF result
    <3>2. /\ result.counted = Voters(list) /\ result.conflicts = Cast(list)
          /\ result.state = "SPLIT_VIEW"
      BY <3>1 DEF Result
    <3>. QED  BY <2>2, <3>2 DEF result
  <2>3. CASE ~ Several(Cast(list))
    <3>1. result = Result(IF QuorumMet(list, Pinned) THEN "QUORUM" ELSE "INSUFFICIENT", Pinned,
                          Commitment(list[1]), Voters(list), {})
      BY <1>2, <2>1, <2>3, EvaluationOfVotes DEF Several
    <3>. HIDE DEF result
    <3>2. /\ result.counted = Voters(list) /\ result.conflicts = {}
          /\ result.state = IF QuorumMet(list, Pinned) THEN "QUORUM" ELSE "INSUFFICIENT"
          /\ result.commitment = Commitment(list[1])
      BY <3>1 DEF Result
    <3>. QED  BY <2>3, <3>2 DEF result
  <2>. QED  BY <2>2, <2>3
<1>. QED  BY <1>1, <1>2

LEMMA LateVotesShow == TypeOK /\ IsFiniteSet(votes) => LateVotesNeverHide
<1>. SUFFICES ASSUME TypeOK, IsFiniteSet(votes), NEW list \in Listings, NEW v \in votes,
                     Evaluate(list, Pinned, Pinned) # Refused,
                     Evaluate(Append(list, v), Pinned, Pinned) # Refused
              PROVE  LET old == Evaluate(list, Pinned, Pinned)
                         new == Evaluate(Append(list, v), Pinned, Pinned)
                     IN  /\ old.counted \subseteq new.counted
                         /\ old.conflicts \subseteq new.conflicts
                         /\ old.state = "QUORUM" /\ new.state # "SPLIT_VIEW" =>
                               new.state = "QUORUM" /\ new.commitment = old.commitment
  BY DEF LateVotesNeverHide
<1>. DEFINE more == Append(list, v)
            old == Evaluate(list, Pinned, Pinned)
            new == Evaluate(more, Pinned, Pinned)
<1>1. list \in Seq(votes)
  BY ListingIsSequence
<1>2. /\ more \in Seq(votes) /\ more # << >> /\ DOMAIN list \subseteq DOMAIN more
      /\ \A i \in DOMAIN list : more[i] = list[i]
  BY <1>1
<1>. HIDE DEF more
<1>3. Voters(list) \subseteq Voters(more) /\ Cast(list) \subseteq Cast(more)
  <2>1. Voters(list) \subseteq Voters(more)
    BY <1>2 DEF Voters
  <2>2. Cast(list) \subseteq Cast(more)
    BY <1>2 DEF Cast
  <2>. QED  BY <2>1, <2>2
<1>4. Several(Cast(list)) => Several(Cast(more))
  BY <1>3 DEF Several
<1>5. old.counted \subseteq new.counted /\ old.conflicts \subseteq new.conflicts
  BY <1>1, <1>2, <1>3, <1>4, Reported DEF more
<1>6. ASSUME old.state = "QUORUM", new.state # "SPLIT_VIEW"
      PROVE  new.state = "QUORUM" /\ new.commitment = old.commitment
  <2>1. QuorumMet(list, Pinned) /\ ~ Several(Cast(list)) /\ ~ Several(Cast(more))
    BY <1>1, <1>2, <1>6, Reported DEF more
  <2>2. QuorumMet(more, Pinned)
    <3>1. /\ Cardinality(Voters(list)) \in Nat /\ Cardinality(Voters(more)) \in Nat
          /\ Cardinality(Voters(list)) <= Cardinality(Voters(more))
      BY <1>1, <1>2, <1>3, VotersAreFew, FS_Subset
    <3>. QED  BY <2>1, <3>1, PinnedFinite DEF QuorumMet
  <2>3. list # << >>
    <3>1. ASSUME list = << >> PROVE FALSE
      <4>1. Voters(list) = {}
        BY <3>1 DEF Voters
      <4>. QED  BY <2>1, <4>1, FS_EmptySet, PolicyAssumption DEF QuorumMet, PolicyOK
    <3>. QED  BY <3>1
  <2>4. Commitment(list[1]) \in Cast(list) /\ Commitment(more[1]) \in Cast(more)
    BY <1>1, <1>2, <2>3, EvaluationOfVotes
  <2>5. Commitment(list[1]) = Commitment(more[1])
    BY <1>3, <2>1, <2>4 DEF Several
  <2>6. new.state = "QUORUM"
    BY <1>2, <2>1, <2>2, Reported DEF more
  <2>7. new.commitment = Commitment(more[1])
    BY <1>2, <2>1, Reported DEF more
  <2>8. old.commitment = Commitment(list[1])
    BY <1>1, <2>1, <2>3, Reported
  <2>. QED  BY <2>5, <2>6, <2>7, <2>8
<1>. QED  BY <1>5, <1>6 DEF more

\* An evaluation (evaluate_witness_quorum) is a function of the set of votes, and
\* one that only grows: neither order nor repetition matters, and a later vote
\* never hides a split view or moves a quorum.
THEOREM QuorumsAreOfSets == Spec => []QuorumIsOfTheSet
<1>1. Inv => QuorumIsOfTheSet
  BY OrderDoesNotMatter, LateVotesShow DEF Inv, QuorumIsOfTheSet
<1>. QED  BY <1>1, Invariance, PTL

-----------------------------------------------------------------------------
(* The receipts of the audits.                                               *)

\* What an auditor published verifies against its own artifacts, or is of no votes.
Stands(r) ==
    AuditVerifies(r, Decide(r.bundle, r.certificates), r.bundle, r.certificates)
        <=> r.bundle.votes # << >>

\* The commitment an evaluation reports is of a checkpoint a witness recorded.
LEMMA ReportedCommitment ==
    ASSUME TypeOK, IsFiniteSet(votes), NEW list \in Listings \cup Corrupted,
           Evaluate(list, Pinned, Pinned) # Refused
    PROVE  LET result == Evaluate(list, Pinned, Pinned)
           IN  /\ list = << >> => result.commitment.scope = NoScope /\ result.state = "INSUFFICIENT"
               /\ list # << >> => result.commitment.scope # NoScope
               /\ list # << >> /\ result.state # "SPLIT_VIEW" => result.commitment.digest # NoDigest
               /\ result.state = "QUORUM" => Cardinality(result.counted) >= result.required
               /\ result.state \in {"QUORUM", "INSUFFICIENT", "SPLIT_VIEW"}
<1>. DEFINE result == Evaluate(list, Pinned, Pinned)
<1>1. CASE list = << >>
  <2>1. result = Result("INSUFFICIENT", Pinned, Unscoped, {}, {})
    BY <1>1, EvaluationOfNone
  <2>. HIDE DEF result
  <2>2. result.commitment = Unscoped /\ result.state = "INSUFFICIENT"
    BY <2>1 DEF Result
  <2>3. Unscoped.scope = NoScope
    BY DEF Unscoped
  <2>. QED  BY <1>1, <2>2, <2>3 DEF result
<1>2. CASE list # << >>
  <2>. DEFINE c == Commitment(list[1])
  <2>1. Admissible(list, Pinned) /\ 1 \in DOMAIN list
    BY <1>2, ListIsSequence DEF Evaluate
  <2>2. c \in Commitments
    <3>1. PICK v \in votes : list[1].receipt = v.receipt
      BY <2>1, ListedReceipts
    <3>2. PICK w \in Members(Pinned), d \in Commitments : v = Vote(w, d)
      BY DEF TypeOK
    <3>3. ReceiptVerifies(list[1].receipt, list[1].record, Pinned.keys[Voter(list[1])])
      BY <2>1 DEF Admissible
    <3>4. list[1].receipt.fields = Fields(list[1].record)
      BY <3>3 DEF ReceiptVerifies
    <3>5. list[1].receipt.fields = [witness |-> w, commitment |-> d, hash |-> <<w, d>>]
      BY <3>1, <3>2, VoteFields
    <3>6. list[1].record.commitment = d
      BY <3>4, <3>5 DEF Fields
    <3>. QED  BY <3>6 DEF Commitment
  <2>. HIDE DEF c
  <2>3. c = [scope |-> c.scope, digest |-> c.digest] /\ c.scope # NoScope /\ c.digest # NoDigest
    BY <2>2, CommitmentsAssumption
  <2>4. [c EXCEPT !.digest = NoDigest].scope # NoScope
    BY <2>3
  <2>5. CASE Conflicts(list) # {}
    <3>1. result = Result("SPLIT_VIEW", Pinned, [c EXCEPT !.digest = NoDigest],
                          Voters(list), Conflicts(list))
      BY <1>2, <2>1, <2>5 DEF Evaluate, c
    <3>. HIDE DEF result
    <3>2. result.state = "SPLIT_VIEW" /\ result.commitment = [c EXCEPT !.digest = NoDigest]
      BY <3>1 DEF Result
    <3>. QED  BY <1>2, <2>4, <3>2 DEF result
  <2>6. CASE Conflicts(list) = {}
    <3>1. result = Result(IF QuorumMet(list, Pinned) THEN "QUORUM" ELSE "INSUFFICIENT", Pinned,
                          c, Voters(list), {})
      BY <1>2, <2>1, <2>6 DEF Evaluate, c
    <3>. HIDE DEF result
    <3>2. /\ result.state = IF QuorumMet(list, Pinned) THEN "QUORUM" ELSE "INSUFFICIENT"
          /\ result.commitment = c /\ result.counted = Voters(list)
          /\ result.required = Pinned.threshold
      BY <3>1 DEF Result
    <3>3. result.state = "QUORUM" => Cardinality(result.counted) >= result.required
      BY <3>2 DEF QuorumMet
    <3>. QED  BY <1>2, <2>3, <3>2, <3>3 DEF result
  <2>. QED  BY <2>5, <2>6
<1>. QED  BY <1>1, <1>2

\* What an auditor may sign stands.
LEMMA SignableStands ==
    ASSUME TypeOK, IsFiniteSet(votes), NEW bundle \in Bundles, NEW certificates \in Certificates,
           Signable(Decide(bundle, certificates), certificates)
    PROVE  Stands(AuditReceipt(Decide(bundle, certificates), bundle, certificates))
<1>. DEFINE decision == Decide(bundle, certificates)
            result == Recompute(bundle, Pinned)
            r == AuditReceipt(decision, bundle, certificates)
<1>1. decision # Refused /\ result # Refused
  BY DEF Signable, Decide, Gate
<1>2. PICK list \in Listings \cup Corrupted : \E policy, claimed : bundle = Bundle(policy, list, claimed)
  BY DEF Bundles
<1>3. bundle.votes = list
  BY <1>2 DEF Bundle
<1>4. result = Evaluate(list, bundle.policy, Pinned)
  BY <1>1, <1>3 DEF Recompute
<1>5. result = Evaluate(list, Pinned, Pinned)
  <2>1. bundle.policy = Pinned
    BY <1>1, <1>4 DEF Evaluate
  <2>. QED  BY <1>4, <2>1
<1>. HIDE DEF result
<1>6. /\ list = << >> => result.commitment.scope = NoScope /\ result.state = "INSUFFICIENT"
      /\ list # << >> => result.commitment.scope # NoScope
      /\ list # << >> /\ result.state # "SPLIT_VIEW" => result.commitment.digest # NoDigest
      /\ result.state = "QUORUM" => Cardinality(result.counted) >= result.required
      /\ result.state \in {"QUORUM", "INSUFFICIENT", "SPLIT_VIEW"}
  BY <1>1, <1>5, ReportedCommitment
<1>7. /\ decision.result = result
      /\ decision.state = "REJECTED_SPLIT_VIEW" <=> result.state = "SPLIT_VIEW"
      /\ decision.state = "ACCEPTED" => result.state = "QUORUM" /\ certificates # {}
  <2>1. CASE certificates = {}
    <3>1. decision = Decision(Uncertified[result.state], result, NoSigner)
      BY <1>1, <2>1 DEF Decide, Gate, result
    <3>. HIDE DEF decision
    <3>2. decision.result = result /\ decision.state = Uncertified[result.state]
      BY <3>1 DEF Decision
    <3>. QED  BY <1>6, <3>2 DEF Uncertified, decision
  <2>2. CASE certificates # {}
    <3>1. /\ decision = Decision("ACCEPTED", result, Signer)
          /\ \A c \in certificates : CertificateVerifies(c, result, Signer)
      BY <1>1, <2>2 DEF Decide, Gate, result
    <3>2. result.state = "QUORUM"
      BY <2>2, <3>1 DEF CertificateVerifies
    <3>. HIDE DEF decision
    <3>3. decision.result = result /\ decision.state = "ACCEPTED"
      BY <3>1 DEF Decision
    <3>. QED  BY <2>2, <3>2, <3>3 DEF decision
  <2>. QED  BY <2>1, <2>2
<1>. HIDE DEF decision
<1>8. r.decision = decision /\ r.bundle = bundle /\ r.certificates = certificates
  BY DEF AuditReceipt
<1>. HIDE DEF r
<1>9. Parses(r) <=> list # << >>
  BY <1>6, <1>7, <1>8 DEF Parses
<1>10. AuditVerifies(r, decision, bundle, certificates) <=> list # << >>
  BY <1>1, <1>9 DEF AuditVerifies, r
<1>. QED  BY <1>3, <1>8, <1>10 DEF Stands, r, decision

\* A published receipt is "a portable statement of what an auditor recomputed"
\* (transparency_audit_receipt.py:3), unless the bundle had no votes.
THEOREM PublishedVerifies == Spec => []ReceiptsVerify
<1>. DEFINE Standing == \A r \in Published : Stands(r)
<1>1. Init => Standing
  BY DEF Init, Published
<1>2. Inv /\ Standing /\ [Next]_vars => Standing'
  <2>. SUFFICES ASSUME Inv, Standing, [Next]_vars PROVE Standing'
    OBVIOUS
  <2>1. CASE UNCHANGED receipts
    BY <2>1 DEF Published, Stands, Decide
  <2>2. ASSUME NEW p \in Paths, Audit(p) PROVE Standing'
    <3>1. PICK bundle \in Bundles, certificates \in Certificates :
            /\ Signable(Decide(bundle, certificates), certificates)
            /\ receipts' = [receipts EXCEPT ![p] =
                  {AuditReceipt(Decide(bundle, certificates), bundle, certificates)}]
      BY <2>2 DEF Audit
    <3>. DEFINE new == AuditReceipt(Decide(bundle, certificates), bundle, certificates)
    <3>2. Stands(new)
      BY <3>1, SignableStands DEF Inv
    <3>. HIDE DEF new
    <3>3. \A r \in Published' : r \in Published \/ r = new
      BY <3>1 DEF Published, Inv, TypeOK, new
    <3>4. \A r \in Published' : Stands(r)
      BY <3>2, <3>3
    <3>. QED  BY <3>4 DEF Stands, Decide
  <2>3. CASE UNCHANGED vars
    BY <2>1, <2>3 DEF vars
  <2>. QED  BY <2>1, <2>2, <2>3 DEF Next, Attest
<1>3. Standing => ReceiptsVerify
  BY DEF Stands, ReceiptsVerify
<1>. HIDE DEF Standing
<1>. QED  BY <1>1, <1>2, <1>3, Invariance, PTL DEF Spec
=============================================================================
