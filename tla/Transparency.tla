---------------------------- MODULE Transparency ----------------------------
(***************************************************************************)
(* Witnesses, a certifier, publishers and auditors over WitnessQuorum.  A      *)
(* witness signs a receipt for each checkpoint its ledger recorded: an honest    *)
(* one records one commitment per scope (WitnessHistory), an equivocator any;     *)
(* the checkpoints' owner may show different ones to different witnesses.          *)
(* Publishers bundle the votes they know and claim a result, current or not;        *)
(* auditors run the gate (scripts/audit_transparency.py) on a bundle and publish     *)
(* a receipt create-only (scripts/sign_transparency_audit_receipt.py).                *)
(***************************************************************************)
EXTENDS WitnessQuorum

CONSTANTS Commitments,  \* [scope, digest] of the checkpoints shown to witnesses
          Pinned,       \* the policy the auditors pin
          Policies,     \* the policies certifiers and publishers use
          Equivocators, \* witnesses that do not keep to one history
          Signer,       \* the certificate signer the auditors trust
          Signers,
          Paths,        \* where receipts are published
          MaxSigned,    \* bound on the receipts signed
          MaxVotes      \* bound on the votes of a bundle

ASSUME PolicyAssumption ==
    /\ Pinned \in Policies /\ Signer \in Signers
    /\ \A policy \in Policies : IsFiniteSet(Members(policy)) /\ PolicyOK(policy)

\* A checkpoint is of an operation and an execution and has a digest (CheckpointWitnessRecord).
ASSUME CommitmentsAssumption ==
    \A c \in Commitments : /\ c = [scope |-> c.scope, digest |-> c.digest]
                           /\ c.scope # NoScope /\ c.digest # NoDigest

VARIABLES votes,    \* [receipt, record] of every receipt signed
          receipts  \* path -> {} or the one audit receipt published there

vars == <<votes, receipts>>

Vote(w, c) == [receipt |-> SignReceipt(Record(w, c), Pinned.keys[w]), record |-> Record(w, c)]
Attested(w) == {c \in Commitments : Vote(w, c) \in votes}

Init == votes = {} /\ receipts = [p \in Paths |-> {}]

\* Variant for the mutation checks: a witness records what it is shown.
RecordsAny(w, c) == c \in Commitments

\* What its ledger lets an honest witness record.
Consistent(w, c) == w \in Equivocators \/ \A d \in Attested(w) : d = c \/ d.scope # c.scope

\* WitnessReceiptSigner.sign, for a record of the witness's own ledger.
Attest(w, c) ==
    /\ Cardinality(votes) < MaxSigned
    /\ Consistent(w, c)
    /\ votes' = votes \cup {Vote(w, c)}
    /\ UNCHANGED receipts

\* Lists of at most n of the votes, in every order.
Orders(n) == UNION {SetToSeqs(V) : V \in {V \in SUBSET votes : Cardinality(V) <= n}}
Listings == Orders(MaxVotes)

\* What a careless or broken transport makes of them: a receipt beside another
\* record, or a record that was edited, where it would complete a quorum.
Mispaired == {[receipt |-> u.receipt, record |-> v.record] : u, v \in votes}
Edited == {[v EXCEPT !.record.commitment = c] : v \in votes, c \in Commitments}
Corrupted == {Append(list, bad) : list \in {l \in Listings : Len(l) < Pinned.threshold},
                                  bad \in Mispaired \cup Edited}

\* What signer certifies: the quorum it evaluates from some votes, under the
\* policy it uses.  Votes are only added, so a certificate that could be issued
\* before is of a list that can still be made: those in circulation need no state.
Issued(signer) ==
    LET results == {Evaluate(list, policy, policy) :
                       list \in Listings \cup Corrupted, policy \in Policies} \ {Refused}
    IN  {Certify(result, signer) : result \in {r \in results : Certifiable(r)}}

\* A publisher's bundle: its claim is the result, or the result before the last
\* vote arrived, under the policy it names.
Bundle(policy, list, claimed) ==
    [policy |-> policy, votes |-> list, claim |-> Evaluate(claimed, policy, policy)]

Bundles == {Bundle(policy, list, list) : policy \in Policies, list \in Listings \cup Corrupted}
           \cup {Bundle(Pinned, list, Front(list)) : list \in Listings \ {<< >>}}

Certificates == {{}} \cup {{c} : c \in UNION {Issued(signer) : signer \in Signers}}

Decide(bundle, certificates) == Gate(bundle, Pinned, certificates, Signer)

\* sign(): an accepted decision needs the certificate it was made with.
Signable(decision, certificates) ==
    /\ decision # Refused
    /\ decision.state = "ACCEPTED" => \A c \in certificates : c.signer = decision.signer
    /\ decision.state = "ACCEPTED" => certificates # {}

\* os.link of the finished file: atomic, and refused when the path exists.
Linkable(p) == receipts[p] = {}

Audit(p) ==
    /\ Linkable(p)
    /\ \E bundle \in Bundles, certificates \in Certificates :
          LET decision == Decide(bundle, certificates)
          IN  /\ Signable(decision, certificates)
              /\ receipts' = [receipts EXCEPT ![p] = {AuditReceipt(decision, bundle, certificates)}]
    /\ UNCHANGED votes

Next ==
    \/ \E w \in Members(Pinned), c \in Commitments : Attest(w, c)
    \/ \E p \in Paths : Audit(p)

Spec == Init /\ [][Next]_vars

-----------------------------------------------------------------------------
Published == UNION {receipts[p] : p \in Paths}
Accepted == {r \in Published : r.decision.state = "ACCEPTED"}

TypeOK ==
    /\ votes \subseteq {Vote(w, c) : w \in Members(Pinned), c \in Commitments}
    /\ DOMAIN receipts = Paths
    /\ \A p \in Paths : Cardinality(receipts[p]) <= 1

Signatories(c) == {w \in Members(Pinned) : Vote(w, c) \in votes}

\* What an auditor accepts, enough distinct witnesses of the pinned policy signed
\* (witness_gossip.py:12 "The gossip publisher therefore cannot manufacture
\* quorum by signing a lie"), and the trusted signer certified exactly that.
AcceptedHasQuorum ==
    \A r \in Accepted :
        /\ Cardinality(Signatories(r.decision.result.commitment)) >= Pinned.threshold
        /\ r.certificates # {} /\ r.certificates \subseteq Issued(Signer)

\* Two auditors that accept different checkpoints of one version prove
\* 2 * threshold - n witnesses to have signed both: with a majority threshold
\* one history is accepted while the witnesses are honest.
DivergenceIsEquivocation ==
    \A r, s \in Accepted :
        LET c == r.decision.result.commitment
            d == s.decision.result.commitment
        IN  c.scope = d.scope /\ c # d =>
              Cardinality(Signatories(c) \cap Signatories(d) \cap Equivocators)
                 >= 2 * Pinned.threshold - Cardinality(Members(Pinned))

\* evaluate_witness_quorum, which keeps first votes and collects conflicts as it
\* goes, computes a function of the set of votes: neither order nor repetition
\* matters, and a split view is exactly two commitments signed.
Reference(list) ==
    LET signed == {Commitment(list[i]) : i \in DOMAIN list}
    IN  IF Cardinality({c.scope : c \in signed}) > 1 THEN "REFUSED"
        ELSE IF Cardinality(signed) > 1 THEN "SPLIT_VIEW"
        ELSE IF Cardinality(Voters(list)) >= Pinned.threshold THEN "QUORUM" ELSE "INSUFFICIENT"

Repetitions(list) ==
    {Append(list, list[i]) : i \in DOMAIN list} \cup {<<list[i]>> \o list : i \in DOMAIN list}

OrderIsIrrelevant ==
    \A list \in Orders(MaxVotes + 1) :
        LET result == Evaluate(list, Pinned, Pinned)
        IN  /\ result.state = Reference(list)
            /\ \A other \in SetToSeqs(Range(list)) \cup Repetitions(list) :
                  Evaluate(other, Pinned, Pinned) = result

\* A later vote never hides a split view, never removes a witness that counted
\* and never moves a quorum to another checkpoint.
LateVotesNeverHide ==
    \A list \in Listings, v \in votes :
        LET old == Evaluate(list, Pinned, Pinned)
            new == Evaluate(Append(list, v), Pinned, Pinned)
        IN  old # Refused /\ new # Refused =>
              /\ old.counted \subseteq new.counted
              /\ old.conflicts \subseteq new.conflicts
              /\ old.state = "QUORUM" /\ new.state # "SPLIT_VIEW" =>
                    new.state = "QUORUM" /\ new.commitment = old.commitment

\* An evaluation is a function of the set of votes, and one that only grows.
QuorumIsOfTheSet == OrderIsIrrelevant /\ LateVotesNeverHide

\* The receipt is "a portable statement of what an auditor recomputed"
\* (transparency_audit_receipt.py:3): a published one verifies against its own
\* artifacts, whatever was decided, except the one of a bundle without votes, which
\* sign_transparency_audit_receipt.py signs and from_dict refuses for ever.
ReceiptsVerify ==
    \A r \in Published :
        AuditVerifies(r, Decide(r.bundle, r.certificates), r.bundle, r.certificates)
            <=> r.bundle.votes # << >>

\* A published receipt is never replaced.
ReceiptsAreFinal ==
    [][\A p \in Paths : receipts[p] # {} => receipts'[p] = receipts[p]]_vars
=============================================================================
