------------------------------ MODULE Verifier ------------------------------
(***************************************************************************)
(* The verification kernel (src/proofos/verifier.py): what verify_completion*)
(* decides from a claim, the evidence of a task in the order it was        *)
(* recorded, the task's requirements and the time, and how the decision is *)
(* projected onto the single items.                                        *)
(*                                                                         *)
(* An item is "sound" when it is marked valid and carries a value, and     *)
(* "intact" when its content still has the digest it was recorded with.    *)
(***************************************************************************)
EXTENDS Integers, Sequences

CONSTANTS Kinds,      \* evidence kinds
          Collectors, \* identities evidence is attributed to
          Times       \* readings of the clock

Undated   == -1       \* Evidence.collected_at is None
NoHorizon == -1       \* Requirement.max_age_seconds is None

EvidenceSource  == {"OBSERVED", "EXECUTOR", "MODEL"}
TRUSTED_SOURCES == {"OBSERVED"}

Evidence == [kind      : Kinds,
             source    : EvidenceSource,
             sound     : BOOLEAN,
             at        : Times \cup {Undated},
             collector : Collectors,
             intact    : BOOLEAN]

Requirement == [kind : Kinds, maxAge : Times \cup {NoHorizon}]

-----------------------------------------------------------------------------
(* _evaluate: one requirement.  Items are named by their position.         *)

Matching(items, req) == {i \in DOMAIN items : items[i].kind = req.kind}

Trusted(items, req) ==
    {i \in Matching(items, req) : items[i].source \in TRUSTED_SOURCES}

\* Variant for the mutation checks: the comparison the wrong way round.
OutsideHorizon(item, req, now) ==
    req.maxAge # NoHorizon => item.at # Undated /\ item.at <= now - req.maxAge

WithinHorizon(item, req, now) ==
    req.maxAge # NoHorizon => item.at # Undated /\ item.at >= now - req.maxAge

Fresh(items, req, now) ==
    {i \in Trusted(items, req) : WithinHorizon(items[i], req, now)}

\* Variant for the mutation checks: the earliest observation governs.
EarliestGoverns(items, req, now) ==
    LET fresh == Fresh(items, req, now)
    IN  {i \in fresh : \A j \in fresh : items[i].at <= items[j].at}

\* The most recent observations govern; undated ones are the oldest.
Governing(items, req, now) ==
    LET fresh == Fresh(items, req, now)
    IN  {i \in fresh : \A j \in fresh : items[j].at <= items[i].at}

GoverningSound(items, req, now) ==
    \A i \in Governing(items, req, now) : items[i].sound

\* Variant for the mutation checks: any provenance counts.
SatisfiedByAnyone(items, req, now) ==
    \E i \in Matching(items, req) : items[i].sound /\ WithinHorizon(items[i], req, now)

Satisfied(items, req, now) ==
    Fresh(items, req, now) # {} /\ GoverningSound(items, req, now)

EvaluateFailure(items, req, now) ==
    CASE Satisfied(items, req, now)      -> "NONE"
      [] Matching(items, req) = {}       -> "EVIDENCE_MISSING"
      [] /\ Matching(items, req) # {}
         /\ Trusted(items, req) = {}     -> "EVIDENCE_UNTRUSTED"
      [] /\ Trusted(items, req) # {}
         /\ Fresh(items, req, now) = {}  -> "EVIDENCE_STALE"
      [] OTHER                           -> "EVIDENCE_INVALID"

-----------------------------------------------------------------------------
(* _verify: the whole decision.  Of several requirements of one kind the    *)
(* first is kept.                                                          *)

Effective(reqs) ==
    {n \in DOMAIN reqs : \A m \in DOMAIN reqs : reqs[m].kind = reqs[n].kind => n <= m}

AllIntact(items) == \A i \in DOMAIN items : items[i].intact

Unsatisfied(items, reqs, now) ==
    {n \in Effective(reqs) : ~Satisfied(items, reqs[n], now)}

Verified(claimed, items, reqs, now) ==
    /\ claimed
    /\ Effective(reqs) # {}
    /\ AllIntact(items)
    /\ Unsatisfied(items, reqs, now) = {}

\* One failure class when all unmet requirements failed the same way.
FailureOf(items, reqs, now) ==
    LET classes == {EvaluateFailure(items, reqs[n], now) : n \in Unsatisfied(items, reqs, now)}
    IN  IF \E c \in classes : classes = {c}
        THEN CHOOSE c \in classes : TRUE
        ELSE "EVIDENCE_MISSING"

Abstain(failure, missing) == [status |-> "ABSTAIN", failure |-> failure, missing |-> missing]

VerifyCompletion(claimed, items, reqs, now) ==
    LET kindsOf(ns) == {reqs[n].kind : n \in ns}
    IN  CASE ~claimed -> Abstain("MALFORMED_INPUT", {})
          [] claimed /\ Effective(reqs) = {} -> Abstain("EVIDENCE_MISSING", {})
          [] claimed /\ Effective(reqs) # {} /\ ~AllIntact(items) ->
                Abstain("EVIDENCE_TAMPERED", kindsOf(Effective(reqs)))
          [] Verified(claimed, items, reqs, now) ->
                [status |-> "VERIFIED", failure |-> "NONE", missing |-> {}]
          [] OTHER -> Abstain(FailureOf(items, reqs, now),
                              kindsOf(Unsatisfied(items, reqs, now)))

-----------------------------------------------------------------------------
(* _assess: the decision as it is reported for the item at position i.      *)

RequirementsOf(item, reqs) == {n \in Effective(reqs) : reqs[n].kind = item.kind}

\* Variant for the mutation checks: provenance and freshness alone count.
AcceptedUnsound(items, reqs, now, i) ==
    /\ AllIntact(items)
    /\ \E n \in RequirementsOf(items[i], reqs) : i \in Fresh(items, reqs[n], now)

Accepted(items, reqs, now, i) ==
    /\ AllIntact(items)
    /\ items[i].sound
    /\ \E n \in RequirementsOf(items[i], reqs) : i \in Fresh(items, reqs[n], now)

Satisfies(items, reqs, now, i) ==
    /\ AllIntact(items)
    /\ \E n \in RequirementsOf(items[i], reqs) :
          Satisfied(items, reqs[n], now) /\ i \in Governing(items, reqs[n], now)
=============================================================================
