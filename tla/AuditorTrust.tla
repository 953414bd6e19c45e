---------------------------- MODULE AuditorTrust -----------------------------
(***************************************************************************)
(* The signers of the histories of TrustChains, and the readers.  Nothing in   *)
(* the code keeps a signer to the latest entry: each signs what follows the       *)
(* history it is given, so a history may fork, lag or be answered by another       *)
(* signer who has not seen it, and a reader may be given any of them, or one        *)
(* whose last entry was moved onto another history.                                  *)
(***************************************************************************)
EXTENDS TrustChains

CONSTANTS
    Keys,               \* the auditor's public keys
    Policies,           \* the recovery policies ever configured
    WitnessPolicies,    \* the governance witness policies ever configured
    roots,              \* [key, policy, witnesses]: what a reader pins from the start
    MaxKeys, MaxPolicies, MaxRevocations, MaxSchedule, MaxGovernance,  \* bounds: lengths
    MaxSigned           \* bound: entries signed, all together

VARIABLES
    keys, policies, registries, schedules, bundles  \* the histories somebody holds

vars == <<keys, policies, registries, schedules, bundles>>

IsPolicy(policy) ==
    IsFiniteSet(policy.members) /\ policy.threshold \in 1 .. Cardinality(policy.members)

ASSUME RootsAssumption ==
    /\ roots \in [key : Keys, policy : Policies, witnesses : WitnessPolicies]
    /\ \A p \in Policies \cup WitnessPolicies : IsPolicy(p)

ASSUME BoundsAssumption == MaxKeys \in Nat /\ MaxGovernance \in Nat

Init == /\ keys = {<< >>} /\ policies = {<< >>} /\ registries = {<< >>}
        /\ schedules = {<< >>} /\ bundles = {<< >>}

Held(histories) == Cardinality(histories) - 1

Room ==
    Held(keys) + Held(policies) + Held(registries) + Held(schedules) + Held(bundles) < MaxSigned

\* What a signer of a threshold accepts: that many keys of the policy, or more.
Approvals(policy, excluded) ==
    {s \in SUBSET (policy.members \ excluded) : Cardinality(s) >= policy.threshold}

Active == {PolicyAfter(roots.policy, h) : h \in policies}

Rotate(h, to) ==
    /\ Room /\ Len(h) < MaxKeys
    /\ to # KeyAfter(roots.key, h)
    /\ keys' = keys \cup {Append(h, Rotation(h, KeyAfter(roots.key, h), to))}
    /\ UNCHANGED <<policies, registries, schedules, bundles>>

Recover(h, to, policy, approvals) ==
    /\ Room /\ Len(h) < MaxKeys
    /\ to # KeyAfter(roots.key, h)
    /\ keys' = keys \cup {Append(h, Recovery(h, KeyAfter(roots.key, h), to, policy, approvals))}
    /\ UNCHANGED <<policies, registries, schedules, bundles>>

HandOff(h, next, approvals, possession) ==
    LET previous == PolicyAfter(roots.policy, h)
    IN  /\ Room /\ Len(h) < MaxPolicies
        /\ next # previous
        /\ approvals \in Approvals(previous, {})
        /\ policies' = policies \cup {Append(h, Handoff(h, previous, next, approvals, possession))}
        /\ UNCHANGED <<keys, registries, schedules, bundles>>

Revoke(h, policy, authority, from, approvals) ==
    /\ Room /\ Len(h) < MaxRevocations
    /\ registries' = registries \cup {Append(h, Revocation(h, policy, authority, from, approvals))}
    /\ UNCHANGED <<keys, policies, schedules, bundles>>

Reschedule(h, next, from, approvals, possession) ==
    LET previous == PolicyAfter(roots.witnesses, h)
    IN  /\ Room /\ Len(h) < MaxSchedule
        /\ next # previous
        /\ approvals \in Approvals(previous, {})
        /\ schedules' = schedules \cup
              {Append(h, Begins(Handoff(h, previous, next, approvals, possession), from))}
        /\ UNCHANGED <<keys, policies, registries, bundles>>

\* Any snapshot of held histories may be attested, by fewer witnesses than it takes.
Attest(h, k, p, r, policy, witnesses) ==
    LET snapshot == Snapshot(h, k, p, PolicyAfter(roots.policy, p), r)
    IN  /\ Room /\ Len(h) < MaxGovernance
        /\ bundles' = bundles \cup
              {Append(h, Bundle(snapshot, policy, {Attestation(w, snapshot) : w \in witnesses}))}
        /\ UNCHANGED <<keys, policies, registries, schedules>>

Next ==
    \/ \E h \in keys, to \in Keys : Rotate(h, to)
    \/ \E h \in keys, to \in Keys, policy \in Active :
          \E approvals \in Approvals(policy, {}) : Recover(h, to, policy, approvals)
    \/ \E h \in policies, next \in Policies :
          \E approvals \in Approvals(PolicyAfter(roots.policy, h), {}),
             possession \in Approvals(next, {}) :
             HandOff(h, next, approvals, possession)
    \/ \E h \in registries, policy \in Active :
          \E authority \in policy.members, from \in 1 .. MaxKeys :
             \E approvals \in Approvals(policy, {authority}) :
                Revoke(h, policy, authority, from, approvals)
    \/ \E h \in schedules, next \in WitnessPolicies, from \in 1 .. MaxGovernance :
          \E approvals \in Approvals(PolicyAfter(roots.witnesses, h), {}),
             possession \in Approvals(next, {}) :
             Reschedule(h, next, from, approvals, possession)
    \/ \E h \in bundles, k \in keys, p \in policies, r \in registries,
          policy \in WitnessPolicies :
          \E witnesses \in SUBSET policy.members \ {{}} : Attest(h, k, p, r, policy, witnesses)

Spec == Init /\ [][Next]_vars

-----------------------------------------------------------------------------
\* What reaches a reader: a held history, or one with the last entry of another.
Shown(histories) ==
    histories \cup {Append(g, Last(h)) : g \in histories, h \in histories \ {<< >>}}

Givens == [keys : Shown(keys), policies : Shown(policies), registry : Shown(registries),
           schedule : Shown(schedules), bundles : Shown(bundles)]

Readers == {given \in Givens : PublicVerify(given, roots)}

Pinned(given) == Last(given.bundles).snapshot

\* The head digest a reader pins fixes all it trusts: two readers that accept under
\* the same snapshot have the same keys, recovery policies and revocations, whatever
\* forks and splices they were offered.
HeadDeterminesTrust ==
    \A r, s \in Readers :
        Pinned(r) = Pinned(s) =>
            r.keys = s.keys /\ r.policies = s.policies /\ r.registry = s.registry

Signers(snapshot) ==
    {w \in UNION {p.members : p \in WitnessPolicies} :
        \E h \in bundles : \E i \in DOMAIN h : Attestation(w, snapshot) \in h[i].attestations}

IsMajority(policy) == 2 * policy.threshold > Cardinality(policy.members)

\* Two readers that accept different snapshots of one generation either found a
\* witness that attested both, or have witness schedules that differ for it, or the
\* policy scheduled is of less than a majority, which the code allows.
SplitNeedsEquivocation ==
    \A r, s \in Readers :
        \A i \in DOMAIN r.bundles \cap DOMAIN s.bundles :
            LET x == r.bundles[i].snapshot  y == s.bundles[i].snapshot
                policy == Scheduled(roots.witnesses, r.schedule, i)
            IN  x # y /\ policy = Scheduled(roots.witnesses, s.schedule, i)
                  /\ IsMajority(policy) => Signers(x) \cap Signers(y) # {}

\* What a reader is given next when every scheduled witness attests its histories.
Attested(given) ==
    LET policy == Scheduled(roots.witnesses, given.schedule, Len(given.bundles) + 1)
        snapshot == Snapshot(given.bundles, given.keys, given.policies,
                             PolicyAfter(roots.policy, given.policies), given.registry)
        all == {Attestation(w, snapshot) : w \in policy.members}
    IN  [given EXCEPT !.bundles = Append(@, Bundle(snapshot, policy, all))]

Accepts(given) == PublicVerify(Attested(given), roots)

Extends(histories, h) == {g \in histories : g # << >> /\ Front(g) = h}

Recoveries(h) == {i \in DOMAIN h : h[i].kind = "recovery"}

\* Which of the steps the signers may take cost a reader what it trusts, once they
\* are attested: a rotation never does; a recovery does when its policy was handed
\* off or an approver revoked by then; a revocation, when its target approved a
\* recovery at or after the generation it names; a handoff of the recovery policy,
\* when there is any recovery or revocation to keep.
TrustSurvives ==
    \A r \in Readers :
        LET active == PolicyAfter(roots.policy, r.policies)
            revoked(g) == RevokedFor(Effective(r.registry), g)
        IN  /\ \A k \in Extends(keys, r.keys) :
                  Accepts([r EXCEPT !.keys = k]) <=>
                      \/ Last(k).kind = "rotation"
                      \/ /\ Last(k).policy = active
                         /\ Last(k).approvals \cap revoked(Len(k)) = {}
            /\ \A g \in Extends(registries, r.registry) :
                  Accepts([r EXCEPT !.registry = g]) <=>
                      /\ Last(g).policy = active
                      /\ Last(g).authority \notin DOMAIN Effective(r.registry)
                      /\ \A i \in Recoveries(r.keys) :
                            Last(g).authority \in r.keys[i].approvals => i < Last(g).from
            /\ \A p \in Extends(policies, r.policies) :
                  Accepts([r EXCEPT !.policies = p]) <=>
                      Recoveries(r.keys) = {} /\ r.registry = << >>

\* A handoff of the witness policy leaves what a reader accepted alone exactly when
\* it begins after the snapshots the reader has; one that begins earlier, which
\* no signer refuses, rewrites who should have attested them.
HandoffsSpareThePast ==
    \A r \in Readers : \A s \in Extends(schedules, r.schedule) :
        PublicVerify([r EXCEPT !.schedule = s], roots) <=>
            \A from \in {Len(r.bundles)} \cup {r.schedule[i].from : i \in DOMAIN r.schedule} :
                Last(s).from > from

=============================================================================
