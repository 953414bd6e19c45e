----------------------------- MODULE TrustChains -----------------------------
(***************************************************************************)
(* The signed histories a reader of audit receipts trusts, and how each is    *)
(* verified against its pinned head: the auditor's keys (rotations and          *)
(* emergency recoveries), the recovery policy's handoffs, the registry of         *)
(* revoked recovery authorities, the governance snapshots that name the heads       *)
(* of the three, and the schedule of the witness policies that attest snapshots      *)
(* (src/proofos: auditor_key_rotation, auditor_key_recovery,                          *)
(* recovery_policy_rotation, recovery_authority_revocation, governance_witness,        *)
(* governance_witness_policy_rotation; scripts/verify_transparency_audit_receipt).      *)
(*                                                                         *)
(* A digest is what it is computed from: the head of a history is << >> or the  *)
(* tuple of its last entry, which contains the head before it.  Every entry is    *)
(* signed by those it names (a signer raises otherwise), so an approval is the      *)
(* name of the one who signed.  A recovery policy is always configured.               *)
(***************************************************************************)
EXTENDS Naturals, Sequences, FiniteSets, SequencesExt

Tip(h) == IF h = << >> THEN << >> ELSE <<Last(h)>>
Before(h, i) == SubSeq(h, 1, i - 1)

\* Generations are consecutive and each entry binds the head it follows.
Linked(h) == \A i \in DOMAIN h : h[i].generation = i /\ h[i].link = Tip(Before(h, i))

(* A policy is [members, threshold].                                        *)
Quorate(policy, approvals) ==
    approvals \subseteq policy.members /\ Cardinality(approvals) >= policy.threshold

-----------------------------------------------------------------------------
(* The auditor's keys.                                                      *)
Rotation(h, from, to) ==
    [kind |-> "rotation", generation |-> Len(h) + 1, link |-> Tip(h), from |-> from, to |-> to]

Recovery(h, from, to, policy, approvals) ==
    [kind |-> "recovery", generation |-> Len(h) + 1, link |-> Tip(h), from |-> from, to |-> to,
     policy |-> policy, approvals |-> approvals]

KeyAfter(initial, h) == IF h = << >> THEN initial ELSE Last(h).to

\* Variant for the mutation checks: a revocation spares its own generation.
RevokedBefore(e, policy, revoked) ==
    /\ e.policy = policy /\ Quorate(policy, e.approvals)
    /\ \A a \in e.approvals \cap DOMAIN revoked : revoked[a] >= e.generation

\* verify_recovery: each approver is a member not revoked for this generation.
RecoveryVerifies(e, policy, revoked) ==
    /\ e.policy = policy /\ Quorate(policy, e.approvals)
    /\ \A a \in e.approvals \cap DOMAIN revoked : revoked[a] > e.generation

TransitionVerifies(e) == e.to # e.from

KeysVerify(initial, h, policy, revoked) ==
    /\ Linked(h)
    /\ \A i \in DOMAIN h :
          /\ h[i].from = KeyAfter(initial, Before(h, i)) /\ TransitionVerifies(h[i])
          /\ h[i].kind = "recovery" => RecoveryVerifies(h[i], policy, revoked)

-----------------------------------------------------------------------------
(* Handoffs, of the recovery policy and of the witness policy.               *)
Handoff(h, previous, next, approvals, possession) ==
    [generation |-> Len(h) + 1, link |-> Tip(h), previous |-> previous, next |-> next,
     approvals |-> approvals, possession |-> possession]

PolicyAfter(initial, h) == IF h = << >> THEN initial ELSE Last(h).next

HandoffVerifies(e) ==
    /\ e.next # e.previous
    /\ Quorate(e.previous, e.approvals) /\ Quorate(e.next, e.possession)

HandoffsVerify(initial, h) ==
    /\ Linked(h)
    /\ \A i \in DOMAIN h :
          h[i].previous = PolicyAfter(initial, Before(h, i)) /\ HandoffVerifies(h[i])

\* A witness policy's handoff also says from which snapshot it governs.
Begins(handoff, from) ==
    [generation |-> handoff.generation, link |-> handoff.link, previous |-> handoff.previous,
     next |-> handoff.next, approvals |-> handoff.approvals, possession |-> handoff.possession,
     from |-> from]

ScheduleVerifies(initial, h) ==
    /\ HandoffsVerify(initial, h)
    /\ \A i \in DOMAIN h : h[i].from >= 1 /\ \A j \in 1 .. i - 1 : h[j].from < h[i].from

\* Variant for the mutation checks: the last policy governs every snapshot.
LastScheduled(initial, h, g) == PolicyAfter(initial, h)

\* policy_for_governance_generation: the last of the handoffs that have begun.
Scheduled(initial, h, g) ==
    LET begun == {i \in DOMAIN h : \A j \in 1..i : h[j].from <= g}
    IN  PolicyAfter(initial, SubSeq(h, 1, Cardinality(begun)))

-----------------------------------------------------------------------------
(* Revocations of recovery authorities.                                     *)
Revocation(h, policy, authority, from, approvals) ==
    [generation |-> Len(h) + 1, link |-> Tip(h), policy |-> policy, authority |-> authority,
     from |-> from, approvals |-> approvals]

RevocationVerifies(policy, e) ==
    /\ e.policy = policy /\ e.authority \in policy.members /\ e.from >= 1
    /\ e.authority \notin e.approvals /\ Quorate(policy, e.approvals)

RegistryVerifies(policy, h) ==
    /\ Linked(h)
    /\ \A i \in DOMAIN h :
          /\ RevocationVerifies(policy, h[i])
          /\ \A j \in 1 .. i - 1 : h[j].authority # h[i].authority

Effective(h) ==
    [a \in {h[i].authority : i \in DOMAIN h} |->
        h[CHOOSE i \in DOMAIN h : h[i].authority = a].from]

RevokedFor(effective, generation) == {a \in DOMAIN effective : effective[a] <= generation}

-----------------------------------------------------------------------------
(* Governance snapshots and the bundles that carry them.                     *)
\* Variant for the mutation checks: only the generation is compared.
NamedByGeneration(h) == [generation |-> Len(h)]

Named(h) == [generation |-> Len(h), head |-> Tip(h)]

Snapshot(bundles, keys, policies, policy, registry) ==
    [generation |-> Len(bundles) + 1,
     link |-> IF bundles = << >> THEN << >> ELSE <<Last(bundles).snapshot>>,
     keys |-> Named(keys), policies |-> Named(policies), policy |-> policy,
     registry |-> Named(registry)]

Attestation(witness, snapshot) == [witness |-> witness, snapshot |-> snapshot]

Bundle(snapshot, policy, attestations) ==
    [snapshot |-> snapshot, policy |-> policy, attestations |-> attestations]

Snapshots(bundles) == [i \in DOMAIN bundles |-> bundles[i].snapshot]

\* Variant for the mutation checks: the attestations are not counted.
Uncounted(bundle, policy) ==
    bundle.policy = policy /\ \A a \in bundle.attestations : a.snapshot = bundle.snapshot

\* verify_governance_bundle, of which a history takes only a quorum: attestations
\* that conflict, or of another snapshot, are a split view or a refusal.
BundleVerifies(bundle, policy) ==
    /\ bundle.policy = policy
    /\ \A a \in bundle.attestations : a.snapshot = bundle.snapshot
    /\ Quorate(policy, {a.witness : a \in bundle.attestations})

GovernanceVerifies(bundles, initial, schedule) ==
    /\ bundles # << >> /\ Linked(Snapshots(bundles))
    /\ \A i \in DOMAIN bundles : BundleVerifies(bundles[i], Scheduled(initial, schedule, i))

-----------------------------------------------------------------------------
(* The public verifier, of what a reader was given: [keys, policies, registry, *)
(* schedule, bundles].  roots is [key, policy, witnesses], its pinned starts;     *)
(* the pinned heads are those of the last snapshot and of the schedule.             *)
Names(given, policy) ==
    LET snapshot == Last(given.bundles).snapshot
    IN  /\ snapshot.keys = Named(given.keys)
        /\ snapshot.policies = Named(given.policies) /\ snapshot.policy = policy
        /\ snapshot.registry = Named(given.registry)

PublicVerify(given, roots) ==
    LET policy == PolicyAfter(roots.policy, given.policies)
    IN  /\ ScheduleVerifies(roots.witnesses, given.schedule)
        /\ GovernanceVerifies(given.bundles, roots.witnesses, given.schedule)
        /\ HandoffsVerify(roots.policy, given.policies)
        /\ RegistryVerifies(policy, given.registry)
        /\ Names(given, policy)
        /\ KeysVerify(roots.key, given.keys, policy, Effective(given.registry))
=============================================================================
