-------------------------- MODULE AuditorTrustProofs --------------------------
(***************************************************************************)
(* Proofs about AuditorTrust.  A head pins its history because every entry a   *)
(* signer appends carries the head it follows: of the histories held, two with  *)
(* one head are one (Chained), a splice that verifies is a held history          *)
(* (ShownLinked), and what a snapshot names is then fixed.  A split view costs    *)
(* the overlap of two quorums, because the attestations of a held bundle were      *)
(* made by the witnesses they name (Genuine).  Which steps cost a reader its trust  *)
(* follows from what each signer checked of its own entry (Signed...): of a held      *)
(* history only what depends on another history can fail to verify.                    *)
(***************************************************************************)
EXTENDS AuditorTrust, TLAPS, SequenceTheorems, FiniteSetTheorems

IsSeq(h) == h \in Seq(Range(h))

\* Held histories start from nothing, grow by entries that carry the head they
\* follow, and are told apart by their heads.
Chained(histories) ==
    /\ << >> \in histories /\ \A h \in histories : IsSeq(h)
    /\ \A h \in histories \ {<< >>} : Front(h) \in histories /\ Last(h).link = Tip(Front(h))
    /\ \A g, h \in histories : Tip(g) = Tip(h) => g = h

Genuine(e) == \A a \in e.attestations : a = Attestation(a.witness, a.snapshot)

Succession(h) == IsSeq(h) /\ \A i \in DOMAIN h : h[i].next \in WitnessPolicies
Testimony(h) == IsSeq(h) /\ \A i \in DOMAIN h : Genuine(h[i])

\* What each signer checks of the entry it appends.
SignedKeys(h) ==
    /\ Linked(h)
    /\ \A i \in DOMAIN h :
          /\ h[i].from = KeyAfter(roots.key, Before(h, i)) /\ TransitionVerifies(h[i])
          /\ \/ h[i].kind = "rotation"
             \/ h[i].kind = "recovery" /\ Quorate(h[i].policy, h[i].approvals)

SignedRegistry(h) ==
    Linked(h) /\ \A i \in DOMAIN h : RevocationVerifies(h[i].policy, h[i]) /\ h[i].from \in Nat

SignedSchedule(h) ==
    HandoffsVerify(roots.witnesses, h) /\ \A i \in DOMAIN h : h[i].from \in Nat \ {0}

Signed == /\ \A h \in keys : SignedKeys(h)
          /\ \A h \in policies : HandoffsVerify(roots.policy, h)
          /\ \A h \in registries : SignedRegistry(h)
          /\ \A h \in schedules : SignedSchedule(h)

\* The inductive invariant.
Inv == /\ Chained(keys) /\ Chained(policies) /\ Chained(registries)
       /\ \A h \in schedules : Succession(h)
       /\ \A h \in bundles : Testimony(h)
       /\ Signed

-----------------------------------------------------------------------------
LEMMA Empty == IsSeq(<< >>) /\ DOMAIN << >> = {} /\ Tip(<< >>) = << >>
  BY DEF IsSeq, Tip, Range

\* What appending an entry to a history does to it.
LEMMA Appending ==
    ASSUME NEW h, NEW e, IsSeq(h)
    PROVE  /\ IsSeq(Append(h, e)) /\ Append(h, e) # << >>
           /\ Len(h) \in Nat /\ Len(Append(h, e)) = Len(h) + 1
           /\ DOMAIN Append(h, e) = 1 .. Len(h) + 1 /\ DOMAIN h = 1 .. Len(h)
           /\ \A i \in 1 .. Len(h) : Append(h, e)[i] = h[i]
           /\ Front(Append(h, e)) = h /\ Last(Append(h, e)) = e /\ Tip(Append(h, e)) = <<e>>
<1> DEFINE T == Range(h) \cup {e}
           g == Append(h, e)
<1>1. h \in Seq(T) /\ e \in T /\ Len(h) \in Nat /\ DOMAIN h = 1 .. Len(h)
  BY DEF IsSeq
<1>2. /\ g \in Seq(T) /\ g # << >> /\ Len(g) = Len(h) + 1
      /\ \A i \in 1 .. Len(h) : g[i] = h[i]
      /\ g[Len(h) + 1] = e
  BY <1>1, AppendProperties
<1>3. DOMAIN g = 1 .. Len(h) + 1
  BY <1>1, <1>2
<1>4. IsSeq(g)
  <2>1. \A i \in DOMAIN g : g[i] \in Range(g)
    BY DEF Range
  <2>. QED  BY <1>1, <1>2, <1>3, <2>1 DEF IsSeq
<1>5. Front(g) = h
  <2>1. \A i \in 1 .. Len(h) : g[i] \in T
    BY <1>1, <1>2
  <2>2. Len(g) - 1 = Len(h)
    BY <1>1, <1>2
  <2>3. /\ SubSeq(g, 1, Len(h)) \in Seq(T) /\ Len(SubSeq(g, 1, Len(h))) = Len(h)
        /\ \A i \in 1 .. Len(h) : SubSeq(g, 1, Len(h))[i] = g[i]
    BY <1>1, <2>1, SubSeqProperties
  <2>4. SubSeq(g, 1, Len(h)) = h
    BY <1>1, <1>2, <2>3, SeqEqual
  <2>. QED  BY <2>2, <2>4 DEF Front
<1>6. Last(g) = e
  BY <1>2 DEF Last
<1>7. Tip(g) = <<e>>
  BY <1>2, <1>6 DEF Tip
<1>. QED  BY <1>1, <1>2, <1>3, <1>4, <1>5, <1>6, <1>7

\* A history is its front and its last entry.
LEMMA Rebuilt ==
    ASSUME NEW h, IsSeq(h), h # << >>
    PROVE  h = Append(Front(h), Last(h)) /\ Tip(h) = <<Last(h)>>
<1>1. PICK s \in Seq(Range(h)), e \in Range(h) : h = Append(s, e)
  BY SequenceEmptyOrAppend, Zenon DEF IsSeq
<1>2. IsSeq(s)
  <2>1. \A i \in 1 .. Len(s) : s[i] \in Range(s)
    BY <1>1 DEF Range
  <2>. QED  BY <1>1, <2>1 DEF IsSeq
<1>. QED  BY <1>1, <1>2, Appending DEF Tip

\* An entry that carries the head it follows keeps the histories told apart.
LEMMA Extending ==
    ASSUME NEW S, Chained(S), NEW h \in S, NEW e, e.link = Tip(h)
    PROVE  Chained(S \cup {Append(h, e)})
<1> DEFINE g == Append(h, e)
           U == S \cup {g}
<1>1. IsSeq(h) /\ IsSeq(g) /\ g # << >> /\ Front(g) = h /\ Last(g) = e /\ Tip(g) = <<e>>
  BY Appending DEF Chained
<1>2. \A x \in U : IsSeq(x)
  BY <1>1 DEF Chained
<1>3. \A x \in U \ {<< >>} : Front(x) \in U /\ Last(x).link = Tip(Front(x))
  BY <1>1 DEF Chained
<1>4. \A x \in S : Tip(x) = Tip(g) => x = g
  <2> SUFFICES ASSUME NEW x \in S, Tip(x) = Tip(g)
               PROVE  x = g
    OBVIOUS
  <2>1. IsSeq(x)
    BY DEF Chained
  <2>2. x # << >>
    <3>1. Tip(x) = <<e>> /\ <<e>> # << >>
      BY <1>1
    <3>. QED  BY <3>1 DEF Tip
  <2>3. x = Append(Front(x), Last(x)) /\ Tip(x) = <<Last(x)>>
    BY <2>1, <2>2, Rebuilt
  <2>4. Last(x) = e
    BY <1>1, <2>3
  <2>5. Front(x) \in S /\ Tip(Front(x)) = Tip(h)
    BY <2>2, <2>4 DEF Chained
  <2>6. Front(x) = h
    BY <2>5 DEF Chained
  <2>. QED  BY <2>3, <2>4, <2>6
<1>5. \A x, y \in U : Tip(x) = Tip(y) => x = y
  BY <1>4 DEF Chained
<1>. QED  BY <1>2, <1>3, <1>5 DEF Chained

\* A shown history whose entries carry the heads they follow is one that is held.
LEMMA ShownLinked ==
    ASSUME NEW S, Chained(S), NEW k \in Shown(S), Linked(k)
    PROVE  k \in S
<1> SUFFICES ASSUME k \notin S
             PROVE  FALSE
  OBVIOUS
<1>1. PICK g \in S, h \in S \ {<< >>} : k = Append(g, Last(h))
  BY DEF Shown
<1>2. IsSeq(g) /\ IsSeq(h)
  BY DEF Chained
<1>3. /\ Len(g) \in Nat /\ Len(k) = Len(g) + 1 /\ DOMAIN k = 1 .. Len(g) + 1
      /\ Front(k) = g /\ k[Len(k)] = Last(h)
  BY <1>1, <1>2, Appending DEF Last
<1>4. Before(k, Len(k)) = g
  BY <1>3 DEF Before, Front
<1>5. Last(h).link = Tip(g)
  BY <1>3, <1>4 DEF Linked
<1>6. Front(h) \in S /\ Tip(Front(h)) = Tip(g)
  BY <1>5 DEF Chained
<1>7. Front(h) = g
  BY <1>6 DEF Chained
<1>8. k = h
  BY <1>1, <1>2, <1>7, Rebuilt
<1>. QED  BY <1>8

\* What goes before an entry stays when another is appended, and the longer history
\* is linked when the entry is made for the history it follows.
LEMMA Continuing ==
    ASSUME NEW h, NEW e, IsSeq(h)
    PROVE  /\ \A i \in 1 .. Len(h) : Before(Append(h, e), i) = Before(h, i)
           /\ Before(Append(h, e), Len(h) + 1) = h
           /\ Linked(Append(h, e)) <=>
                Linked(h) /\ e.generation = Len(h) + 1 /\ e.link = Tip(h)
<1> DEFINE T == Range(h) \cup {e}
           g == Append(h, e)
<1>1. /\ Len(h) \in Nat /\ DOMAIN h = 1 .. Len(h) /\ DOMAIN g = 1 .. Len(h) + 1
      /\ \A i \in 1 .. Len(h) : g[i] = h[i]
      /\ Front(g) = h /\ g[Len(h) + 1] = e /\ Len(g) = Len(h) + 1
  BY Appending DEF Last
<1>. HIDE DEF g
<1>2. ASSUME NEW i \in 1 .. Len(h)
      PROVE  Before(g, i) = Before(h, i)
  <2>1. \A j \in 1 .. i - 1 : h[j] \in T /\ g[j] \in T /\ g[j] = h[j]
    BY <1>1 DEF Range
  <2>2. /\ SubSeq(h, 1, i - 1) \in Seq(T) /\ Len(SubSeq(h, 1, i - 1)) = i - 1
        /\ \A j \in 1 .. i - 1 : SubSeq(h, 1, i - 1)[j] = h[j]
    BY <1>1, <2>1, SubSeqProperties
  <2>3. /\ SubSeq(g, 1, i - 1) \in Seq(T) /\ Len(SubSeq(g, 1, i - 1)) = i - 1
        /\ \A j \in 1 .. i - 1 : SubSeq(g, 1, i - 1)[j] = g[j]
    BY <1>1, <2>1, SubSeqProperties
  <2>. QED  BY <2>1, <2>2, <2>3, SeqEqual DEF Before
<1>3. Before(g, Len(h) + 1) = h
  <2>1. Len(h) + 1 - 1 = Len(g) - 1
    BY <1>1
  <2>. QED  BY <1>1, <2>1 DEF Before, Front
<1>4. \A i \in DOMAIN g : i = Len(h) + 1 \/ i \in DOMAIN h
  BY <1>1
<1>5. Linked(g) <=> Linked(h) /\ e.generation = Len(h) + 1 /\ e.link = Tip(h)
  BY <1>1, <1>2, <1>3, <1>4 DEF Linked
<1>. QED  BY <1>2, <1>3, <1>5 DEF g

-----------------------------------------------------------------------------
(* What the signers make of a history they are given.                        *)

LEMMA SignedKeysGrow ==
    ASSUME NEW h, IsSeq(h), SignedKeys(h), NEW e,
           e.generation = Len(h) + 1, e.link = Tip(h), e.from = KeyAfter(roots.key, h),
           e.to # e.from,
           e.kind = "rotation" \/ (e.kind = "recovery" /\ Quorate(e.policy, e.approvals))
    PROVE  SignedKeys(Append(h, e))
<1>1. /\ DOMAIN h = 1 .. Len(h) /\ Len(h) \in Nat /\ DOMAIN Append(h, e) = 1 .. Len(h) + 1
      /\ \A i \in 1 .. Len(h) : Append(h, e)[i] = h[i]
      /\ Append(h, e)[Len(h) + 1] = e
  BY Appending DEF Last
<1>2. \A i \in DOMAIN Append(h, e) : i = Len(h) + 1 \/ i \in 1 .. Len(h)
  BY <1>1
<1>. QED  BY <1>1, <1>2, Continuing DEF SignedKeys, TransitionVerifies

LEMMA HandoffsGrow ==
    ASSUME NEW initial, NEW h, IsSeq(h), HandoffsVerify(initial, h), NEW e,
           e.generation = Len(h) + 1, e.link = Tip(h),
           e.previous = PolicyAfter(initial, h), HandoffVerifies(e)
    PROVE  HandoffsVerify(initial, Append(h, e))
<1>1. /\ DOMAIN h = 1 .. Len(h) /\ Len(h) \in Nat /\ DOMAIN Append(h, e) = 1 .. Len(h) + 1
      /\ \A i \in 1 .. Len(h) : Append(h, e)[i] = h[i]
      /\ Append(h, e)[Len(h) + 1] = e
  BY Appending DEF Last
<1>2. \A i \in DOMAIN Append(h, e) : i = Len(h) + 1 \/ i \in 1 .. Len(h)
  BY <1>1
<1>. QED  BY <1>1, <1>2, Continuing DEF HandoffsVerify

LEMMA SignedRegistryGrows ==
    ASSUME NEW h, IsSeq(h), SignedRegistry(h), NEW e,
           e.generation = Len(h) + 1, e.link = Tip(h),
           RevocationVerifies(e.policy, e), e.from \in Nat
    PROVE  SignedRegistry(Append(h, e))
<1>1. /\ DOMAIN h = 1 .. Len(h) /\ Len(h) \in Nat /\ DOMAIN Append(h, e) = 1 .. Len(h) + 1
      /\ \A i \in 1 .. Len(h) : Append(h, e)[i] = h[i]
      /\ Append(h, e)[Len(h) + 1] = e
  BY Appending DEF Last
<1>2. \A i \in DOMAIN Append(h, e) : i = Len(h) + 1 \/ i \in 1 .. Len(h)
  BY <1>1
<1>. QED  BY <1>1, <1>2, Continuing DEF SignedRegistry

-----------------------------------------------------------------------------
\* The invariant holds at the start, when only the pinned roots are held.
LEMMA Initially == Init => Inv
  BY Empty DEF Init, Inv, Chained, Succession, Testimony, Tip, Signed, SignedKeys,
               SignedRegistry, SignedSchedule, HandoffsVerify, Linked

\* Every signer keeps the invariant, whatever history it is given.
LEMMA Inductive == Inv /\ [Next]_vars => Inv'
<1> SUFFICES ASSUME Inv, [Next]_vars
             PROVE  Inv'
  OBVIOUS
<1>1. ASSUME NEW h \in keys, NEW to \in Keys, Rotate(h, to)
      PROVE  Inv'
  <2> DEFINE e == Rotation(h, KeyAfter(roots.key, h), to)
  <2>1. e.link = Tip(h)
    BY DEF Rotation
  <2>2. Chained(keys \cup {Append(h, e)})
    BY <2>1, Extending DEF Inv
  <2>3. SignedKeys(Append(h, e))
    <3>1. IsSeq(h) /\ SignedKeys(h)
      BY DEF Inv, Signed, Chained
    <3>2. /\ e.generation = Len(h) + 1 /\ e.from = KeyAfter(roots.key, h) /\ e.to = to
          /\ e.kind = "rotation"
      BY DEF Rotation
    <3>. QED  BY <1>1, <2>1, <3>1, <3>2, SignedKeysGrow DEF Rotate
  <2>. QED  BY <1>1, <2>2, <2>3 DEF Inv, Signed, Rotate
<1>2. ASSUME NEW h \in keys, NEW to \in Keys, NEW policy,
             NEW approvals \in Approvals(policy, {}), Recover(h, to, policy, approvals)
      PROVE  Inv'
  <2> DEFINE e == Recovery(h, KeyAfter(roots.key, h), to, policy, approvals)
  <2>1. e.link = Tip(h)
    BY DEF Recovery
  <2>2. Chained(keys \cup {Append(h, e)})
    BY <2>1, Extending DEF Inv
  <2>3. SignedKeys(Append(h, e))
    <3>1. IsSeq(h) /\ SignedKeys(h)
      BY DEF Inv, Signed, Chained
    <3>2. /\ e.generation = Len(h) + 1 /\ e.from = KeyAfter(roots.key, h) /\ e.to = to
          /\ e.kind = "recovery" /\ e.policy = policy /\ e.approvals = approvals
      BY DEF Recovery
    <3>3. Quorate(policy, approvals)
      BY DEF Approvals, Quorate
    <3>. QED  BY <1>2, <2>1, <3>1, <3>2, <3>3, SignedKeysGrow DEF Recover
  <2>. QED  BY <1>2, <2>2, <2>3 DEF Inv, Signed, Recover
<1>3. ASSUME NEW h \in policies, NEW next \in Policies, NEW approvals,
             NEW possession \in Approvals(next, {}), HandOff(h, next, approvals, possession)
      PROVE  Inv'
  <2> DEFINE e == Handoff(h, PolicyAfter(roots.policy, h), next, approvals, possession)
  <2>1. e.link = Tip(h)
    BY DEF Handoff
  <2>2. Chained(policies \cup {Append(h, e)})
    BY <2>1, Extending DEF Inv
  <2>3. HandoffsVerify(roots.policy, Append(h, e))
    <3>1. IsSeq(h) /\ HandoffsVerify(roots.policy, h)
      BY DEF Inv, Signed, Chained
    <3>2. /\ e.generation = Len(h) + 1 /\ e.previous = PolicyAfter(roots.policy, h)
          /\ e.next = next /\ e.approvals = approvals /\ e.possession = possession
      BY DEF Handoff
    <3>3. HandoffVerifies(e)
      BY <1>3, <3>2 DEF HandoffVerifies, HandOff, Approvals, Quorate
    <3>. QED  BY <2>1, <3>1, <3>2, <3>3, HandoffsGrow
  <2>. QED  BY <1>3, <2>2, <2>3 DEF Inv, Signed, HandOff
<1>4. ASSUME NEW h \in registries, NEW policy, NEW authority \in policy.members,
             NEW from \in 1 .. MaxKeys, NEW approvals \in Approvals(policy, {authority}),
             Revoke(h, policy, authority, from, approvals)
      PROVE  Inv'
  <2> DEFINE e == Revocation(h, policy, authority, from, approvals)
  <2>1. e.link = Tip(h)
    BY DEF Revocation
  <2>2. Chained(registries \cup {Append(h, e)})
    BY <2>1, Extending DEF Inv
  <2>3. SignedRegistry(Append(h, e))
    <3>1. IsSeq(h) /\ SignedRegistry(h)
      BY DEF Inv, Signed, Chained
    <3>2. /\ e.generation = Len(h) + 1 /\ e.policy = policy /\ e.authority = authority
          /\ e.from = from /\ e.approvals = approvals
      BY DEF Revocation
    <3>3. from \in Nat /\ from >= 1
      BY BoundsAssumption
    <3>4. RevocationVerifies(policy, e)
      BY <3>2, <3>3 DEF RevocationVerifies, Approvals, Quorate
    <3>. QED  BY <2>1, <3>1, <3>2, <3>3, <3>4, SignedRegistryGrows
  <2>. QED  BY <1>4, <2>2, <2>3 DEF Inv, Signed, Revoke
<1>5. ASSUME NEW h \in schedules, NEW next \in WitnessPolicies,
             NEW from \in 1 .. MaxGovernance, NEW approvals,
             NEW possession \in Approvals(next, {}), Reschedule(h, next, from, approvals, possession)
      PROVE  Inv'
  <2> DEFINE e == Begins(Handoff(h, PolicyAfter(roots.witnesses, h), next, approvals,
                                 possession), from)
             g == Append(h, e)
  <2>1. e.next = next
    BY DEF Begins, Handoff
  <2>2. Succession(h)
    BY DEF Inv
  <2>3. IsSeq(g) /\ Len(h) \in Nat /\ DOMAIN g = 1 .. Len(h) + 1 /\ DOMAIN h = 1 .. Len(h)
        /\ (\A i \in 1 .. Len(h) : g[i] = h[i]) /\ g[Len(h) + 1] = e
    BY <2>2, Appending DEF Succession, Last
  <2>4. Succession(g)
    <3>1. \A i \in DOMAIN g : i = Len(h) + 1 \/ i \in 1 .. Len(h)
      BY <2>3
    <3>. QED  BY <2>1, <2>2, <2>3, <3>1 DEF Succession
  <2>5. SignedSchedule(g)
    <3>1. IsSeq(h) /\ SignedSchedule(h)
      BY <2>2 DEF Inv, Signed, Succession
    <3>2. /\ e.generation = Len(h) + 1 /\ e.link = Tip(h)
          /\ e.previous = PolicyAfter(roots.witnesses, h)
          /\ e.approvals = approvals /\ e.possession = possession /\ e.from = from
      BY DEF Handoff, Begins
    <3>3. HandoffVerifies(e)
      BY <1>5, <2>1, <3>2 DEF HandoffVerifies, Reschedule, Approvals, Quorate
    <3>4. HandoffsVerify(roots.witnesses, g)
      BY <3>1, <3>2, <3>3, HandoffsGrow DEF SignedSchedule
    <3>5. from \in Nat \ {0}
      BY BoundsAssumption
    <3>6. \A i \in DOMAIN g : i = Len(h) + 1 \/ i \in 1 .. Len(h)
      BY <2>3
    <3>. QED  BY <2>3, <3>1, <3>2, <3>4, <3>5, <3>6 DEF SignedSchedule
  <2>. QED  BY <1>5, <2>4, <2>5 DEF Inv, Signed, Reschedule
<1>6. ASSUME NEW h \in bundles, NEW k \in keys, NEW p \in policies, NEW r \in registries,
             NEW policy, NEW witnesses, Attest(h, k, p, r, policy, witnesses)
      PROVE  Inv'
  <2> DEFINE snapshot == Snapshot(h, k, p, PolicyAfter(roots.policy, p), r)
             e == Bundle(snapshot, policy, {Attestation(w, snapshot) : w \in witnesses})
             g == Append(h, e)
  <2>1. Genuine(e)
    BY DEF Genuine, Bundle, Attestation
  <2>2. Testimony(h)
    BY DEF Inv
  <2>3. IsSeq(g) /\ Len(h) \in Nat /\ DOMAIN g = 1 .. Len(h) + 1 /\ DOMAIN h = 1 .. Len(h)
        /\ (\A i \in 1 .. Len(h) : g[i] = h[i]) /\ g[Len(h) + 1] = e
    BY <2>2, Appending DEF Testimony, Last
  <2>4. Testimony(g)
    <3>1. \A i \in DOMAIN g : i = Len(h) + 1 \/ i \in 1 .. Len(h)
      BY <2>3
    <3>. QED  BY <2>1, <2>2, <2>3, <3>1 DEF Testimony
  <2>. QED  BY <1>6, <2>4 DEF Inv, Signed, Attest
<1>7. CASE UNCHANGED vars
  BY <1>7 DEF Inv, Signed, vars
<1>. QED  BY <1>1, <1>2, <1>3, <1>4, <1>5, <1>6, <1>7 DEF Next

THEOREM Invariance == Spec => []Inv
  BY Initially, Inductive, PTL DEF Spec

-----------------------------------------------------------------------------
\* Of what the signers hold, the head a reader pins fixes the rest.
LEMMA OneTrust == Inv => HeadDeterminesTrust
<1> SUFFICES ASSUME Inv, NEW r \in Readers, NEW s \in Readers, Pinned(r) = Pinned(s)
             PROVE  r.keys = s.keys /\ r.policies = s.policies /\ r.registry = s.registry
  BY DEF HeadDeterminesTrust
<1>1. ASSUME NEW x \in Readers
      PROVE  /\ x.keys \in keys /\ x.policies \in policies /\ x.registry \in registries
             /\ Pinned(x).keys = Named(x.keys) /\ Pinned(x).policies = Named(x.policies)
             /\ Pinned(x).registry = Named(x.registry)
  <2>1. x \in Givens /\ PublicVerify(x, roots)
    BY DEF Readers
  <2>2. x.keys \in Shown(keys) /\ x.policies \in Shown(policies) /\ x.registry \in Shown(registries)
    BY <2>1 DEF Givens
  <2>3. Linked(x.keys) /\ Linked(x.policies) /\ Linked(x.registry)
    BY <2>1 DEF PublicVerify, KeysVerify, HandoffsVerify, RegistryVerifies
  <2>4. x.keys \in keys
    BY <2>2, <2>3, ShownLinked DEF Inv
  <2>5. x.policies \in policies
    BY <2>2, <2>3, ShownLinked DEF Inv
  <2>6. x.registry \in registries
    BY <2>2, <2>3, ShownLinked DEF Inv
  <2>. QED  BY <2>1, <2>4, <2>5, <2>6 DEF PublicVerify, Names, Pinned
<1>2. Named(r.keys) = Named(s.keys) /\ Named(r.policies) = Named(s.policies)
      /\ Named(r.registry) = Named(s.registry)
  BY <1>1
<1>3. Tip(r.keys) = Tip(s.keys) /\ Tip(r.policies) = Tip(s.policies)
      /\ Tip(r.registry) = Tip(s.registry)
  BY <1>2 DEF Named
<1>4. r.keys = s.keys
  BY <1>1, <1>3 DEF Inv, Chained
<1>5. r.policies = s.policies
  BY <1>1, <1>3 DEF Inv, Chained
<1>6. r.registry = s.registry
  BY <1>1, <1>3 DEF Inv, Chained
<1>. QED  BY <1>4, <1>5, <1>6

THEOREM HeadsFixTrust == Spec => []HeadDeterminesTrust
  BY Invariance, OneTrust, PTL

-----------------------------------------------------------------------------
\* Two quorums of a majority policy share a member.
LEMMA QuorumsMeet ==
    ASSUME NEW policy, IsPolicy(policy), IsMajority(policy), NEW A, NEW B,
           Quorate(policy, A), Quorate(policy, B)
    PROVE  A \cap B # {}
<1>1. /\ IsFiniteSet(policy.members) /\ A \subseteq policy.members /\ B \subseteq policy.members
      /\ Cardinality(A) >= policy.threshold /\ Cardinality(B) >= policy.threshold
      /\ 2 * policy.threshold > Cardinality(policy.members)
  BY DEF IsPolicy, IsMajority, Quorate
<1>2. /\ Cardinality(A) \in Nat /\ Cardinality(B) \in Nat /\ policy.threshold \in Nat
      /\ Cardinality(policy.members) \in Nat
  BY <1>1, FS_Subset, FS_CardinalityType DEF IsPolicy
<1>3. Cardinality(A) + Cardinality(B) > Cardinality(policy.members)
  BY <1>1, <1>2
<1>. QED  BY <1>1, <1>3, FS_MajoritiesIntersect

\* Whatever reaches a reader is made of entries somebody signed.
LEMMA ShownEntries ==
    ASSUME NEW S, \A h \in S : IsSeq(h), NEW k \in Shown(S)
    PROVE  IsSeq(k) /\ \A i \in DOMAIN k : \E h \in S : \E j \in DOMAIN h : k[i] = h[j]
<1>1. CASE k \in S
  BY <1>1
<1>2. CASE k \notin S
  <2>1. PICK g \in S, h \in S \ {<< >>} : k = Append(g, Last(h))
    BY <1>2 DEF Shown
  <2>2. /\ IsSeq(k) /\ Len(g) \in Nat /\ DOMAIN k = 1 .. Len(g) + 1 /\ DOMAIN g = 1 .. Len(g)
        /\ (\A i \in 1 .. Len(g) : k[i] = g[i]) /\ k[Len(g) + 1] = Last(h)
    BY <2>1, Appending DEF Last
  <2>3. Len(h) \in DOMAIN h
    <3>1. h \in Seq(Range(h)) /\ h # << >>
      BY <2>1 DEF IsSeq
    <3>. QED  BY <3>1
  <2>. QED  BY <2>1, <2>2, <2>3 DEF Last
<1>. QED  BY <1>1, <1>2

\* Every snapshot is scheduled under a configured witness policy.
LEMMA Governed ==
    ASSUME Inv, NEW k \in Shown(schedules), NEW g
    PROVE  Scheduled(roots.witnesses, k, g) \in WitnessPolicies
<1> DEFINE begun == {i \in DOMAIN k : \A j \in 1 .. i : k[j].from <= g}
           n == Cardinality(begun)
           begins == SubSeq(k, 1, n)
<1>1. \A h \in schedules : IsSeq(h)
  BY DEF Inv, Succession
<1>2. IsSeq(k) /\ \A i \in DOMAIN k : k[i].next \in WitnessPolicies
  <2>1. \A i \in DOMAIN k : \E h \in schedules : \E j \in DOMAIN h : k[i] = h[j]
    BY <1>1, ShownEntries
  <2>2. IsSeq(k)
    BY <1>1, ShownEntries
  <2>. QED  BY <2>1, <2>2 DEF Inv, Succession
<1>3. k \in Seq(Range(k)) /\ Len(k) \in Nat /\ DOMAIN k = 1 .. Len(k)
  BY <1>2 DEF IsSeq
<1>4. IsFiniteSet(1 .. Len(k)) /\ Cardinality(1 .. Len(k)) = Len(k)
  BY <1>3, FS_Interval, SMTT(30)
<1>5. n \in Nat /\ n <= Len(k)
  BY <1>3, <1>4, FS_Subset, FS_CardinalityType
<1> HIDE DEF n
<1>6. /\ Len(begins) = n /\ begins \in Seq(Range(k))
      /\ \A i \in 1 .. n : begins[i] = k[i]
  <2>1. \A i \in 1 .. n : k[i] \in Range(k)
    BY <1>3, <1>5 DEF Range
  <2>2. /\ begins \in Seq(Range(k)) /\ Len(begins) = IF 1 <= n THEN n - 1 + 1 ELSE 0
        /\ \A i \in 1 .. n - 1 + 1 : begins[i] = k[1 + i - 1]
    BY <1>5, <2>1, SubSeqProperties
  <2>. QED  BY <1>5, <2>2
<1>7. PolicyAfter(roots.witnesses, begins) \in WitnessPolicies
  <2>1. CASE n = 0
    <3>1. begins = << >>
      BY <2>1, SubSeqEmpty
    <3>. QED  BY <3>1, RootsAssumption DEF PolicyAfter
  <2>2. CASE n > 0
    <3>1. Last(begins) = k[n] /\ n \in DOMAIN k
      BY <1>3, <1>5, <1>6, <2>2 DEF Last
    <3>2. begins # << >>
      <4>1. Len(<< >>) = 0
        OBVIOUS
      <4>2. Len(begins) # 0
        BY <1>6, <2>2
      <4>. HIDE DEF begins
      <4>. QED  BY <4>1, <4>2
    <3>. QED  BY <1>2, <3>1, <3>2 DEF PolicyAfter
  <2>. QED  BY <1>5, <2>1, <2>2
<1>. QED  BY <1>7 DEF Scheduled, n

\* What a reader accepted was attested by a quorum of the policy it was scheduled under.
LEMMA AcceptedAttested ==
    ASSUME Inv, NEW r \in Readers, NEW i \in DOMAIN r.bundles,
           NEW policy \in WitnessPolicies, policy = Scheduled(roots.witnesses, r.schedule, i)
    PROVE  \E A \in SUBSET Signers(r.bundles[i].snapshot) : Quorate(policy, A)
<1> DEFINE b == r.bundles[i]
           A == {a.witness : a \in b.attestations}
<1>1. r.bundles \in Shown(bundles) /\ BundleVerifies(b, policy)
  BY DEF Readers, Givens, PublicVerify, GovernanceVerifies
<1>2. \A h \in bundles : IsSeq(h)
  BY DEF Inv, Testimony
<1>3. PICK h \in bundles : \E n \in DOMAIN h : b = h[n]
  BY <1>1, <1>2, ShownEntries
<1>. PICK j \in DOMAIN h : b = h[j]
  BY <1>3
<1>4. Genuine(b)
  BY <1>3 DEF Inv, Testimony
<1>5. Quorate(policy, A) /\ \A a \in b.attestations : a.snapshot = b.snapshot
  BY <1>1 DEF BundleVerifies
<1>6. A \subseteq Signers(b.snapshot)
  <2> SUFFICES ASSUME NEW a \in b.attestations
               PROVE  a.witness \in Signers(b.snapshot)
    OBVIOUS
  <2>1. a = Attestation(a.witness, b.snapshot)
    BY <1>4, <1>5 DEF Genuine
  <2>2. Attestation(a.witness, b.snapshot) \in h[j].attestations
    BY <1>3, <2>1
  <2>3. a.witness \in policy.members
    BY <1>5 DEF Quorate
  <2>. QED  BY <1>3, <2>2, <2>3 DEF Signers
<1>. QED  BY <1>5, <1>6

\* A split view of one generation costs a witness that attested both sides.
LEMMA SplitCosts == Inv => SplitNeedsEquivocation
<1> SUFFICES ASSUME Inv, NEW r \in Readers, NEW s \in Readers,
                    NEW i \in DOMAIN r.bundles \cap DOMAIN s.bundles,
                    NEW policy, policy = Scheduled(roots.witnesses, r.schedule, i),
                    policy = Scheduled(roots.witnesses, s.schedule, i), IsMajority(policy)
             PROVE  Signers(r.bundles[i].snapshot) \cap Signers(s.bundles[i].snapshot) # {}
  BY DEF SplitNeedsEquivocation
<1>1. policy \in WitnessPolicies
  <2>1. r.schedule \in Shown(schedules)
    BY DEF Readers, Givens
  <2>. QED  BY <2>1, Governed
<1>2. IsPolicy(policy)
  BY <1>1, RootsAssumption
<1>3. PICK A \in SUBSET Signers(r.bundles[i].snapshot) : Quorate(policy, A)
  BY <1>1, AcceptedAttested
<1>4. PICK B \in SUBSET Signers(s.bundles[i].snapshot) : Quorate(policy, B)
  BY <1>1, AcceptedAttested
<1>5. A \cap B # {}
  BY <1>2, <1>3, <1>4, QuorumsMeet
<1>. QED  BY <1>3, <1>4, <1>5

THEOREM SplitsNeedEquivocation == Spec => []SplitNeedsEquivocation
  BY Invariance, SplitCosts, PTL

-----------------------------------------------------------------------------
(* What a step of a signer costs a reader.                                   *)

\* What a reader accepted it was given of what is held.
LEMMA Accepted ==
    ASSUME Inv, NEW r \in Readers
    PROVE  /\ r \in [keys : keys, policies : policies, registry : registries,
                     schedule : Shown(schedules), bundles : Shown(bundles)]
           /\ PublicVerify(r, roots)
<1>1. r \in Givens /\ PublicVerify(r, roots)
  BY DEF Readers
<1>2. Linked(r.keys) /\ Linked(r.policies) /\ Linked(r.registry)
  BY <1>1 DEF PublicVerify, KeysVerify, HandoffsVerify, RegistryVerifies
<1>3. r.keys \in keys
  BY <1>1, <1>2, ShownLinked DEF Inv, Givens
<1>4. r.policies \in policies
  BY <1>1, <1>2, ShownLinked DEF Inv, Givens
<1>5. r.registry \in registries
  BY <1>1, <1>2, ShownLinked DEF Inv, Givens
<1>. QED  BY <1>1, <1>3, <1>4, <1>5 DEF Givens

\* Of the keys a signer holds, only the recoveries can fail to verify.
KeysStand(h, policy, revoked) ==
    \A i \in Recoveries(h) :
        /\ h[i].policy = policy
        /\ \A a \in h[i].approvals \cap DOMAIN revoked : revoked[a] > i

LEMMA KeysVerifyAs ==
    ASSUME NEW h, SignedKeys(h), NEW policy, NEW revoked
    PROVE  KeysVerify(roots.key, h, policy, revoked) <=> KeysStand(h, policy, revoked)
  BY DEF SignedKeys, KeysVerify, KeysStand, Recoveries, RecoveryVerifies, Linked

\* Of the revocations, those of another policy and the second of one authority.
RegistryStands(policy, h) ==
    \A i \in DOMAIN h : h[i].policy = policy /\ \A j \in 1 .. i - 1 : h[j].authority # h[i].authority

LEMMA RegistryVerifiesAs ==
    ASSUME NEW h, SignedRegistry(h), NEW policy
    PROVE  RegistryVerifies(policy, h) <=> RegistryStands(policy, h)
<1>1. \A i \in DOMAIN h : h[i].policy = policy => RevocationVerifies(policy, h[i])
  BY DEF SignedRegistry
<1>2. \A i \in DOMAIN h : RevocationVerifies(policy, h[i]) => h[i].policy = policy
  BY DEF RevocationVerifies
<1>. QED  BY <1>1, <1>2 DEF SignedRegistry, RegistryVerifies, RegistryStands

\* The revocations in effect, one of each authority.
LEMMA EffectiveRevocations ==
    ASSUME NEW h, IsSeq(h), NEW policy, RegistryStands(policy, h)
    PROVE  /\ DOMAIN Effective(h) = {h[i].authority : i \in DOMAIN h}
           /\ \A i \in DOMAIN h : Effective(h)[h[i].authority] = h[i].from
<1>1. DOMAIN h = 1 .. Len(h) /\ Len(h) \in Nat
  BY DEF IsSeq
<1>2. ASSUME NEW i \in DOMAIN h, NEW j \in DOMAIN h, h[i].authority = h[j].authority
      PROVE  i = j
  <2>1. CASE i < j
    <3>1. i \in 1 .. j - 1
      BY <1>1, <2>1
    <3>. QED  BY <1>2, <3>1 DEF RegistryStands
  <2>2. CASE j < i
    <3>1. j \in 1 .. i - 1
      BY <1>1, <2>2
    <3>. QED  BY <1>2, <3>1 DEF RegistryStands
  <2>. QED  BY <1>1, <2>1, <2>2
<1>3. ASSUME NEW i \in DOMAIN h
      PROVE  (CHOOSE j \in DOMAIN h : h[j].authority = h[i].authority) = i
  <2>. DEFINE j == CHOOSE j \in DOMAIN h : h[j].authority = h[i].authority
  <2>1. j \in DOMAIN h /\ h[j].authority = h[i].authority
    OBVIOUS
  <2>. QED  BY <1>2, <2>1
<1>4. DOMAIN Effective(h) = {h[i].authority : i \in DOMAIN h}
  BY DEF Effective
<1>5. ASSUME NEW i \in DOMAIN h
      PROVE  Effective(h)[h[i].authority] = h[i].from
  BY <1>3 DEF Effective
<1>. QED  BY <1>4, <1>5

LEMMA SnapshotsOf ==
    ASSUME NEW B, IsSeq(B), NEW b
    PROVE  /\ IsSeq(Snapshots(B)) /\ Len(Snapshots(B)) = Len(B) /\ Len(B) \in Nat
           /\ Tip(Snapshots(B)) = IF B = << >> THEN << >> ELSE <<Last(B).snapshot>>
           /\ Snapshots(Append(B, b)) = Append(Snapshots(B), b.snapshot)
<1> DEFINE s == Snapshots(B)
<1>1. DOMAIN B = 1 .. Len(B) /\ Len(B) \in Nat
  BY DEF IsSeq
<1>2. s \in Seq(Range(s)) /\ Len(s) = Len(B) /\ \A i \in 1 .. Len(B) : s[i] = B[i].snapshot
  <2>1. s = [i \in 1 .. Len(B) |-> B[i].snapshot]
    BY <1>1 DEF Snapshots
  <2>2. \A i \in 1 .. Len(B) : s[i] \in Range(s)
    BY <2>1 DEF Range
  <2>3. s \in [1 .. Len(B) -> Range(s)]
    BY <2>1, <2>2
  <2>. QED  BY <1>1, <2>1, <2>3, IsASeq
<1>. HIDE DEF s
<1>3. IsSeq(s)
  BY <1>2 DEF IsSeq
<1>4. Tip(s) = IF B = << >> THEN << >> ELSE <<Last(B).snapshot>>
  <2>1. CASE B = << >>
    <3>1. Len(s) = 0
      BY <1>2, <2>1
    <3>2. s = << >>
      BY <1>2, <3>1, EmptySeq
    <3>. QED  BY <2>1, <3>2 DEF Tip
  <2>2. CASE B # << >>
    <3>1. Len(B) # 0 /\ Len(B) \in 1 .. Len(B)
      BY <2>2, EmptySeq DEF IsSeq
    <3>2. s # << >>
      BY <1>2, <3>1, EmptySeq
    <3>3. Last(s) = Last(B).snapshot
      BY <1>2, <3>1 DEF Last
    <3>. QED  BY <2>2, <3>2, <3>3 DEF Tip
  <2>. QED  BY <2>1, <2>2
<1>5. Snapshots(Append(B, b)) = Append(s, b.snapshot)
  <2> DEFINE C == Append(B, b)
             t == Append(s, b.snapshot)
  <2>1. DOMAIN C = 1 .. Len(B) + 1 /\ (\A i \in 1 .. Len(B) : C[i] = B[i]) /\ C[Len(B) + 1] = b
    BY Appending DEF Last
  <2>2. /\ IsSeq(t) /\ DOMAIN t = 1 .. Len(B) + 1 /\ (\A i \in 1 .. Len(B) : t[i] = s[i])
        /\ t[Len(B) + 1] = b.snapshot
    BY <1>2, <1>3, Appending DEF Last
  <2>3. t = [i \in 1 .. Len(B) + 1 |-> t[i]]
    BY <2>2 DEF IsSeq
  <2>. HIDE DEF C, t
  <2>4. \A i \in 1 .. Len(B) + 1 : t[i] = C[i].snapshot
    <3>1. \A i \in 1 .. Len(B) + 1 : i = Len(B) + 1 \/ i \in 1 .. Len(B)
      BY <1>1
    <3>. QED  BY <1>2, <2>1, <2>2, <3>1
  <2>5. Snapshots(C) = [i \in 1 .. Len(B) + 1 |-> C[i].snapshot]
    BY <2>1 DEF Snapshots
  <2>6. Snapshots(C) = t
    BY <2>3, <2>4, <2>5
  <2>. QED  BY <2>6 DEF C, t
<1>. QED  BY <1>1, <1>2, <1>3, <1>4, <1>5 DEF s

\* Under the schedule and after the snapshots a reader accepted, held histories that
\* every scheduled witness attests are accepted when they verify against each other.
LEMMA AttestedAccepted ==
    ASSUME Inv, NEW r \in Readers,
           NEW x \in [keys : keys, policies : policies, registry : registries,
                      schedule : {r.schedule}, bundles : {r.bundles}]
    PROVE  LET active == PolicyAfter(roots.policy, x.policies)
           IN  Accepts(x) <=> /\ RegistryStands(active, x.registry)
                              /\ KeysStand(x.keys, active, Effective(x.registry))
<1> DEFINE active == PolicyAfter(roots.policy, x.policies)
           B == r.bundles
           policy == Scheduled(roots.witnesses, r.schedule, Len(B) + 1)
           snapshot == Snapshot(B, x.keys, x.policies, active, x.registry)
           all == {Attestation(w, snapshot) : w \in policy.members}
           b == Bundle(snapshot, policy, all)
           y == Attested(x)
<1>1. /\ PublicVerify(r, roots) /\ r.schedule \in Shown(schedules) /\ B \in Shown(bundles)
  BY Accepted
<1>2. IsSeq(B)
  <2>1. \A h \in bundles : IsSeq(h)
    BY DEF Inv, Testimony
  <2>. QED  BY <1>1, <2>1, ShownEntries
<1>3. /\ y.keys = x.keys /\ y.policies = x.policies /\ y.registry = x.registry
      /\ y.schedule = r.schedule /\ y.bundles = Append(B, b)
  BY DEF Attested
<1>4. /\ snapshot.generation = Len(B) + 1
      /\ snapshot.link = IF B = << >> THEN << >> ELSE <<Last(B).snapshot>>
      /\ snapshot.keys = Named(x.keys) /\ snapshot.policies = Named(x.policies)
      /\ snapshot.policy = active /\ snapshot.registry = Named(x.registry)
  BY DEF Snapshot
<1>. HIDE DEF y, active, snapshot
<1>5. b.snapshot = snapshot /\ b.policy = policy /\ b.attestations = all
  BY DEF Bundle
<1>. HIDE DEF B, policy, b
<1>6. /\ Append(B, b) # << >> /\ Last(Append(B, b)) = b /\ Len(B) \in Nat
      /\ DOMAIN Append(B, b) = 1 .. Len(B) + 1 /\ DOMAIN B = 1 .. Len(B)
      /\ (\A i \in 1 .. Len(B) : Append(B, b)[i] = B[i]) /\ Append(B, b)[Len(B) + 1] = b
  <2>1. /\ Append(B, b) # << >> /\ Len(B) \in Nat /\ Len(Append(B, b)) = Len(B) + 1
        /\ DOMAIN Append(B, b) = 1 .. Len(B) + 1 /\ DOMAIN B = 1 .. Len(B)
        /\ \A i \in 1 .. Len(B) : Append(B, b)[i] = B[i]
    BY <1>2, Appending
  <2>2. Last(Append(B, b)) = b
    BY <1>2, Appending
  <2>. QED  BY <2>1, <2>2 DEF Last
<1>7. Linked(Snapshots(Append(B, b)))
  <2>1. Linked(Snapshots(B))
    BY <1>1 DEF PublicVerify, GovernanceVerifies, B
  <2>2. /\ IsSeq(Snapshots(B)) /\ Len(Snapshots(B)) = Len(B)
        /\ Tip(Snapshots(B)) = snapshot.link
        /\ Snapshots(Append(B, b)) = Append(Snapshots(B), snapshot)
    BY <1>2, <1>4, <1>5, SnapshotsOf
  <2>. QED  BY <1>4, <2>1, <2>2, Continuing
<1>8. BundleVerifies(b, policy)
  <2>1. policy \in WitnessPolicies
    BY <1>1, Governed DEF policy
  <2>2. IsPolicy(policy)
    BY <2>1, RootsAssumption
  <2>3. Cardinality(policy.members) >= policy.threshold
    BY <2>2, FS_CardinalityType DEF IsPolicy
  <2>4. \A w : Attestation(w, snapshot).snapshot = snapshot /\ Attestation(w, snapshot).witness = w
    BY DEF Attestation
  <2>5. (\A a \in all : a.snapshot = snapshot) /\ {a.witness : a \in all} = policy.members
    <3>1. /\ \A w \in policy.members : Attestation(w, snapshot) \in all
          /\ \A a \in all : \E w \in policy.members : a = Attestation(w, snapshot)
      OBVIOUS
    <3>. HIDE DEF all
    <3>. QED  BY <2>4, <3>1
  <2>6. Quorate(policy, {a.witness : a \in all})
    BY <2>3, <2>5 DEF Quorate
  <2>. QED  BY <1>5, <2>5, <2>6 DEF BundleVerifies
<1>9. GovernanceVerifies(Append(B, b), roots.witnesses, r.schedule)
  <2>1. \A i \in 1 .. Len(B) + 1 : i = Len(B) + 1 \/ i \in 1 .. Len(B)
    BY <1>6
  <2>2. \A i \in 1 .. Len(B) : BundleVerifies(B[i], Scheduled(roots.witnesses, r.schedule, i))
    BY <1>1, <1>6 DEF PublicVerify, GovernanceVerifies, B
  <2>3. ASSUME NEW i \in 1 .. Len(B) + 1
        PROVE  BundleVerifies(Append(B, b)[i], Scheduled(roots.witnesses, r.schedule, i))
    <3>1. CASE i \in 1 .. Len(B)
      BY <1>6, <2>2, <3>1
    <3>2. CASE i = Len(B) + 1
      BY <1>6, <1>8, <3>2 DEF policy
    <3>. QED  BY <2>1, <3>1, <3>2
  <2>. QED  BY <1>6, <1>7, <2>3 DEF GovernanceVerifies
<1>10. Names(y, active)
  <2>1. Last(y.bundles).snapshot = snapshot
    BY <1>3, <1>5, <1>6 DEF B
  <2>. QED  BY <1>3, <1>4, <2>1 DEF Names
<1>11. /\ ScheduleVerifies(roots.witnesses, r.schedule)
       /\ HandoffsVerify(roots.policy, x.policies)
  BY <1>1 DEF PublicVerify, Inv, Signed
<1>12. PublicVerify(y, roots) <=>
         /\ RegistryVerifies(active, x.registry)
         /\ KeysVerify(roots.key, x.keys, active, Effective(x.registry))
  BY <1>3, <1>9, <1>10, <1>11 DEF PublicVerify, active
<1>13. RegistryVerifies(active, x.registry) <=> RegistryStands(active, x.registry)
  BY RegistryVerifiesAs DEF Inv, Signed
<1>14. KeysVerify(roots.key, x.keys, active, Effective(x.registry))
         <=> KeysStand(x.keys, active, Effective(x.registry))
  BY KeysVerifyAs DEF Inv, Signed
<1>. QED  BY <1>12, <1>13, <1>14 DEF Accepts, y, active

\* What a reader accepted already verified that far.
LEMMA Standing ==
    ASSUME Inv, NEW r \in Readers
    PROVE  LET active == PolicyAfter(roots.policy, r.policies)
           IN  /\ RegistryStands(active, r.registry)
               /\ KeysStand(r.keys, active, Effective(r.registry))
<1>1. /\ r.keys \in keys /\ r.registry \in registries /\ PublicVerify(r, roots)
  BY Accepted
<1>2. SignedKeys(r.keys) /\ SignedRegistry(r.registry)
  BY <1>1 DEF Inv, Signed
<1>. QED  BY <1>1, <1>2, KeysVerifyAs, RegistryVerifiesAs DEF PublicVerify

\* A held history that extends another is the other and one entry.
LEMMA Extended ==
    ASSUME NEW h, IsSeq(h), NEW g, IsSeq(g), g # << >>, Front(g) = h
    PROVE  /\ g = Append(h, Last(g)) /\ Len(h) \in Nat /\ Len(g) = Len(h) + 1
           /\ DOMAIN h = 1 .. Len(h) /\ DOMAIN g = 1 .. Len(h) + 1
           /\ (\A i \in 1 .. Len(h) : g[i] = h[i]) /\ g[Len(h) + 1] = Last(g)
           /\ \A i \in DOMAIN g : i = Len(h) + 1 \/ i \in DOMAIN h
<1>2. g = Append(h, Last(g))
  BY Rebuilt
<1>3. /\ Len(h) \in Nat /\ Len(g) = Len(h) + 1
      /\ DOMAIN h = 1 .. Len(h) /\ DOMAIN g = 1 .. Len(h) + 1
      /\ (\A i \in 1 .. Len(h) : g[i] = h[i])
  BY <1>2, Appending
<1>4. g[Len(h) + 1] = Last(g)
  BY <1>3 DEF Last
<1>5. \A i \in DOMAIN g : i = Len(h) + 1 \/ i \in DOMAIN h
  BY <1>3
<1>. QED  BY <1>2, <1>3, <1>4, <1>5

LEMMA RotationsAndRecoveriesCost ==
    ASSUME Inv, NEW r \in Readers, NEW k \in Extends(keys, r.keys)
    PROVE  Accepts([r EXCEPT !.keys = k]) <=>
             \/ Last(k).kind = "rotation"
             \/ /\ Last(k).policy = PolicyAfter(roots.policy, r.policies)
                /\ Last(k).approvals \cap RevokedFor(Effective(r.registry), Len(k)) = {}
<1> DEFINE active == PolicyAfter(roots.policy, r.policies)
           eff == Effective(r.registry)
           h == r.keys
           e == Last(k)
           x == [r EXCEPT !.keys = k]
<1>1. /\ r \in [keys : keys, policies : policies, registry : registries,
                schedule : Shown(schedules), bundles : Shown(bundles)]
      /\ h \in keys /\ r.registry \in registries
  BY Accepted
<1>2. /\ k \in keys /\ Len(h) \in Nat /\ Len(k) = Len(h) + 1
      /\ DOMAIN h = 1 .. Len(h) /\ DOMAIN k = 1 .. Len(h) + 1
      /\ (\A i \in 1 .. Len(h) : k[i] = h[i]) /\ k[Len(h) + 1] = e
      /\ \A i \in DOMAIN k : i = Len(h) + 1 \/ i \in DOMAIN h
  <2>1. k \in keys /\ IsSeq(k) /\ IsSeq(h) /\ k # << >> /\ Front(k) = h
    BY <1>1 DEF Extends, Inv, Chained
  <2>. HIDE DEF h
  <2>. QED  BY <2>1, Extended
<1>3. x \in [keys : keys, policies : policies, registry : registries,
             schedule : {r.schedule}, bundles : {r.bundles}]
      /\ x.keys = k /\ x.policies = r.policies /\ x.registry = r.registry
  BY <1>1, <1>2
<1>. HIDE DEF x
<1>4. RegistryStands(active, r.registry) /\ KeysStand(h, active, eff)
  BY Standing
<1>5. Accepts(x) <=> KeysStand(k, active, eff)
  BY <1>3, <1>4, AttestedAccepted
<1>6. \A a \in DOMAIN eff : eff[a] \in Nat
  <2>1. IsSeq(r.registry) /\ \A i \in DOMAIN r.registry : r.registry[i].from \in Nat
    BY <1>1 DEF Inv, Signed, Chained, SignedRegistry
  <2>2. /\ DOMAIN eff = {r.registry[i].authority : i \in DOMAIN r.registry}
        /\ \A i \in DOMAIN r.registry : eff[r.registry[i].authority] = r.registry[i].from
    BY <1>4, <2>1, EffectiveRevocations
  <2>. HIDE DEF eff
  <2>. QED  BY <2>1, <2>2
<1>. HIDE DEF eff, active, e, h
<1>7. e.kind = "rotation" \/ e.kind = "recovery"
  BY <1>2 DEF Inv, Signed, SignedKeys
<1>8. Recoveries(k) = Recoveries(h) \cup (IF e.kind = "recovery" THEN {Len(h) + 1} ELSE {})
  BY <1>2 DEF Recoveries
<1>9. KeysStand(k, active, eff) <=>
        \/ e.kind # "recovery"
        \/ e.policy = active /\ \A a \in e.approvals \cap DOMAIN eff : eff[a] > Len(h) + 1
  <2>1. \A i \in Recoveries(h) : k[i] = h[i]
    BY <1>2 DEF Recoveries
  <2>. QED  BY <1>2, <1>4, <1>8, <2>1 DEF KeysStand
<1>10. (\A a \in e.approvals \cap DOMAIN eff : eff[a] > Len(h) + 1)
         <=> e.approvals \cap RevokedFor(eff, Len(k)) = {}
  BY <1>2, <1>6 DEF RevokedFor
<1>11. Accepts(x) <=>
         e.kind = "rotation" \/ (e.policy = active /\ e.approvals \cap RevokedFor(eff, Len(k)) = {})
  BY <1>5, <1>7, <1>9, <1>10
<1>. QED  BY <1>11 DEF x, active, eff, e

LEMMA RevocationsCost ==
    ASSUME Inv, NEW r \in Readers, NEW g \in Extends(registries, r.registry)
    PROVE  Accepts([r EXCEPT !.registry = g]) <=>
             /\ Last(g).policy = PolicyAfter(roots.policy, r.policies)
             /\ Last(g).authority \notin DOMAIN Effective(r.registry)
             /\ \A i \in Recoveries(r.keys) :
                   Last(g).authority \in r.keys[i].approvals => i < Last(g).from
<1> DEFINE active == PolicyAfter(roots.policy, r.policies)
           h == r.registry
           e == Last(g)
           x == [r EXCEPT !.registry = g]
<1>1. /\ r \in [keys : keys, policies : policies, registry : registries,
                schedule : Shown(schedules), bundles : Shown(bundles)]
      /\ h \in registries /\ r.keys \in keys
  BY Accepted
<1>2. /\ g \in registries /\ Len(h) \in Nat /\ Len(g) = Len(h) + 1
      /\ DOMAIN h = 1 .. Len(h) /\ DOMAIN g = 1 .. Len(h) + 1
      /\ (\A i \in 1 .. Len(h) : g[i] = h[i]) /\ g[Len(h) + 1] = e
      /\ \A i \in DOMAIN g : i = Len(h) + 1 \/ i \in DOMAIN h
  <2>1. g \in registries /\ IsSeq(g) /\ IsSeq(h) /\ g # << >> /\ Front(g) = h
    BY <1>1 DEF Extends, Inv, Chained
  <2>. HIDE DEF h
  <2>. QED  BY <2>1, Extended
<1>3. x \in [keys : keys, policies : policies, registry : registries,
             schedule : {r.schedule}, bundles : {r.bundles}]
      /\ x.keys = r.keys /\ x.policies = r.policies /\ x.registry = g
  BY <1>1, <1>2
<1>. HIDE DEF x
<1>4. RegistryStands(active, h) /\ KeysStand(r.keys, active, Effective(h))
  BY Standing
<1>5. Accepts(x) <=> RegistryStands(active, g) /\ KeysStand(r.keys, active, Effective(g))
  BY <1>3, AttestedAccepted
<1>6. IsSeq(h) /\ IsSeq(g) /\ e.from \in Nat
  <2>1. SignedRegistry(g)
    BY <1>2 DEF Inv, Signed
  <2>. QED  BY <1>1, <1>2, <2>1 DEF Inv, Chained, SignedRegistry
<1>7. /\ DOMAIN Effective(h) = {h[i].authority : i \in DOMAIN h}
      /\ \A i \in DOMAIN h : Effective(h)[h[i].authority] = h[i].from
  BY <1>4, <1>6, EffectiveRevocations
<1>. HIDE DEF active, e, h
<1>8. RegistryStands(active, g) <=> e.policy = active /\ e.authority \notin DOMAIN Effective(h)
  <2>1. \A i \in DOMAIN h : \A j \in 1 .. i - 1 : j \in DOMAIN h /\ g[j] = h[j]
    BY <1>2
  <2>2. \A j : j \in 1 .. Len(h) + 1 - 1 <=> j \in DOMAIN h
    BY <1>2
  <2>3. Len(h) + 1 \in DOMAIN g /\ \A i \in DOMAIN h : i \in DOMAIN g /\ g[i] = h[i]
    BY <1>2
  <2>4. RegistryStands(active, g) <=>
          e.policy = active /\ \A j \in DOMAIN h : h[j].authority # e.authority
    BY <1>2, <1>4, <2>1, <2>2, <2>3 DEF RegistryStands
  <2>. QED  BY <1>7, <2>4
<1>9. ASSUME RegistryStands(active, g)
      PROVE  KeysStand(r.keys, active, Effective(g)) <=>
               \A i \in Recoveries(r.keys) : e.authority \in r.keys[i].approvals => i < e.from
  <2>1. /\ DOMAIN Effective(g) = {g[i].authority : i \in DOMAIN g}
        /\ \A i \in DOMAIN g : Effective(g)[g[i].authority] = g[i].from
    BY <1>6, <1>9, EffectiveRevocations
  <2>2. \A i \in DOMAIN h : i \in DOMAIN g /\ g[i] = h[i]
    BY <1>2
  <2>3. Len(h) + 1 \in DOMAIN g
    BY <1>2
  <2>4. DOMAIN Effective(g) = DOMAIN Effective(h) \cup {e.authority}
    BY <1>2, <1>7, <2>1, <2>2, <2>3
  <2>5. Effective(g)[e.authority] = e.from
    BY <1>2, <2>1, <2>3
  <2>6. \A a \in DOMAIN Effective(h) : Effective(g)[a] = Effective(h)[a]
    BY <1>7, <2>1, <2>2
  <2>7. Recoveries(r.keys) \subseteq Nat
    <3>1. IsSeq(r.keys)
      BY <1>1 DEF Inv, Chained
    <3>. QED  BY <3>1 DEF Recoveries, IsSeq
  <2>8. ASSUME NEW i \in Recoveries(r.keys)
        PROVE  (\A a \in r.keys[i].approvals \cap DOMAIN Effective(g) : Effective(g)[a] > i)
                 <=> (e.authority \in r.keys[i].approvals => i < e.from)
    <3>1. \A a \in r.keys[i].approvals \cap DOMAIN Effective(h) : Effective(h)[a] > i
      BY <1>4 DEF KeysStand
    <3>2. \A a \in r.keys[i].approvals \cap DOMAIN Effective(h) : Effective(g)[a] > i
      BY <2>6, <3>1
    <3>3. e.from > i <=> i < e.from
      BY <1>6, <2>7
    <3>. QED  BY <2>4, <2>5, <3>2, <3>3
  <2>9. \A i \in Recoveries(r.keys) : r.keys[i].policy = active
    BY <1>4 DEF KeysStand
  <2>. QED  BY <2>8, <2>9 DEF KeysStand
<1>. QED  BY <1>5, <1>8, <1>9 DEF x, active, e, h

LEMMA PolicyHandoffsCost ==
    ASSUME Inv, NEW r \in Readers, NEW p \in Extends(policies, r.policies)
    PROVE  Accepts([r EXCEPT !.policies = p]) <=> Recoveries(r.keys) = {} /\ r.registry = << >>
<1> DEFINE active == PolicyAfter(roots.policy, r.policies)
           next == PolicyAfter(roots.policy, p)
           h == r.policies
           x == [r EXCEPT !.policies = p]
<1>1. /\ r \in [keys : keys, policies : policies, registry : registries,
                schedule : Shown(schedules), bundles : Shown(bundles)]
      /\ h \in policies /\ r.registry \in registries
  BY Accepted
<1>2. /\ p \in policies /\ p = Append(h, Last(p)) /\ IsSeq(h) /\ Len(h) \in Nat
      /\ Len(h) + 1 \in DOMAIN p /\ p[Len(h) + 1] = Last(p)
  <2>1. p \in policies /\ IsSeq(p) /\ IsSeq(h) /\ p # << >> /\ Front(p) = h
    BY <1>1 DEF Extends, Inv, Chained
  <2>. HIDE DEF h
  <2>2. /\ p \in policies /\ p = Append(h, Last(p)) /\ Len(h) \in Nat
        /\ DOMAIN p = 1 .. Len(h) + 1 /\ p[Len(h) + 1] = Last(p)
    BY <2>1, Extended
  <2>3. Len(h) + 1 \in 1 .. Len(h) + 1
    BY <2>2
  <2>. QED  BY <2>1, <2>2, <2>3
<1>3. x \in [keys : keys, policies : policies, registry : registries,
             schedule : {r.schedule}, bundles : {r.bundles}]
      /\ x.keys = r.keys /\ x.policies = p /\ x.registry = r.registry
  BY <1>1, <1>2
<1>. HIDE DEF x
<1>4. RegistryStands(active, r.registry) /\ KeysStand(r.keys, active, Effective(r.registry))
  BY Standing
<1>5. Accepts(x) <=> /\ RegistryStands(next, r.registry)
                     /\ KeysStand(r.keys, next, Effective(r.registry))
  BY <1>3, AttestedAccepted
<1>6. next # active
  <2>1. HandoffsVerify(roots.policy, p)
    BY <1>2 DEF Inv, Signed
  <2>2. Before(p, Len(h) + 1) = h
    <3>1. Before(Append(h, Last(p)), Len(h) + 1) = h
      BY <1>2, Continuing
    <3>. QED  BY <1>2, <3>1
  <2>3. Last(p).previous = active /\ Last(p).next # Last(p).previous
    BY <1>2, <2>1, <2>2 DEF HandoffsVerify, HandoffVerifies
  <2>4. p # << >>
    BY <1>2, Appending
  <2>. QED  BY <2>3, <2>4 DEF PolicyAfter
<1>. HIDE DEF active, next
<1>7. RegistryStands(next, r.registry) <=> r.registry = << >>
  <2>1. IsSeq(r.registry)
    BY <1>1 DEF Inv, Chained
  <2>2. r.registry # << >> => 1 \in DOMAIN r.registry
    BY <2>1 DEF IsSeq
  <2>3. r.registry = << >> => DOMAIN r.registry = {}
    BY Empty
  <2>. QED  BY <1>4, <1>6, <2>2, <2>3 DEF RegistryStands
<1>8. KeysStand(r.keys, next, Effective(r.registry)) <=> Recoveries(r.keys) = {}
  BY <1>4, <1>6 DEF KeysStand
<1>. QED  BY <1>5, <1>7, <1>8 DEF x

\* A rotation never costs a reader what it trusts (verify_key_transitions), a
\* recovery, a revocation and a handoff exactly when they contradict what the reader
\* has (verify_recovery, EmergencyRecoveryRegistry, verify_recovery_policy_transition).
THEOREM TrustIsKept == Spec => []TrustSurvives
<1>1. Inv => TrustSurvives
  BY RotationsAndRecoveriesCost, RevocationsCost, PolicyHandoffsCost DEF TrustSurvives
<1>. QED  BY <1>1, Invariance, PTL

-----------------------------------------------------------------------------
(* What a handoff of the witness policy does to the snapshots there are.      *)

LEMMA Counted ==
    ASSUME NEW n \in Nat
    PROVE  IsFiniteSet(1 .. n) /\ Cardinality(1 .. n) = n
<1>1. IsFiniteSet(1 .. n) /\ Cardinality(1 .. n) = IF 1 > n THEN 0 ELSE n - 1 + 1
  BY FS_Interval
<1>. QED  BY <1>1

\* The last of a schedule of which everything has begun governs.
LEMMA AllBegun ==
    ASSUME NEW initial, NEW h, IsSeq(h), NEW g, \A i \in DOMAIN h : h[i].from <= g
    PROVE  Scheduled(initial, h, g) = PolicyAfter(initial, h)
<1>1. DOMAIN h = 1 .. Len(h) /\ Len(h) \in Nat /\ h \in Seq(Range(h))
  BY DEF IsSeq
<1>2. {i \in DOMAIN h : \A j \in 1 .. i : h[j].from <= g} = 1 .. Len(h)
  BY <1>1
<1>3. Cardinality(1 .. Len(h)) = Len(h)
  BY <1>1, Counted
<1>4. SubSeq(h, 1, Len(h)) = h
  BY <1>1, SubSeqFull
<1>. QED  BY <1>2, <1>3, <1>4 DEF Scheduled

\* A handoff that has not begun changes nothing.
LEMMA NotBegun ==
    ASSUME NEW initial, NEW h, IsSeq(h), NEW e, NEW g \in Nat, e.from \in Nat, e.from > g
    PROVE  Scheduled(initial, Append(h, e), g) = Scheduled(initial, h, g)
<1> DEFINE s == Append(h, e)
           begun(k) == {i \in DOMAIN k : \A j \in 1 .. i : k[j].from <= g}
           n == Cardinality(begun(h))
<1>1. /\ DOMAIN h = 1 .. Len(h) /\ Len(h) \in Nat /\ DOMAIN s = 1 .. Len(h) + 1
      /\ (\A i \in 1 .. Len(h) : s[i] = h[i]) /\ s[Len(h) + 1] = e
  BY Appending DEF Last
<1>2. /\ \A i \in 1 .. Len(h) : Before(s, i) = Before(h, i)
      /\ Before(s, Len(h) + 1) = h
  BY Continuing
<1>. HIDE DEF s
<1>3. begun(s) = begun(h)
  <2>1. Len(h) + 1 \notin begun(s)
    <3>1. Len(h) + 1 \in 1 .. Len(h) + 1 /\ ~ (s[Len(h) + 1].from <= g)
      BY <1>1
    <3>. QED  BY <3>1
  <2>2. \A i \in 1 .. Len(h) : \A j \in 1 .. i : j \in 1 .. Len(h) /\ s[j] = h[j]
    BY <1>1
  <2>3. \A i \in DOMAIN s : i = Len(h) + 1 \/ i \in 1 .. Len(h)
    BY <1>1
  <2>4. DOMAIN h \subseteq DOMAIN s
    BY <1>1
  <2>. QED  BY <1>1, <2>1, <2>2, <2>3, <2>4
<1>4. n \in Nat /\ n <= Len(h)
  <2>1. IsFiniteSet(1 .. Len(h)) /\ Cardinality(1 .. Len(h)) = Len(h) /\ begun(h) \subseteq 1 .. Len(h)
    BY <1>1, Counted
  <2>. QED  BY <2>1, FS_Subset, FS_CardinalityType
<1>. HIDE DEF n
<1>5. SubSeq(s, 1, n) = SubSeq(h, 1, n)
  <2>1. n = n + 1 - 1
    BY <1>4
  <2>2. CASE n < Len(h)
    <3>1. PICK m \in 1 .. Len(h) : m - 1 = n
      <4>1. n + 1 \in 1 .. Len(h) /\ n + 1 - 1 = n
        BY <1>1, <1>4, <2>2
      <4>. QED  BY <1>1, <1>4, <4>1
    <3>2. Before(s, m) = Before(h, m)
      BY <1>2
    <3>. QED  BY <3>1, <3>2 DEF Before
  <2>3. CASE n = Len(h)
    <3>1. SubSeq(s, 1, n) = h
      BY <1>2, <2>1, <2>3 DEF Before
    <3>2. SubSeq(h, 1, n) = h
      BY <2>3, SubSeqFull DEF IsSeq
    <3>. QED  BY <3>1, <3>2
  <2>. QED  BY <1>1, <1>4, <2>2, <2>3
<1>. QED  BY <1>3, <1>5 DEF Scheduled, s, n

LEMMA WitnessHandoffsCost ==
    ASSUME Inv, NEW r \in Readers, NEW s \in Extends(schedules, r.schedule)
    PROVE  PublicVerify([r EXCEPT !.schedule = s], roots) <=>
             \A from \in {Len(r.bundles)} \cup {r.schedule[i].from : i \in DOMAIN r.schedule} :
                Last(s).from > from
<1> DEFINE h == r.schedule
           B == r.bundles
           e == Last(s)
           root == roots.witnesses
           x == [r EXCEPT !.schedule = s]
           After == \A i \in DOMAIN h : h[i].from < e.from
<1>1. /\ r \in [keys : keys, policies : policies, registry : registries,
                schedule : Shown(schedules), bundles : Shown(bundles)]
      /\ PublicVerify(r, roots)
  BY Accepted
<1>2. /\ s \in schedules /\ s # << >> /\ Front(s) = h /\ IsSeq(s) /\ IsSeq(h) /\ IsSeq(B)
  <2>1. (\A k \in schedules : IsSeq(k)) /\ (\A k \in bundles : IsSeq(k))
    BY DEF Inv, Succession, Testimony
  <2>2. IsSeq(h) /\ IsSeq(B)
    BY <1>1, <2>1, ShownEntries
  <2>. QED  BY <2>1, <2>2 DEF Extends
<1>3. /\ x.schedule = s /\ x.bundles = B /\ x.keys = r.keys /\ x.policies = r.policies
      /\ x.registry = r.registry
  BY <1>1
<1>4. PublicVerify(x, roots) <=> ScheduleVerifies(root, s) /\ GovernanceVerifies(B, root, s)
  <2>1. \A policy : Names(x, policy) = Names(r, policy)
    BY <1>3 DEF Names
  <2>. HIDE DEF x, h, B
  <2>. QED  BY <1>1, <1>3, <2>1 DEF PublicVerify, B
<1>5. /\ ScheduleVerifies(root, h) /\ GovernanceVerifies(B, root, h)
      /\ SignedSchedule(s)
  BY <1>1, <1>2 DEF PublicVerify, Inv, Signed
<1>. HIDE DEF x, h, B, e, root
<1>6. /\ s = Append(h, e) /\ Len(h) \in Nat
      /\ DOMAIN h = 1 .. Len(h) /\ DOMAIN s = 1 .. Len(h) + 1
      /\ (\A i \in 1 .. Len(h) : s[i] = h[i]) /\ s[Len(h) + 1] = e
      /\ \A i \in DOMAIN s : i = Len(h) + 1 \/ i \in DOMAIN h
  BY <1>2, Extended DEF e
<1>7. Len(h) + 1 \in DOMAIN s /\ \A i \in DOMAIN h : i \in DOMAIN s /\ s[i] = h[i]
  BY <1>6
<1>8. e.from \in Nat \ {0} /\ \A i \in DOMAIN h : h[i].from \in Nat
  BY <1>5, <1>6, <1>7 DEF SignedSchedule
<1>9. HandoffVerifies(e) /\ e.previous = PolicyAfter(root, h) /\ e.next = PolicyAfter(root, s)
  <2>1. HandoffsVerify(root, s)
    BY <1>5 DEF SignedSchedule, root
  <2>2. Before(s, Len(h) + 1) = h
    <3>1. Before(Append(h, e), Len(h) + 1) = h
      BY <1>2, Continuing
    <3>. QED  BY <1>6, <3>1
  <2>3. HandoffVerifies(e) /\ e.previous = PolicyAfter(root, h)
    BY <1>6, <1>7, <2>1, <2>2 DEF HandoffsVerify
  <2>. QED  BY <1>2, <2>3 DEF PolicyAfter, e
<1>10. ScheduleVerifies(root, s) <=> After
  <2>1. HandoffsVerify(root, s) /\ \A i \in DOMAIN s : s[i].from >= 1
    BY <1>5 DEF SignedSchedule, root
  <2>2. \A i \in DOMAIN h : \A j \in 1 .. i - 1 : j \in DOMAIN h /\ s[j].from < s[i].from
    <3>1. \A i \in DOMAIN h : \A j \in 1 .. i - 1 : j \in DOMAIN h /\ h[j].from < h[i].from
      BY <1>5, <1>6 DEF ScheduleVerifies
    <3>. QED  BY <1>7, <3>1
  <2>3. \A j : j \in 1 .. Len(h) + 1 - 1 <=> j \in DOMAIN h
    BY <1>6
  <2>4. (\A i \in DOMAIN s : \A j \in 1 .. i - 1 : s[j].from < s[i].from) <=> After
    BY <1>6, <1>7, <2>2, <2>3, SMTT(30)
  <2>. QED  BY <2>1, <2>4 DEF ScheduleVerifies
<1>11. Len(B) \in Nat \ {0} /\ DOMAIN B = 1 .. Len(B)
  <2>1. B # << >>
    BY <1>5 DEF GovernanceVerifies
  <2>. QED  BY <1>2, <2>1, EmptySeq DEF IsSeq
<1>12. ASSUME e.from > Len(B)
       PROVE  GovernanceVerifies(B, root, s)
  <2>1. ASSUME NEW i \in DOMAIN B
        PROVE  Scheduled(root, s, i) = Scheduled(root, h, i)
    <3>1. i \in Nat /\ e.from > i /\ e.from \in Nat
      BY <1>8, <1>11, <1>12
    <3>2. Scheduled(root, Append(h, e), i) = Scheduled(root, h, i)
      BY <1>2, <3>1, NotBegun
    <3>. QED  BY <1>6, <3>2
  <2>. QED  BY <1>5, <2>1 DEF GovernanceVerifies
<1>13. ASSUME After, ~ (e.from > Len(B))
       PROVE  ~ GovernanceVerifies(B, root, s)
  <2>. SUFFICES ASSUME GovernanceVerifies(B, root, s)
                PROVE  FALSE
    OBVIOUS
  <2>1. (\A i \in DOMAIN h : h[i].from <= Len(B)) /\ e.from <= Len(B)
    BY <1>8, <1>11, <1>13
  <2>2. \A i \in DOMAIN s : s[i].from <= Len(B)
    BY <1>6, <2>1
  <2>3. Scheduled(root, s, Len(B)) = e.next
    BY <1>2, <1>9, <2>2, AllBegun
  <2>4. Scheduled(root, h, Len(B)) = e.previous
    BY <1>2, <1>9, <2>1, AllBegun
  <2>5. Len(B) \in DOMAIN B
    BY <1>11
  <2>6. B[Len(B)].policy = e.next /\ B[Len(B)].policy = e.previous
    BY <1>5, <2>3, <2>4, <2>5 DEF GovernanceVerifies, BundleVerifies
  <2>. QED  BY <1>9, <2>6 DEF HandoffVerifies
<1>14. PublicVerify(x, roots) <=> After /\ e.from > Len(B)
  BY <1>4, <1>10, <1>12, <1>13
<1>15. (\A from \in {Len(B)} \cup {h[i].from : i \in DOMAIN h} : e.from > from)
         <=> After /\ e.from > Len(B)
  BY <1>8
<1>. QED  BY <1>14, <1>15 DEF x, h, B, e

\* A handoff of the witness policy that begins after the snapshots a reader has
\* leaves them alone; one that begins earlier, which sign_transition does not refuse,
\* makes the reader refuse them (policy_for_governance_generation).
THEOREM PastIsSpared == Spec => []HandoffsSpareThePast
<1>1. Inv => HandoffsSpareThePast
  BY WitnessHandoffsCost DEF HandoffsSpareThePast
<1>. QED  BY <1>1, Invariance, PTL
=============================================================================
