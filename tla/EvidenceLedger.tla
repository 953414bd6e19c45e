--------------------------- MODULE EvidenceLedger ---------------------------
(***************************************************************************)
(* The evidence ledger of one task (src/proofos/ledger.py) behind the      *)
(* capabilities that reach it (src/proofos/capabilities.py): grants are     *)
(* issued while a fleet is wired, the ledger is then sealed, a task is      *)
(* opened (again, when an operation is retried under the same task id),     *)
(* and evidence accumulates while the clock runs.  The verdict is what      *)
(* verify_completion would answer now.                                      *)
(***************************************************************************)
EXTENDS TaskRecord

CONSTANTS Recordable,        \* the evidence components try to record
          Grantable,         \* the grants the wiring asks for
          MaxEvidence        \* bound on the length of the ledger

ASSUME TimesAssumption == Times \subseteq Nat
ASSUME RecordableAssumption == Recordable \subseteq Evidence
ASSUME GrantableAssumption == Grantable \subseteq [collector : Collectors, kinds : SUBSET Kinds]
ASSUME ListsAssumption == RequirementLists \subseteq Seq(Requirement)

VARIABLES grants,     \* the observation grants this ledger issued
          sealed      \* no grant is issued any more

ledgerVars == <<evidence, required, grants, sealed, now>>

LedgerTypeOK ==
    /\ evidence \in Seq(Evidence)
    /\ required \in {<< >>} \cup RequirementLists
    /\ grants \subseteq Grantable
    /\ sealed \in BOOLEAN
    /\ now \in Times

LedgerInit ==
    /\ evidence = << >>
    /\ required = << >>
    /\ grants = {}
    /\ sealed = FALSE
    /\ now \in Times /\ \A t \in Times : now <= t

-----------------------------------------------------------------------------
\* ObservationCapability.__init__ -> grant_observation(); refused once sealed.
GrantObservation(g) ==
    /\ ~sealed
    /\ grants' = grants \cup {g}
    /\ UNCHANGED <<evidence, required, sealed, now>>

\* build_fleet() seals once every capability is made.
Seal ==
    /\ ~sealed
    /\ sealed' = TRUE
    /\ UNCHANGED <<evidence, required, grants, now>>

\* TaskAdminCapability.open_task(): never without requirements.  Opening a
\* task again starts its record afresh.
OpenTask(reqs) ==
    /\ reqs # << >>
    /\ required' = reqs
    /\ evidence' = << >>
    /\ UNCHANGED <<grants, sealed, now>>

\* A write presents the grant of an ObservationCapability this ledger issued
\* (issued) or one made elsewhere: by hand, or by another ledger.
Presented == (grants \X {TRUE}) \cup (Grantable \X {FALSE})

\* _check_grant(): issued by this ledger, for this kind, to this collector.
GrantCovers(e, g, issued) ==
    /\ issued
    /\ e.kind \in g.kinds
    /\ e.collector = g.collector

RecordItem(e) ==
    /\ required # << >>          \* else UnknownTaskError
    /\ Len(evidence) < MaxEvidence
    /\ evidence' = Append(evidence, e)
    /\ UNCHANGED <<required, grants, sealed, now>>

\* ObservationCapability.record_observation() -> record().
RecordObservation(e) ==
    /\ e.source = "OBSERVED"
    /\ \E p \in Presented : GrantCovers(e, p[1], p[2])
    /\ RecordItem(e)

\* Anything else needs no grant: the self-reports of
\* ClaimCapability.record_claim(), whatever time they carry, and the records a
\* durable store might hand back mutated.
RecordClaim(e) ==
    /\ e.source # "OBSERVED"
    /\ RecordItem(e)

LedgerTick ==
    /\ now + 1 \in Times
    /\ now' = now + 1
    /\ UNCHANGED <<evidence, required, grants, sealed>>

LedgerNext ==
    \/ \E g \in Grantable : GrantObservation(g)
    \/ Seal
    \/ \E reqs \in RequirementLists : OpenTask(reqs)
    \/ \E e \in Recordable : RecordObservation(e)
    \/ \E e \in Recordable : RecordClaim(e)
    \/ LedgerTick

LedgerSpec == LedgerInit /\ [][LedgerNext]_ledgerVars

-----------------------------------------------------------------------------
Verdict == Verified(TRUE, evidence, required, now)

\* Every OBSERVED item was written by a collector the wiring had granted that
\* kind: no component reaches the ledger's trust by any other way.
ObservedUnderGrant ==
    \A i \in DOMAIN evidence :
        evidence[i].source = "OBSERVED" =>
            \E g \in grants : /\ g.collector = evidence[i].collector
                              /\ evidence[i].kind \in g.kinds

\* The documented contract, said without "most recent": a task is VERIFIED iff
\* every required kind has a sound, trusted, fresh observation that no unsound
\* trusted observation of the kind is as recent as.
Contract ==
    /\ required # << >>
    /\ \A i \in DOMAIN evidence : evidence[i].intact
    /\ \A n \in Effective(required) :
          \E i \in Fresh(evidence, required[n], now) :
             \A j \in Fresh(evidence, required[n], now) :
                evidence[j].at >= evidence[i].at => evidence[j].sound

VerdictIsContract ==
    LET v == VerifyCompletion(TRUE, evidence, required, now)
    IN  /\ Verdict <=> Contract
        /\ (v.status = "VERIFIED") <=> Verdict
        /\ Verdict <=> v.missing = {} /\ v.failure = "NONE"

\* The per-item report is a projection of the verdict: a task is VERIFIED iff
\* each requirement has an item reported as satisfying it, what satisfies is
\* accepted, and what is accepted is trusted, sound and of a required kind.
AssessmentsAgree ==
    /\ required # << >> /\ AllIntact(evidence) =>
          (Verdict <=> \A n \in Effective(required) :
                          \E i \in DOMAIN evidence :
                             /\ evidence[i].kind = required[n].kind
                             /\ Satisfies(evidence, required, now, i))
    /\ \A i \in DOMAIN evidence :
          /\ Satisfies(evidence, required, now, i) => Accepted(evidence, required, now, i)
          /\ Accepted(evidence, required, now, i) =>
                evidence[i].sound /\ evidence[i].source \in TRUSTED_SOURCES

\* Evidence an agent reports about itself never moves the verdict to VERIFIED.
SelfReportNeverHelps ==
    [][Len(evidence') = Len(evidence) + 1 /\ evidence'[Len(evidence')].source # "OBSERVED"
         => (Verdict' => Verdict)]_ledgerVars

\* Waiting never helps: as observations expire a verdict can only be lost.  In
\* particular an old success cannot reappear when a newer failure expires.
TimeOnlyExpires == [][now' # now => (Verdict' => Verdict)]_ledgerVars

=============================================================================
