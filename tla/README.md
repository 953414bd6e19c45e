# ProofOS in TLA+

ProofOS runs AI agents and answers whether their task is VERIFIED. Its claim is that no
agent decides that: evidence does, observed by collectors the wiring trusts, recorded in a
hash-chained journal and judged by a deterministic contract. This directory models the parts
of ProofOS that carry the claim, checks them with TLC and proves what matters most with TLAPS.

Paths are relative to the repository (`src/` of the map in `PROJECT.json`).

## 1. The system

| component | code | state it keeps | operations |
|---|---|---|---|
| Journal and hash chain | `proofos/journal.py`, `integrity.py` | per execution, events with sequence, predecessor's digest and own digest | `append`, `list_execution`, `verify_events`; sinks in memory, in a file, fan-out |
| Durable journal | `proofos/firestore_journal.py` | event documents, index by event id, head document | `append` (transaction, create-if-absent, bounded retries), `list_execution`, `verify_chain`, `store` |
| Completion contract | `proofos/verifier.py` | none | `verify_completion`, `assess_evidence` |
| Evidence ledger | `proofos/ledger.py`, `capabilities.py` | per task: requirements, evidence; grants; sealed | `grant_*`, `seal`, `open_task`, `record`, `request_completion` |
| Attestation ingestion | `proofos/ingestion.py`, `attestation.py`, `collector_registry.py` | issued and spent nonces, registered collectors | `issue`, `ingest`, `NonceLedger.consume` |
| Orchestrator | `proofos_agent/orchestration.py` | one coroutine's locals: attempt, decisions, failures of the audit | `run_agent_execution`, `run_multi_agent_execution` |
| Turn runners | `proofos_agent/turn_runner.py`, `gemini_runner.py`, `verification_tool.py` | count of the action's runs, the tool's recorded calls | executor and verifier turns, retries of a rate limit |
| Fleet | `proofos_agent/fleet.py` | capabilities per role | planner, executor, CI and probe collectors |
| Continuity | `proofos/continuity.py`, `resume.py` | the operation's checkpoint (version, phase, position and hash in the journal) | `put` (compare-and-set), `advance`, `resume` |
| Registry, catalog, messages | `proofos/registry.py`, `agent_catalog.py`, `profiles.py`, `messages.py` | registered agents, digests, message log | `register`, `catalog`, `send` |
| Collector process | `proofos_collector/` | a signing key | answer a request with a signed observation |
| Witness ledgers | `proofos/witness.py`, `file_witness.py`, `firestore_witness.py` | per operation, the checkpoints witnessed, in order | `observe`, `latest` |
| Quorum and certificates | `witness_receipt.py`, `witness_quorum.py`, `quorum_certificate.py` | none of their own | sign a receipt, evaluate votes, certify, verify |
| Gossip and gate | `witness_gossip.py`, `transparency_gate.py`, `transparency_audit_receipt.py`, `scripts/audit_transparency.py`, `sign_transparency_audit_receipt.py` | published receipts | bundle votes, accept or hold or reject, sign and publish an audit receipt |
| Governance | `governance_witness.py`, `governance_witness_policy_rotation.py` | histories of attested snapshots and of witness policies | attest a snapshot, hand a policy off |
| Auditor authorities | `auditor_key_rotation.py`, `auditor_key_recovery.py`, `recovery_policy_rotation.py`, `recovery_authority_revocation.py` | histories of keys, policies and revocations | rotate, recover, hand off, revoke; `scripts/verify_transparency_audit_receipt.py` reads them all |
| Release pipeline | `.github/workflows/vercel-*.yml`, `authenticated-e2e.yml`, the `build_*`, `verify_*` and `authorize_*` scripts they run | sealed artifacts of workflow runs | probe a deployment, derive a verdict, admit, promote, authorize |
| Service, console, other scripts | `proofos_service/`, `web/`, the rest of `scripts/` | none | one handler per execution; offline tools |

How they interact. The service starts `run_agent_execution` per request. It opens a task in the
ledger, has the planner and the executor act, and has the verifier's turn call a tool that asks
the ledger for the verdict. When the verdict is PENDING for missing runtime evidence it has a
collector observe, and tries again. Ledger, roles and orchestrator write their events to one
journal, whose sink may be Firestore and shared by processes. Remote collectors answer a nonce with
a signed attestation, which the ingestor turns into evidence. A continuity checkpoint names
a position of the journal, by sequence and hash, so that a worker can resume after a restart; signed
checkpoints are shown to witnesses, whose ledgers and receipts let an auditor notice a history
that was rewritten. The auditor's own key, the authorities that may replace it and the witnesses that
attest to both are governed by histories a reader pins by their heads. Before any of it may run
against a live deployment with credentials, the release pipeline has to have seen that deployment
healthy, ready, and closed to anonymous callers.

What is hard:

* *Concurrency.* Processes append to one execution; workers resume one operation; writers share
  a witness's directory. Only create-if-absent and compare-and-set separate them.
* *Failure.* A commit is applied and not acknowledged; an audit event cannot be written after the
  action ran; a process dies, or the power fails, between an effect and its record.
* *Ordering and replay.* Answers of collectors arrive late, twice, altered or for another request;
  evidence expires, contradicts older evidence, or is dated by a clock that is ahead.
* *Bounds.* Attempts, retries and the action's ceiling are counters, read around awaits.

What makes each part correct:

* journal: an acknowledged event stays, once, at its place in one gapless chain; tampering shows;
* contract: VERIFIED needs for every requirement a sound, trusted, fresh observation that no failure
  is as recent as; nothing an agent says of itself counts;
* ingestion: one request, at most one item, and it is what the collector signed for that request; a
  refusal leaves no trace;
* orchestrator: it ends; VERIFIED is evidenced; a lost trail downgrades; the action runs once;
* continuity: work is not repeated, nobody collects for an action that never ran, the checkpoint
  only advances, and a truncated trail is noticed with no false alarm;
* witnesses: one history per operation, no version skipped, and success means durable;
* quorum and gate: acceptance rests on votes of the pinned witnesses, whoever carried them, and two
  accepted histories cost equivocating witnesses;
* governance and authorities: what a reader pins fixes what it trusts; no legal step of the signers
  costs it that trust except where the rules say so;
* replication: every copy is of one chain, and what is missing from a copy was reported;
* release: an authorization rests on what was seen, all of it by one observer.

`PROJECT.json` lists under `hazards`, line by line, where each of these can go wrong.

## 2. The modules

| part | modules | proofs |
|---|---|---|
| journal | `JournalChain` (digests, chain, verification), `AppendLog` (abstract), `FirestoreJournal`, `JournalAudit` (EXTENDS it) | `FirestoreJournalProofs` |
| verdict | `Verifier` (the contract), `TaskRecord` (one task's evidence and clock), `EvidenceLedger` | `VerdictProofs` |
| ingestion | `Ingestion` | `VerdictProofs` |
| execution | `Execution` (EXTENDS `TaskRecord`) | `VerdictProofs` |
| continuity | `Continuity` | `ContinuityProofs` |
| witness | `Witness` (rules), `WitnessHistory` (abstract), `WitnessLedger` (what both ledgers share), `FileWitness`, `FirestoreWitness` | `FirestoreWitnessProofs` |
| replication | `JournalFanout` | `JournalFanoutProofs` |
| transparency | `WitnessQuorum` (votes to audit receipts, as operators), `Transparency` | `TransparencyProofs` |
| trust of an auditor | `TrustChains` (histories and their verification), `AuditorTrust` | `AuditorTrustProofs` |
| release | `ReleaseGate` | `ReleaseGateProofs` |

Where a module of proofs is about several components they are extended together, so the names of
`EvidenceLedger`, `Ingestion` and `FileWitness` say whose they are (`LedgerSpec`, `IngestionSpec`,
`FilesSpec`). Every `MC<module>` gives the constants of its module small values. `map` in
`PROJECT.json` names for each definition the lines it stands for.

### Journal: `JournalChain`, `FirestoreJournal`, `JournalAudit`, `AppendLog`

A digest is the sequence of contents it covers: two digests are equal exactly when everything
below them is, which is what SHA-256 over the canonical event, its predecessor's digest included,
is relied on for. `Finalize`, `Intact` and `VerifyEvents` are those of `journal.py`.

`FirestoreJournal` has the three kinds of document (`events`, `index`, `head`) and, per writer, the
`append()` it is in. `_append_once` is cut where the code talks to the store: read of the index,
read of the head, commit. A commit succeeds if neither document it creates exists. It may be applied
with the acknowledgement lost, or meet a document that exists, which the caller's loop retries up to
`MAX_APPEND_ATTEMPTS`. When what its transaction read has changed it may also be aborted and rerun
(`MaxTransactionRuns` stands for the client library's limit), and need not be. `Fail` is any other
error of the store. Firestore itself is external: it is modelled from the way the sink uses it,
atomic commits and create-if-absent only. The proofs do not need the isolation of the transaction's
reads.

`JournalAudit` adds `verify_chain()`, cut between its two reads: `AuditEvents` streams the events,
`AuditHead` reads the head in a request of its own and returns `Answer`, which the properties judge
wherever the head may be read. The run's specification is `FairAuditSpec`; nobody changes a document
in it. `TamperSpec`, which is for the proofs, adds `Edit`: one document is changed behind the sink's
back, once: an event deleted, edited with or without a fresh digest, renumbered or added at the
tail, the head deleted or one of its fields changed. It happens while no `append()` is under way;
writers go on afterwards and append to what is left. Records `list_execution` cannot parse raise
there, and are the other outcome of `AuditHead`. A query is taken to be answered as of one moment.

`AppendLog` is the promise: one log, an identifier at most once, acknowledgement only of what is in it.

### Verdict: `Verifier`, `TaskRecord`, `EvidenceLedger`

`Verifier` has `verify_completion` and `assess_evidence` as operators on a task's evidence and
requirements: integrity first, trusted sources only, the horizon of the *first* requirement of a
kind, the most recent observations, and an unsound one among them decides. Dates are naturals;
`Undated` is a timestamp that does not parse. `TaskRecord` declares what a ledger keeps of one task,
which `Execution` is about too. `EvidenceLedger` is the ledger around it:
grants until `seal`, `open_task` once, `record` refused unless the grant is one the ledger issued
and covers the kind, claims under any source but OBSERVED, and a clock.

### Ingestion: `Ingestion`

`Request` issues a nonce for a target (execution, task, kind, profile). `Observe` is any collector
process signing an answer to any nonce it has seen, at any reading of a clock that may be ahead.
`Deliver` hands any attestation ever signed, or an altered copy of one, to the caller waiting on
any nonce: delay, repetition, rerouting and alteration are all this one action. `Ingest` is the
ingestor whole, its checks in the order of `ingestion.py:180-300`, the nonce spent last. A
signature is the key and the payload it was made over. `Wired` is what `build_attested_fleet` does:
whatever kinds the registry lets a collector attest to, the ingestor has a capability to write.

### Execution: `Execution`

One action per stage of `run_agent_execution`: start, open, plan, seed evidence, execute, claim,
verify (tool calls of one turn, with retries under Gemini), decide, collect, settle. Every append
to the journal either works or is lost, for a kind of event chosen once (`MaxLost` events at
most): a loss the orchestrator notes goes to `noted` (its `audit_failures`), a loss inside a role
raises where the code raises, and inside the model's tool call is swallowed as
`gemini_runner.py:266` does. A verifier's turn answers what the contract says of the evidence *at
the time of the call*; the decision of the turn is formed from its calls as
`decision_from` does, whatever the model says. `Tick` moves the clock between any two steps.

### Continuity: `Continuity`

The journal of one execution (events carry the life of the journal they were written in, so that a
tail lost and written over again does not hash as before), the operation's checkpoint, and
workers that go through read checkpoint, read journal and plan, act, record, collect or verify,
read the journal again, and put. `Crash` can strike at every stage, `LoseTail` is the loss of the
journal's end. Workers outside `Current` have a catalog without the pinned agents. The
refusals of `resume()` are kept apart by their reason. `src/` has no long-running worker loop:
the worker is the sequence of calls `tests/` and the documentation make of this API.

### Witness: `Witness`, `WitnessHistory`, `WitnessLedger`, `FileWitness`

`Witness` has the pure rules of `witness.py`: which checkpoint may follow, what is a replay, what is
an equivocation. `WitnessHistory` is the promise: a history that grows by what may follow, answers
that are prefixes of it, and a loss of its end at worst. `WitnessLedger` declares the observers of
both durable ledgers: who observes which envelopes, under which clocks. `FileWitness` is
`file_witness.py` step by step: list the directory, read the records, decide, create the next
version's file exclusively, write, `fsync` the file, `fsync` the directory, read back. A record file
counts with its content written, its content synced and its directory entry synced, separately.
`Interrupt` stops a writer between any two steps, a failing `fsync` included; `PowerFails` keeps of
each file any state between what was synced and what was written. A new operation's directory is
itself never synced in the root (`namespace`): a power failure may take it with all its records, and
the properties are stated for a directory that was kept.

### Witness in Firestore: `FirestoreWitness`

The same `Witness` and the same promise, `WitnessHistory`, over records and a head that repeats
the latest. `observe()` is cut at every read and at the commit. A commit that creates what exists
is refused (`Refused`) and the loser reads head and record again to classify what it finds
(`ResolveHead`, `ResolveRecord`); an applied commit whose answer is lost is sent again and meets
its own documents; `Abort` is the client library running the transaction again. As in the journal,
the reads of a transaction are not assumed to be a snapshot. `AuditRecords` and `AuditHead`
are `verify()`, which reads in that order while writers go on. `Lose` takes any of the
documents away, once, while nobody is at work, and observing goes on afterwards.

### Replication: `JournalFanout`

Several processes append to one execution, each through a fan-out of its own: the shared primary,
which is the log `AppendLog` describes and `FirestoreJournal` implements; the shared durable
replica, which is `FirestoreJournalSink.store()` with its transaction, its replay check outside the
transaction and its classification of what it finds; and the process's own stream replica, whose
memory is `_ChainingSink` and whose lines outlive it. Any step may fail, a process may die and
lose its memory, and `append()` may be called again under the event id. `acked`, `told` and
`conflicts` record what `append()` returned, raised for, and refused.

### Transparency: `WitnessQuorum`, `Transparency`

`WitnessQuorum` has, as operators, receipts and their verification, `evaluate_witness_quorum` with its
first-vote rule and its collection of conflicts, certificates, gossip bundles, `evaluate_transparency`
and the audit receipt with its parser. `Transparency` puts witnesses in front of it: honest ones
record what a `WitnessHistory` lets them, `Equivocators` anything. What was certified and what
can be bundled are derived from the votes signed so far, current or outdated, paired wrongly or
edited on the way; an auditor may be handed any of it and publishes a receipt create-only.

### Trust of an auditor: `TrustChains`, `AuditorTrust`

Five kinds of history: the auditor's keys (rotations, emergency recoveries), handoffs of the recovery
policy, revocations of recovery authorities, handoffs of the governance witness policy, and
attested governance snapshots that name the heads of the first three. `TrustChains` has each entry, each
verification and `PublicVerify`, the order in which `verify_transparency_audit_receipt.py`
applies them. A digest is what it covers, so a head is the tuple of the last entry, which
contains the head before it. In `AuditorTrust` each signer extends *any* history it holds, as nothing in
the code keeps it to the latest; readers are given any combination of the histories,
also with the last entry of one moved onto another, and `Readers` are those `PublicVerify` accepts.

### Release: `ReleaseGate`

One deployment event, and the jobs of three workflows as records with the step they are at. Every
probe (health, readiness, anonymous denial; by the public observer, as a trusted source, and again
in the follow-up run) is one action, and between any two `ChangeWorld` may change the protection in
front of the deployment, the identities the provider trusts and the readiness of the instance that
answers, `Push` may move `main`, `Rerun` may start failed jobs again and `Fail` may end a job. What
is built from the probes is a derived operator (`LaunchReady`, `Diagnosis`, `Admission`,
`TrustedPromotion`, `FollowupPromotion`), because an independent verifier derives it again;
`Authorize` is the decision of the authenticated run, started by a follow-up or by hand, and
`Promotion` its outcome. `sightings` is history: what the deployment itself was seen to answer,
apart from what was concluded.

## 3. The runs

Bounds are constants of the configurations. Every passing run explores its whole state space.

| run | instance | shows |
|---|---|---|
| `journal` | 2 writers, an auditor, 3 drafts (two with one event id), 2 attempts, 2 runs of a transaction | `ChainIntact`, `RacesAreProgress`, `VerifyChainExact`, the refinement of `AppendLog`, and `AppendReturns` |
| `verdict` | 2 kinds, 3 identities, 3 requirement lists, 3 items, 3 readings of the clock | `VerdictIsContract`, `AssessmentsAgree`, `SelfReportNeverHelps`, `TimeOnlyExpires` |
| `ingestion` | 2 requests, a collector in scope and one not, 3 attestations | `OneObservationPerRequest`, `RecordedIsAttested`, `GenuineAnswerAdmitted` |
| `execution` | both runners, 3 requirement lists (one names a kind twice, one is empty), 2 attempts, 2 tool calls and 1 retry in a turn, 1 lost event, clock 0..2 | `VerifiedIsEvidenced`, `OutcomeExplained`, `ActionAtMostOnce`, `Terminates` |
| `continuity` | 2 current workers and 1 with an older catalog, 4 events, 1 death, 1 loss | `CollectsOnlyForActions`, `RepeatsAreUnrecorded`, `NoFalseAlarm`, `CheckpointOnlyAdvances` |
| `file_witness` | 2 writers, 3 envelopes of 2 versions, 5 observations, 1 interruption, 1 power failure | `CreatedIsNeverForgotten`, the refinement of `WitnessHistory` |
| `firestore_witness` | 2 writers, 4 envelopes of 2 versions, 4 observations, 1 loss of documents, audits | `LostRacesAreTold`, `FalseAlarmsAreRaces`, `VerifiedIsComplete`, the refinement of `WitnessHistory` |
| `journal_fanout` | 2 processes, 2 event ids and 2 bodies, durable replica and stream, 4 appends, 1 death | `CopiesShareOneChain`, `AckedIsReplicated`, `ConflictsAreRaces`, `MissingLinesAreTold` |
| `transparency` | 3 witnesses, 1 of them equivocating, threshold 2 (and 1), 3 checkpoints of 2 versions, 4 receipts, lists of up to 3 votes, 2 publications | `AcceptedHasQuorum`, `DivergenceIsEquivocation`, `QuorumIsOfTheSet`, `ReceiptsVerify` |
| `auditor_trust` | 3 keys, recovery policies of 2 of 3 and 2 of 2, witness policies of 2 of 2 and 1 of 2, histories of up to 2, 4 entries in all | `HeadDeterminesTrust`, `SplitNeedsEquivocation`, `TrustSurvives`, `HandoffsSpareThePast` |
| `release_gate` | a main of 2 commits, every deployment event, 2 changes or re-runs between any two probes | `AuthorizedWasSeen`, `NothingSeenIsPromotedAway` |
| `release_contract` | the same | violated: `ContractIsEmitted` (section 4) |

Why the bounds are enough to be of interest. Two writers are the fewest that race, and two attempts
the fewest that let a race be lost and the next won or lost; two drafts with one identifier are a
caller's retry. Two identifiers make chains of up to two, so a changed event is the only one, the
tail or one with a successor, and an append may come between the auditor's reads. Three items let an
old success, a newer failure and a self-report meet under a horizon of one time unit, which the
clock crosses. Two requests allow rerouting, and three attestations a replay beside two distinct
answers. Two attempts of the orchestrator are a first and a last one, with a collection between.
Four events are the start, an action, its repetition and what follows; one death and one loss are
each needed for a counterexample below, and the proofs of `ContinuityProofs` cover any number. Five
observations are a creation, a replay, a successor, a rival and a repetition after the power came
back.

Four observations in Firestore are a version, its successor, a rival of either and a repetition after
the loss. Four appends let both processes try both identifiers, or one identifier be tried four times.
Three witnesses with a threshold of two are the smallest majority with a vote to spare, so one
equivocator can divide the others; four receipts are two for each of two checkpoints. Four entries are
a recovery, the revocation of its approver, a handoff and a snapshot that names them, or two snapshots
that fork. Two changes let protection be lifted for one probe and restored for the next.
The proofs cover any number of witnesses, policies, keys, commits and changes.

Symmetry is used in `ingestion` (nonces), `continuity` (the current workers), `file_witness`,
`firestore_witness` and `journal_fanout` (writers, processes), `transparency` (honest witnesses, two
checkpoints, paths) and `auditor_trust` (keys but the first, authorities and witnesses of like role).
Their temporal properties are safety properties. Deadlock checking is off where the
bounds stop the system or it really ends; the journal's run keeps it.

### Fairness

`AppendReturns` assumes weak fairness of each writer's own step: a process inside `append()` keeps
running, and every call to the store returns, with an error if need be. Nobody is obliged to call
`append()`, and no failure or success of the store is assumed. `Terminates` assumes weak fairness of
the orchestrator's next step. That a request to a collector returns follows from its transport's
timeout, and that the retries end is checked; that one call of the model returns or raises is an
assumption, as `gemini_runner.py` passes no timeout of its own. The clock is under no fairness. The
other modules state safety only.

## 4. Where the code and its documentation disagree

**A run.** `release_contract` states that a follow-up of a deployment that is in order ends with a
Provider Admission Contract, in one of the "three bounded states" of `docs/launch.md:259`. TLC finds
it violated: when the original probe and the follow-up both find the deployment ready,
`derive_admission` refuses its own inputs as inconsistent
(`scripts/build_vercel_provider_admission.py:84`, because
`build_vercel_trusted_source_diagnosis.py:99-118` calls a trust path accepted only after a rejection),
the follow-up run fails, and the authenticated run that only a successful follow-up starts
does not start.

**Exceptions the properties name.** Where the code does less than a sentence beside it says, the
property of the passing run states what does hold, with the exception in its formula:

* `VerifiedIsEvidenced` allows VERIFIED with the last event, EXECUTION_COMPLETE, lost: the downgrade
  (`orchestration.py:371-377`) reads the failures before that append (379-386), while README.md:376
  promises ABSTAIN / AUDIT_UNAVAILABLE when the trail becomes unwritable. Under Gemini it also allows
  the loss of the roles' own records: `gemini_runner.py:266` swallows the exception of
  `Executor.execute` (`fleet.py:149-154`) with the turn's, and `audit_intact` stays True, while
  `journal.py:70-74` says that such a loss is never a neutral event.
* `VerifyChainExact` allows `verify_chain` to refuse an intact chain when an append commits between
  its two reads (`firestore_journal.py:328-329`): the head is then ahead of the tail it listed, and the answer
  is `(False, "chain head next_sequence ... does not match event tail ...")` (359-367), while line 326 says it checks
  "event linkage and the persisted chain-head commitment". It is about the moment of the
  reads; asked again when nothing is being appended, it accepts.
* `ActionAtMostOnce` allows a second run of the action after its record was lost: `_is_rate_limit`
  (`gemini_runner.py:60`) looks for "429" in the exception's text, which contains the execution's id,
  and the count of the action's runs is raised only after `execute` returned (146-147).
* `RepeatsAreUnrecorded` bounds the repetitions of the action by the deaths between it and its record
  and by the workers that planned before the first record; `resume.py:8` says that a restart must not
  repeat the work.
* `NoFalseAlarm` excepts a worker refused at PLANNED for an action the journal has. When the process
  dies after ACTION_EXECUTED was journaled and before the checkpoint was put, every later `resume()`
  is refused in this way (`resume.py:137-143`), where `resume.py:8-10` promises collection.
* `CreatedIsNeverForgotten` is about records whose own writer passed the barriers. A replay, or a lost
  race for the same record, is answered with a record no barrier may have forced to disk
  (`file_witness.py:128-129`, 235-236, 246-255), while line 253 says a failed barrier must not be
  reported as success.
* `ReceiptsVerify` excepts the receipt of a bundle without votes:
  `sign_transparency_audit_receipt.py:129-140` signs it and reports it valid, and
  `TransparencyAuditReceipt.from_dict` refuses its empty operation for ever (200-211, 233-236).
* `SplitNeedsEquivocation` is about majority policies and readers whose witness schedules agree for
  the generation: the code allows both to be otherwise.

**Remarks without a property.** `verify_governance_history` (`governance_witness.py:440-528`) compares
the generations and digests of successive snapshots and not the component generations they
name, so a later attested snapshot may name an older revocation registry and the revoked authority
counts again; `recovery_authority_revocation.py:11` calls the registry append-only.
`FirestoreJournalSink.store()` writes an event and its index and not the head
(`firestore_journal.py:181-231`), so `verify_chain` never accepts the durable replica, whose copies
`JournalFanout` shows to be right. Without `Wired` (the registry trusts a collector the ingestor has
no capability for) `ingestion.py:278-300` spends the nonce before the recording is refused, so
the theorems that need it say so. The directory of a new witnessed operation is never forced
to disk in its root (`file_witness.py:205`). And a role that cannot write its own event raises out
of `run_agent_execution`, where README.md:376 promises an ABSTAIN; the model returns "raised".

## 5. The proofs

All are for every value of the constants: any number of writers, drafts, collectors, workers,
deaths, witnesses, keys, policies and commits, any threshold, any horizon and any clock.

**`FirestoreJournalProofs`.** `ChainIntact` is not inductive by itself: a commit writes what its
transaction read earlier. The inductive invariant is
`IInv == TypeOK /\ ChainIntact /\ AckedDurable /\ CallKnows /\ SnapshotIsPast /\ RacesLost`.
`CallKnows` says what a call carries is true of the documents; `SnapshotIsPast` that a head read
earlier is the present one or names a sequence that is taken by now, so that create-if-absent refuses
it. `RacesLost` counts the lost races against the growth of the head. From it follow
`ChainStaysIntact`, `AckedStaysDurable`, `LostRacesAreProgress`, `HistoryIsAppendOnly` and
`Refinement`, which maps a commit to `Append1`, a return to `Acknowledge`, and all else to stuttering.
`TamperingShows` is about any finite collection of documents, not only those one edit away: two
verified chains with one last digest are equal from the end down (`TailDeterminesChain`; the
digest's length is the chain's), so what `verify_chain` accepts under the head lists the history.
`ListExecution` is *some* ordering
by sequence, as a stable sort of what the store returned would be; that one exists for every finite
collection is `SortExists`. A forged duplicate under a key of its own is among the collections
`TamperingShows` is about, and not among the edits of `JournalAudit`.

*The audit.* What a `verify_chain()` listed of documents nobody changed is a beginning of the events
there are by now (`Earlier`), and a beginning verifies, with the head that matches it if and only if
nothing came since (`EarlierVerifies`): `VerificationIsExact`, with `VerifiedIsTheHistory` for what
is changed in the listing. For a document changed in the store `IInv` is lost for good. What stays
is `Sound` (types, drafts, and `SnapshotIsPast`, so that a commit is still made from the present
head) and `Damaged`: an event that is not its own digest's, or, with every event under its own
number, one missing below the head, beyond it, not chained to its predecessor, or a last one whose
digest the head does not have. Every edit damages (`EditedEventsAreDamaged`,
`EditedHeadsAreDamage`), an append to damaged documents leaves them damaged, and damages no less
what was listed before it (`DamageGrows`): it moves the head on and chains its event to the head's
digest, and neither fills a gap. What is damaged is refused (`DamageRefused`):
`DamageIsNeverAccepted`. TLC finds the same with `SPECIFICATION TamperSpec`, one attempt and one run
in `JournalAudit.cfg`, in 1.3 million states.

**`JournalFanoutProofs`.** For any number and order of replicas. Only the primary places events, so
what anybody has in hand is an event of the log. `Coupled` says the durable replica has both
documents of an event or neither; a torn read therefore sees the event or nothing, and what refuses
a commit is the event itself. `Standing` says of each call that the durable replicas it has passed
hold its event; it is what `AckedIsReplicated` needs. The step lemmas rest on `Grows`: what is
stored does not change any more.

**`VerdictProofs`, the ledger.** The ledger's part is an invariant; the verdict's is a property of the
operators on *every* ledger of the type. `VerdictMeetsContract` shows the code's route over the most
recent observations equal to a formula that does not mention them; it needs that a finite set of
dates has a greatest. `ReportIsOfTheVerdict` shows the per-item report to be a projection of the
verdict. `SelfReportsNeverHelp` and `WaitingNeverHelps` follow for a step, from the way the fresh
observations of a kind change.

**`VerdictProofs`, an execution.** `IInv` has `AnswersStand` (what the tool answered in a turn is
the contract's verdict on the evidence there *still* is, at the time of the call: nothing is recorded
between a turn and the use of its decision), `AttemptsCounted` (one decision per attempt),
`OutcomeGrounded` (an outcome other than the initial one comes from a decision, an exhausted loop or
a trail that was noted as lost), `TrailKnown` (under the deterministic runner what was lost was
noted) and `ActionsCounted` (the action's runs against the counter and the retries). With
`SatisfiedIsContract` they give `NoVerdictWithoutEvidence`, `AnswersSayWhy` and `ActionRunsOnce`.

**`VerdictProofs`, ingestion.** `WiredInv` adds to the properties that what was signed is well-formed
(`SignedWell`: an altered attestation has a signature of what was signed) and, under `Wired`,
that a spent nonce has its evidence (`SpentIsRecorded`). That is why `AcceptanceMeansRecorded`,
`GenuineAnswersAdmitted` and `RefusalsSpendNothing` have `Wired` as a hypothesis and the others
have none. `build_attested_fleet` wires so.

**`ContinuityProofs`.** `Inv` has `Grounded` (a checkpoint past PLANNED, stored or in hand, and a
worker past its action mean that an action ran), `FollowsPlan` (a worker does what its plan said),
`HeldIsStoredOrOlder` (a checkpoint in hand is the stored one or has an older version), and
`NothingMissing` (the journal starts with every trail somebody holds, as long as nothing is lost).
`NothingMissing` is what makes an alarm true; `HeldIsStoredOrOlder` is what makes compare-and-set
enough. `Counted` is the arithmetic of `RepeatsAreOfDeaths`: before the first record of the action,
what was performed is in some worker's hands or was dropped there; once there is a record no worker
is made ready any more, so what was performed and what may still be is bounded by the current
workers and the deaths.

**`FirestoreWitnessProofs`, in Firestore.** `Inv` has `Documents` (until something is lost the
records are exactly the prefixes of the head), `Answers`, `Calling` (what a call read is a prefix of
the head still, so that a create that succeeds extends the head it was computed from) and `Audited`.
A loss leaves one of two states: every promised record is still a prefix of the head (`Kept`), or a
record stands beyond the head (`Orphaned`), which no audit passes and whose version no create can
pass; that is why a clean audit is complete. `KeepsTheHistory` maps a commit to `Accept`, an answer
to a prefix, a loss to a loss.

**`FirestoreWitnessProofs`, in files.** `FilesInv`: the versions are without a gap and written but
for the last (`Growing`), because a writer creates only what follows all it listed, readable; or a
power failure left a directory of synced files that cannot be read (`Ruined`), which every call
since refuses. `Remembers`: a record that passed its barriers has its entry synced and its
predecessors below it. `Attended`: an unreadable directory has a writer at work or had a death or a
failure. `FilesRemember` and the refinement `FilesKeepTheHistory` follow; the history is the longest
readable prefix, so a torn file is not yet part of it.

**`TransparencyProofs`.** Whatever a transport makes of the votes, the receipts in a list were
signed by witnesses (`ListedReceipts`), so an admitted vote was cast and an evaluation without
conflicts counts signatories of one commitment (`QuorumOfSignatories`). `Inv` adds `Kept`: an honest
witness signed one commitment of a scope. As votes are only added, `AcceptedQuorum` stays true, and
`DivergenceCosts` is the cardinality of the overlap of two quorums, which `Kept` leaves to
equivocators. `QuorumsAreOfSets` is about every list of votes, as a bag: the first-vote rule keeps,
of a witness without a conflict, the one vote it has, so order and repetition do not matter
(`OrderDoesNotMatter`), and one vote more adds only to what is counted or to the conflicts
(`LateVotesShow`). `PublishedVerifies` rests on the verifier deciding again what was decided of the
same bundle.

**`AuditorTrustProofs`.** `Inv` has `Chained` for the histories of keys, policies and revocations:
each held history's front is held too, and two with one head are one. A splice that verifies is then
a history that is held (`ShownLinked`), so what a snapshot names is fixed: `HeadsFixTrust`.
`SplitsNeedEquivocation` is the overlap of two majorities of one policy (`QuorumsMeet`), whose
attestations were made by the witnesses they name (`Genuine`). `Signed` is what each signer checked
of the entry it appended; of a held history therefore only what depends on *another* history can
fail to verify, which leaves for each kind of step the reasons `TrustSurvives` names (`TrustIsKept`)
and, for a handoff of the witness policy, the snapshots at or after its first generation
(`PastIsSpared`).

**`ReleaseGateProofs`.** `IInv == TypeOK /\ PublicRecord /\ Settled` with `ProbeRecord` of both
trusted jobs. A job's record says exactly which of its probes the deployment answered
(`PublicRecord`, `ProbeRecord`), and what was concluded rests on records that nothing changes any
more, since a live-smoke run that succeeded is not run again (`Settled`).

Assumptions are the named `ASSUME`s on constants (sets of naturals, positive bounds, the types of
drafts, replicas and requirement lists), which TLC evaluates in the runs. Nothing else is assumed.

**Model-checked only.** Liveness (`AppendReturns`, `Terminates`): fairness and ENABLED are out of the
prover's reach. Every other property of a passing run is a theorem.

Some theorems state invariants that no run lists, because a stronger property of the run contains
them, because TLC could not evaluate them, or because they are about types: `AckedStaysDurable`,
`HistoryIsAppendOnly`, `TamperingShows`, `DamageIsNeverAccepted`, `ObservationsAreGranted`,
`AcceptanceMeansRecorded`, `RefusalsSpendNothing`, `Finality` and the `TypeCorrect` of most modules.

## 6. The plan

The modules were written in the order of section 2. What would come next:

1. *Proofs* that compose: the durable replica of `JournalFanout` over the events `FirestoreJournal`
   proves intact, and a checkpoint of `Continuity` as what a witness was shown.
2. *A reader over time* in `AuditorTrust`: one that keeps its pins from one audit to the next.
3. *Registry and catalog*: what is registered stays what was pinned.
4. *`run_multi_agent_execution`* against the same bounded loop as `Execution`.

## 7. Not modelled

* The message bus (`proofos/messages.py`): its deciding operation, `accept`, is called by tests only.
* Registration and catalog (`registry.py`, `profiles.py`), beyond what `resume()` asks of them;
  `run_multi_agent_execution`; the recovery loop of one agent (`proofos_agent/recovery.py`), which is
  the orchestrator's bounded loop without roles.
* HTTP, caller authentication, environment contracts, identity federation, DNS and key parsing
  (`proofos_collector/`, `proofos/probe.py`, `keys.py`): input validation and I/O without state.
  What they deliver is the environment of `Ingestion` and `Execution`.
* Canonical encoding and cryptography: a digest is what it covers, a signature is its key and
  payload. That encodings are injective is taken from the code's canonical JSON.
* Artifacts of the release pipeline altered between workflows: their verifiers derive them again,
  and the model has only what can be derived.
* The wording of reasons, reports and events; demonstrations, the remaining `scripts/` and `web/`:
  sequential programs over files, and a static page.

## 8. Running

    tlc -workers 2 -config JournalAudit.cfg MCJournalAudit
    tlapm FirestoreJournalProofs.tla

`PROJECT.json` lists all runs, the mutant that violates each property, and the map. The
longest runs (`file_witness`, `ingestion`) take about two minutes.
