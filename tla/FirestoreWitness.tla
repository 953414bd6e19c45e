-------------------------- MODULE FirestoreWitness ---------------------------
(***************************************************************************)
(* FirestoreWitnessLedger (src/proofos/firestore_witness.py) for the documents *)
(* of one operation: a record for each checkpoint version, created once, and a   *)
(* head that repeats the latest.  Several processes observe at once, an auditor   *)
(* verifies meanwhile, any call may fail between two steps, and once, while no     *)
(* call is under way, documents may be lost.                                        *)
(*                                                                         *)
(* Firestore is external.  Of it only this is used: a commit is atomic, and one  *)
(* that creates a document that exists is refused.  The reads of a transaction     *)
(* are not assumed to be a snapshot, nor validated when it commits (Abort says      *)
(* that they may be), and a commit may be applied and not answered.                  *)
(***************************************************************************)
EXTENDS WitnessLedger

VARIABLES records,      \* checkpoint version -> record, for the documents there are
          head,         \* the operation's document: the record it repeats, or << >>
          call,         \* per writer, the observe() it is executing
          audit,        \* the verify() of the auditor
          answered,     \* the records observe() returned
          loss          \* of documents: none yet, of some, or of all there were

vars == <<records, head, call, audit, answered, observations, loss>>
stored == <<records, head>>

\* A call: where it is, what it observes, the head it read, the record it creates.
Idle == [at |-> "idle", envelope |-> NoEnvelope, stamp |-> 0, head |-> << >>, record |-> << >>]

\* An audit: where it is, the records it read, those promised by then, its verdict.
NoAudit == [at |-> "idle", records |-> << >>, promised |-> {}, head |-> << >>, clean |-> TRUE]

Init ==
    /\ records = << >> /\ head = << >>
    /\ call = [w \in Writers |-> Idle] /\ audit = NoAudit
    /\ answered = {} /\ observations = 0 /\ loss = "none"

At(w, place) == call[w].at = place
Becomes(w, state) == call' = [call EXCEPT ![w] = state]
Goes(w, place) == Becomes(w, [call[w] EXCEPT !.at = place])
Raises(w) == Becomes(w, Idle) /\ UNCHANGED answered
Returns(w, record) == Becomes(w, Idle) /\ answered' = answered \cup {record}

Version(record) == Latest(record).version

-----------------------------------------------------------------------------
(* observe(): of an envelope that verifies, not before it was issued.        *)

Observe(w, envelope, stamp) ==
    /\ At(w, "idle") /\ stamp >= envelope.issued
    /\ observations < MaxObservations /\ observations' = observations + 1
    /\ Becomes(w, [Idle EXCEPT !.at = "head", !.envelope = envelope, !.stamp = stamp])
    /\ UNCHANGED <<stored, audit, answered, loss>>

\* _transition: the latest again is answered with its record, what follows it is
\* to be created, and all else (drift, rollback, equivocation, a gap) raises.
Transition(w, latest) ==
    LET envelope == call[w].envelope
    IN  \/ Replays(envelope, latest) /\ Returns(w, latest)
        \/ /\ Follows(envelope, latest)
           /\ Becomes(w, [call[w] EXCEPT
                !.at = "commit", !.head = latest,
                !.record = Append(latest, Observation(envelope, call[w].stamp))])
           /\ UNCHANGED answered
        \/ ~ Replays(envelope, latest) /\ ~ Follows(envelope, latest) /\ Raises(w)

ReadHead(w) ==
    /\ At(w, "head")
    /\ \/ head = << >> /\ Transition(w, << >>)
       \/ /\ head # << >>
          /\ Becomes(w, [call[w] EXCEPT !.at = "record", !.head = head])
          /\ UNCHANGED answered
    /\ UNCHANGED <<stored, audit, observations, loss>>

\* _validate_latest: the record the head names is there and is the one it repeats.
Backed(latest) ==
    Version(latest) \in DOMAIN records /\ records[Version(latest)] = latest

ReadRecord(w) ==
    /\ At(w, "record")
    /\ \/ Backed(call[w].head) /\ Transition(w, call[w].head)
       \/ ~ Backed(call[w].head) /\ Raises(w)
    /\ UNCHANGED <<stored, audit, observations, loss>>

-----------------------------------------------------------------------------
(* The commit.                                                              *)

\* Variant for the mutation checks: the record is set, not created.
SetsSucceed(w) == call[w].head = << >> => head = << >>

\* The record is created, and so is the head when there was none.
CreatesSucceed(w) ==
    /\ Version(call[w].record) \notin DOMAIN records
    /\ call[w].head = << >> => head = << >>

Recorded(w) ==
    [v \in DOMAIN records \cup {Version(call[w].record)} |->
        IF v = Version(call[w].record) THEN call[w].record ELSE records[v]]

\* Variants for the mutation checks: the head is written when there was one only,
\* or when there was none only.
WritesLaterHeads(w) ==
    records' = Recorded(w) /\ head' = IF call[w].head = << >> THEN head ELSE call[w].record

WritesFirstHead(w) ==
    records' = Recorded(w) /\ head' = IF call[w].head = << >> THEN call[w].record ELSE head

Writes(w) == records' = Recorded(w) /\ head' = call[w].record

\* Applied; when its answer is lost the client library may commit again.
Commit(w) ==
    /\ At(w, "commit") /\ CreatesSucceed(w)
    /\ Writes(w)
    /\ Goes(w, "return") \/ UNCHANGED call
    /\ UNCHANGED <<audit, answered, observations, loss>>

Return(w) ==
    /\ At(w, "return") /\ Returns(w, call[w].record)
    /\ UNCHANGED <<stored, audit, observations, loss>>

\* What was read has changed: the client library runs the transaction again.
Abort(w) ==
    /\ At(w, "commit") /\ call[w].head # head
    /\ Becomes(w, [call[w] EXCEPT !.at = "head", !.head = << >>, !.record = << >>])
    /\ UNCHANGED <<stored, audit, answered, observations, loss>>

\* AlreadyExists: the state is read again, to tell a replay from an equivocation.
Refused(w) ==
    /\ At(w, "commit") /\ ~ CreatesSucceed(w)
    /\ Goes(w, "resolve")
    /\ UNCHANGED <<stored, audit, answered, observations, loss>>

ResolveHead(w) ==
    /\ At(w, "resolve")
    /\ \/ head = << >> /\ Raises(w)
       \/ /\ head # << >>
          /\ Becomes(w, [call[w] EXCEPT !.at = "resolve_record", !.head = head])
          /\ UNCHANGED answered
    /\ UNCHANGED <<stored, audit, observations, loss>>

ResolveRecord(w) ==
    /\ At(w, "resolve_record")
    /\ LET latest == call[w].head
       IN  IF Backed(latest) /\ Replays(call[w].envelope, latest)
           THEN Returns(w, latest) ELSE Raises(w)
    /\ UNCHANGED <<stored, audit, observations, loss>>

\* The process dies, or a read or the commit raises.
Fail(w) ==
    /\ ~ At(w, "idle") /\ Raises(w)
    /\ UNCHANGED <<stored, audit, observations, loss>>

-----------------------------------------------------------------------------
(* verify(): history() streams the records, then the head is read.           *)

AuditRecords ==
    /\ audit.at # "records"
    /\ audit' = [NoAudit EXCEPT !.at = "records", !.records = records, !.promised = answered]
    /\ UNCHANGED <<stored, call, answered, observations, loss>>

Chain(documents) ==
    /\ DOMAIN documents = 1 .. Cardinality(DOMAIN documents)
    /\ VerifyRecords([v \in 1 .. Cardinality(DOMAIN documents) |-> documents[v]])

\* Variant for the mutation checks: the head is not compared.
CleanRecords(documents, latest) == Chain(documents)

Clean(documents, latest) ==
    /\ Chain(documents)
    /\ latest = IF documents = << >> THEN << >> ELSE documents[Cardinality(DOMAIN documents)]

AuditHead ==
    /\ audit.at = "records"
    /\ audit' = [audit EXCEPT !.at = "done", !.head = head, !.clean = Clean(audit.records, head)]
    /\ UNCHANGED <<stored, call, answered, observations, loss>>

\* Documents are lost; those that remain are not altered.
Lose ==
    /\ loss = "none" /\ head # << >>
    /\ \A w \in Writers : At(w, "idle")
    /\ audit.at # "records"
    /\ \E versions \in SUBSET DOMAIN records :
          /\ records' = [v \in versions |-> records[v]]
          /\ head' \in {head, << >>}
          /\ stored' # stored
          /\ loss' = IF versions = {} /\ head' = << >> THEN "all" ELSE "some"
    /\ UNCHANGED <<call, audit, answered, observations>>

Next ==
    \/ \E w \in Writers :
          \/ \E envelope \in Envelopes, stamp \in Stamps : Observe(w, envelope, stamp)
          \/ ReadHead(w) \/ ReadRecord(w)
          \/ Commit(w) \/ Return(w) \/ Abort(w) \/ Refused(w)
          \/ ResolveHead(w) \/ ResolveRecord(w) \/ Fail(w)
    \/ AuditRecords \/ AuditHead \/ Lose

Spec == Init /\ [][Next]_vars

-----------------------------------------------------------------------------
\* While no document is lost, a writer whose commit is refused finds the version it
\* lost: it is told of a replay, an equivocation or a rollback, and never that the
\* head or a record is missing or that the ledger "advanced unexpectedly".
LostRacesAreTold ==
    \A w \in Writers : At(w, "resolve") /\ loss = "none" =>
        /\ head # << >> /\ Backed(head)
        /\ ~ Follows(call[w].envelope, head)

\* verify() reads the records before the head: the only trouble it reports of a
\* ledger that lost nothing is a checkpoint recorded between the two.
FalseAlarmsAreRaces ==
    audit.at = "done" /\ ~ audit.clean /\ loss = "none" =>
        Len(audit.head) > Cardinality(DOMAIN audit.records)

\* A ledger that verifies still has every record it was promised to hold, whatever
\* documents were lost and whatever was observed since, unless all of them were.
VerifiedIsComplete ==
    audit.at = "done" /\ audit.clean /\ loss # "all" =>
        \A record \in audit.promised : Extends(record, audit.head)

\* What the head repeats is the history of a witness, of which only the end is lost.
Promise == INSTANCE WitnessHistory WITH history <- head

ImplementsWitnessHistory == Promise!Spec
=============================================================================
