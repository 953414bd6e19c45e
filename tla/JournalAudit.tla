---------------------------- MODULE JournalAudit ----------------------------
(***************************************************************************)
(* FirestoreJournalSink.verify_chain (src/proofos/firestore_journal.py)    *)
(* beside the writers of FirestoreJournal.  It streams the events and then *)
(* reads the head in a request of its own, outside any transaction, so that*)
(* appends commit between the two reads.                                   *)
(*                                                                         *)
(* In TamperSpec somebody changes one document behind the sink's back,     *)
(* once, while no append() is under way; the writers then go on appending  *)
(* to what is left.                                                        *)
(***************************************************************************)
EXTENDS FirestoreJournal

VARIABLES audit,    \* the auditor's verify_chain()
          edited    \* has a document been changed behind the sink's back?

auditVars == <<vars, audit, edited>>

\* A verify_chain(): where it is, the events it streamed and whether a document
\* had been changed by then (a ghost).
NoAudit == [at |-> "idle", events |-> << >>, late |-> FALSE]

AuditInit == Init /\ audit = NoAudit /\ edited = FALSE

-----------------------------------------------------------------------------
(* verify_chain().                                                          *)

\* list_execution(): one stream of the collection of events, a query answered as of
\* one moment.
AuditEvents ==
    /\ audit = NoAudit
    /\ audit' = [at |-> "listed", events |-> events, late |-> edited]
    /\ UNCHANGED <<vars, edited>>

\* What it answers if it reads the head now, and judges both.
Answer == ChainVerifies(ListExecution(audit.events), head)

\* The head is read and Answer returned, which nothing keeps; or a read raised, and
\* the answer is (False, the error), not one about the chain.
AuditHead ==
    /\ audit.at = "listed"
    /\ audit' = NoAudit
    /\ UNCHANGED <<vars, edited>>

AuditNext == \/ Next /\ UNCHANGED <<audit, edited>>
             \/ AuditEvents \/ AuditHead

AuditSpec == AuditInit /\ [][AuditNext]_auditVars
FairAuditSpec == AuditSpec /\ Fairness

-----------------------------------------------------------------------------
(* One document is changed: an event is deleted, edited with or without a   *)
(* fresh digest, renumbered, or added where the head says; the head is      *)
(* deleted, or one of its two fields is changed.                            *)

Removed(docs) == {[s \in DOMAIN docs \ {k} |-> docs[s]] : k \in DOMAIN docs}
Reworded(e, b) == [e EXCEPT !.body = b]
Edited(docs) == {With(docs, k, Reworded(docs[k], b)) : k \in DOMAIN docs, b \in Bodies}
Moved(e, q) == [e EXCEPT !.seq = q]
Renumbered(docs, hd) == {With(docs, k, Moved(docs[k], q)) : k \in DOMAIN docs, q \in 0 .. hd.next}
Refinalized(docs) ==
    {With(docs, k, Finalize(d, docs[k].seq, docs[k].prev)) : k \in DOMAIN docs, d \in EventDraft}
Added(docs, hd) == {With(docs, hd.next, Finalize(d, hd.next, hd.hash)) : d \in EventDraft}

EditedEvents(docs, hd) ==
    (Removed(docs) \cup Edited(docs) \cup Renumbered(docs, hd)
        \cup Refinalized(docs) \cup Added(docs, hd)) \ {docs}

EditedHeads ==
    {hd \in {AbsentHead}
            \cup {[head EXCEPT !.exists = TRUE, !.next = n] : n \in 0 .. head.next + 1}
            \cup {[head EXCEPT !.exists = TRUE, !.hash = events[s].hash] : s \in DOMAIN events} :
        <<hd.next, hd.hash>> # <<head.next, head.hash>>}

Edit ==
    /\ ~ edited /\ edited' = TRUE
    /\ \A w \in Writers : At(w, "idle")
    /\ \/ events' \in EditedEvents(events, head) /\ head' = head
       \/ head' \in EditedHeads /\ events' = events
    /\ UNCHANGED <<index, call, acked, audit>>

TamperSpec == AuditInit /\ [][AuditNext \/ Edit]_auditVars

-----------------------------------------------------------------------------
\* Of documents nobody changed and it could read, verify_chain() never finds fault
\* with the events, whatever is being appended; it accepts them exactly when no append
\* committed between its two reads, and refuses an intact chain when one did.
RefusalsAreRaces ==
    audit.at = "listed" /\ ~ edited =>
        LET listed == ListExecution(audit.events)
        IN  /\ VerifyEvents(listed)
            /\ Len(listed) <= head.next
            /\ Answer <=> Len(listed) = head.next

\* Were what it streamed different in one document, whenever it read the head, it
\* would not accept it, unless that made it the history the head commits to.
NothingElseAccepted ==
    audit.at = "listed" /\ ~ edited =>
        \A docs \in EditedEvents(audit.events, head) :
            ChainVerifies(ListExecution(docs), head) =>
                ListExecution(docs) = ListExecution(events)

\* verify_chain() beside writers: it refuses what append() wrote only when an append
\* came between its two reads, and accepts nothing that one changed document makes of it.
VerifyChainExact == RefusalsAreRaces /\ NothingElseAccepted

\* "removing, reordering, or editing any event in the middle breaks the chain from
\* that point on" (journal.py:17), and at the end the head shows it: once a document
\* was changed, no verify_chain() begun after that accepts, whatever append() adds
\* to the damaged documents before it or between its two reads.
DamageStaysVisible == audit.at = "listed" /\ audit.late => ~ Answer
=============================================================================
