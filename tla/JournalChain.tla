---------------------------- MODULE JournalChain ----------------------------
(***************************************************************************)
(* The pure part of the execution journal (src/proofos/journal.py): how a  *)
(* draft becomes a chained event, and what verify_events and the Firestore *)
(* sink's verify_chain accept of what they are given.                      *)
(*                                                                         *)
(* content_hash is SHA-256 over canonical JSON.  It is modelled as a       *)
(* collision-free digest: the digest of an event IS the history it commits *)
(* to, the sequence of <<sequence, event_id, body>> up to and including    *)
(* the event.  "body" stands for every other field (event type, agent,     *)
(* status, payload, timestamp).                                            *)
(***************************************************************************)
EXTENDS Naturals, Sequences, FiniteSets

CONSTANTS EventIds,   \* event identifiers a caller may supply
          Bodies      \* the rest of a draft's content

EventDraft == [id : EventIds, body : Bodies]

\* Everything a digest can be: GENESIS_HASH or a non-empty history.
Digests == Seq(Nat \X EventIds \X Bodies)

GENESIS_HASH == << >>

ExecutionEvent == [seq  : Nat,
                   id   : EventIds,
                   body : Bodies,
                   prev : Digests,
                   hash : Digests]

ComputeHash(seq, id, body, prev) == Append(prev, <<seq, id, body>>)

Intact(e) == e.hash = ComputeHash(e.seq, e.id, e.body, e.prev)

\* finalize(): only the sink chooses the position and the predecessor.
Finalize(draft, seq, prev) ==
    [seq  |-> seq,
     id   |-> draft.id,
     body |-> draft.body,
     prev |-> prev,
     hash |-> ComputeHash(seq, draft.id, draft.body, prev)]

-----------------------------------------------------------------------------
(* verify_events, applied to the events already sorted by sequence.  Equal  *)
(* sequences are adjacent there, so comparing neighbours is the "seen" map. *)

NoDuplicateSequence(s) ==
    \A i \in 2..Len(s) : s[i].seq = s[i - 1].seq => s[i].id = s[i - 1].id

NoMissingSequence(s) ==
    s[1].seq .. s[Len(s)].seq = {s[i].seq : i \in 1..Len(s)}

FollowsPredecessor(s, i) ==
    s[i].prev = IF i = 1 THEN GENESIS_HASH ELSE s[i - 1].hash

VerifyEvents(s) ==
    s # << >> => /\ NoDuplicateSequence(s)
                 /\ NoMissingSequence(s)
                 /\ s[1].seq = 0
                 /\ \A i \in 1..Len(s) : Intact(s[i]) /\ FollowsPredecessor(s, i)

\* list_execution(): every stored document, sorted by its sequence field and
\* never by its document key.  docs maps document keys to events.
ListExecution(docs) ==
    LET size == Cardinality(DOMAIN docs)
        keys == CHOOSE k \in [1..size -> DOMAIN docs] :
                   \A i, j \in 1..size :
                      i < j => k[i] # k[j] /\ docs[k[i]].seq <= docs[k[j]].seq
    IN  [i \in 1..size |-> docs[keys[i]]]

\* Variant for the mutation checks: only the head's sequence is compared.
HeadSequenceOnly(s, head) ==
    IF head.exists
    THEN head.next = (IF s = << >> THEN 0 ELSE s[Len(s)].seq + 1)
    ELSE s = << >>

\* FirestoreJournalSink.verify_chain(), of the head it read and the events it had
\* listed: the chain itself, then the head against the tail of the chain.
HeadMatchesTail(s, head) ==
    IF head.exists
    THEN head.next = (IF s = << >> THEN 0 ELSE s[Len(s)].seq + 1)
         /\ head.hash = (IF s = << >> THEN GENESIS_HASH ELSE s[Len(s)].hash)
    ELSE s = << >>

ChainVerifies(s, head) == VerifyEvents(s) /\ HeadMatchesTail(s, head)
=============================================================================
