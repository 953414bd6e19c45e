-------------------------- MODULE FirestoreJournal --------------------------
(***************************************************************************)
(* FirestoreJournalSink.append (src/proofos/firestore_journal.py) for the  *)
(* documents of one execution:                                             *)
(*                                                                         *)
(*    executions/{id}               head     next_sequence, head_hash      *)
(*    executions/{id}/events/{n}    events   one chained event each        *)
(*    executions/{id}/event_ids/{e} index    event identifier -> sequence  *)
(*                                                                         *)
(* Writers are processes: several of them append to one execution when an  *)
(* operation is resumed elsewhere, or when a caller retries an append whose*)
(* outcome it never learned.  Every document read is a step of its own, a  *)
(* commit is one step, and a process may fail between any two of them.     *)
(*                                                                         *)
(* Firestore is external.  Only two facts about it are used: a commit is   *)
(* atomic, and a commit that creates an existing document is refused.  In  *)
(* particular the reads of a transaction are NOT assumed to be a snapshot, *)
(* nor to be validated at commit (Abort says that they may be).            *)
(***************************************************************************)
EXTENDS JournalChain

CONSTANTS Writers,
          Drafts,               \* the drafts callers submit
          MAX_APPEND_ATTEMPTS,  \* sequence races append() sits through
          MaxTransactionRuns    \* times the client library runs one transaction

ASSUME DraftsAssumption == Drafts \subseteq EventDraft
ASSUME BoundsAssumption == /\ MAX_APPEND_ATTEMPTS \in Nat \ {0}
                           /\ MaxTransactionRuns \in Nat \ {0}

VARIABLES events,   \* sequence -> ExecutionEvent, for the documents that exist
          index,    \* event id -> sequence, for the documents that exist
          head,     \* the execution document
          call,     \* per writer, the append() it is executing
          acked     \* ghost: every event append() has returned

vars == <<events, index, head, call, acked>>

\* A function with one more (or one replaced) point: writing one document.
With(f, k, v) == [x \in DOMAIN f \cup {k} |-> IF x = k THEN v ELSE f[x]]

NoDraft    == [id |-> "none", body |-> "none"]
NoEvent    == [seq |-> 0, id |-> "none", body |-> "none",
               prev |-> GENESIS_HASH, hash |-> GENESIS_HASH]
NoIndex    == [exists |-> FALSE, seq |-> 0]
AbsentHead == [exists |-> FALSE, next |-> 0, hash |-> GENESIS_HASH]

Heads == [exists : BOOLEAN, next : Nat, hash : Digests]

\* base is a ghost: how long the chain was when this append() began.
Call == [pc       : {"idle", "readIndex", "readHead", "readStored", "commit", "return"},
         draft    : EventDraft \cup {NoDraft},
         attempts : Nat,
         runs     : Nat,
         base     : Nat,
         idSnap   : [exists : BOOLEAN, seq : Nat],
         headSnap : Heads,
         result   : ExecutionEvent \cup {NoEvent}]

IdleCall == [pc |-> "idle", draft |-> NoDraft, attempts |-> 0, runs |-> 0,
             base |-> 0, idSnap |-> NoIndex,
             headSnap |-> AbsentHead, result |-> NoEvent]

TypeOK ==
    /\ DOMAIN events \subseteq Nat
    /\ \A s \in DOMAIN events : events[s] \in ExecutionEvent
    /\ DOMAIN index \subseteq EventIds
    /\ \A id \in DOMAIN index : index[id] \in Nat
    /\ head \in Heads
    /\ call \in [Writers -> Call]
    /\ acked \subseteq ExecutionEvent

Init ==
    /\ events = << >>
    /\ index = << >>
    /\ head = AbsentHead
    /\ call = [w \in Writers |-> IdleCall]
    /\ acked = {}

-----------------------------------------------------------------------------
Documents == <<events, index, head>>

At(w, pc) == call[w].pc = pc

\* Journal.record(): a fresh event identifier or, when the caller retries, one
\* used before -- possibly with another body, since the timestamp is new.
Record(w) ==
    /\ At(w, "idle")
    /\ \E d \in Drafts :
          call' = [call EXCEPT ![w] = [IdleCall EXCEPT !.pc = "readIndex",
                                                       !.draft = d,
                                                       !.attempts = 1,
                                                       !.runs = 1,
                                                       !.base = head.next]]
    /\ UNCHANGED <<Documents, acked>>

\* id_ref.get(): first read of the transaction.
ReadIndex(w) ==
    /\ At(w, "readIndex")
    /\ LET id == call[w].draft.id
       IN  call' = [call EXCEPT ![w].pc = "readHead",
                                ![w].idSnap = IF id \in DOMAIN index
                                              THEN [exists |-> TRUE, seq |-> index[id]]
                                              ELSE NoIndex]
    /\ UNCHANGED <<Documents, acked>>

\* execution_ref.get(), then the branch on id_snapshot.exists.
ReadHead(w) ==
    /\ At(w, "readHead")
    /\ call' = [call EXCEPT ![w].headSnap = head,
                            ![w].pc = IF call[w].idSnap.exists
                                      THEN "readStored" ELSE "commit"]
    /\ UNCHANGED <<Documents, acked>>

\* Variant for the mutation checks: the identifier in the index is taken for a
\* lost transaction, which is run again.
ReadAgain(w) ==
    /\ At(w, "readStored")
    /\ call' = [call EXCEPT ![w].pc = "readIndex"]
    /\ UNCHANGED <<Documents, acked>>

\* Idempotent retry: return the stored copy, or refuse a dangling index entry.
ReadStored(w) ==
    /\ At(w, "readStored")
    /\ LET s == call[w].idSnap.seq
       IN  call' = [call EXCEPT ![w] =
                      IF s \in DOMAIN events
                      THEN [@ EXCEPT !.pc = "return", !.result = events[s]]
                      ELSE IdleCall]
    /\ UNCHANGED <<Documents, acked>>

-----------------------------------------------------------------------------
(* The transaction's writes.                                               *)

\* The event this transaction would append, from what it read.
Proposed(w) == Finalize(call[w].draft, call[w].headSnap.next, call[w].headSnap.hash)

\* Variants for the mutation checks: set() for create() on the index document,
\* and on both.
SetIndex(w) == call[w].headSnap.next \notin DOMAIN events
SetBoth(w)  == TRUE

\* transaction.create() on both documents: refused if either exists.
CreatesSucceed(w) == /\ call[w].headSnap.next \notin DOMAIN events
                     /\ call[w].draft.id \notin DOMAIN index

\* Variant for the mutation checks: the head names the last sequence, not the next.
WritesHeadUnmoved(w) ==
    LET e == Proposed(w)
    IN  /\ events' = With(events, e.seq, e)
        /\ index' = With(index, e.id, e.seq)
        /\ head' = [exists |-> TRUE, next |-> e.seq, hash |-> e.hash]

ApplyWrites(w) ==
    LET e == Proposed(w)
    IN  /\ events' = With(events, e.seq, e)
        /\ index' = With(index, e.id, e.seq)
        /\ head' = [exists |-> TRUE, next |-> e.seq + 1, hash |-> e.hash]

Commit(w) ==
    /\ At(w, "commit")
    /\ CreatesSucceed(w)
    /\ ApplyWrites(w)
    /\ call' = [call EXCEPT ![w].pc = "return", ![w].result = Proposed(w)]
    /\ UNCHANGED acked

\* The commit is applied, its response is lost: append() raises
\* JournalUnavailableError for an event that is durable.
CommitLostAck(w) ==
    /\ At(w, "commit")
    /\ CreatesSucceed(w)
    /\ ApplyWrites(w)
    /\ call' = [call EXCEPT ![w] = IdleCall]
    /\ UNCHANGED acked

\* AlreadyExists: append() reads again, at most MAX_APPEND_ATTEMPTS times.
Conflict(w) ==
    /\ At(w, "commit")
    /\ ~CreatesSucceed(w)
    /\ call' = [call EXCEPT ![w] =
                  IF call[w].attempts < MAX_APPEND_ATTEMPTS
                  THEN [call[w] EXCEPT !.pc = "readIndex",
                                       !.attempts = call[w].attempts + 1, !.runs = 1]
                  ELSE IdleCall]
    /\ UNCHANGED <<Documents, acked>>

\* Firestore may refuse a commit because a document the transaction read has
\* changed; the client library then runs the same operation again, and gives
\* up (a JournalUnavailableError) after MaxTransactionRuns runs.
Abort(w) ==
    /\ At(w, "commit")
    /\ \/ call[w].headSnap # head
       \/ call[w].draft.id \in DOMAIN index
    /\ call' = [call EXCEPT ![w] =
                  IF call[w].runs < MaxTransactionRuns
                  THEN [call[w] EXCEPT !.pc = "readIndex", !.runs = call[w].runs + 1]
                  ELSE IdleCall]
    /\ UNCHANGED <<Documents, acked>>

\* append() returns the event to its caller.
Return(w) ==
    /\ At(w, "return")
    /\ acked' = acked \cup {call[w].result}
    /\ call' = [call EXCEPT ![w] = IdleCall]
    /\ UNCHANGED Documents

\* A read or a commit raised (JournalUnavailableError), or the process died.
Fail(w) ==
    /\ ~At(w, "idle")
    /\ call' = [call EXCEPT ![w] = IdleCall]
    /\ UNCHANGED <<Documents, acked>>

Step(w) == \/ ReadIndex(w) \/ ReadHead(w) \/ ReadStored(w)
           \/ Commit(w) \/ CommitLostAck(w) \/ Conflict(w) \/ Abort(w)
           \/ Return(w)

Next == \E w \in Writers : Record(w) \/ Step(w) \/ Fail(w)

\* A process that is executing append() keeps executing it: nothing in the code
\* waits for another writer.  Nobody is obliged to call append().
Fairness == \A w \in Writers : WF_vars(Step(w))

Spec == Init /\ [][Next]_vars
FairSpec == Spec /\ Fairness

-----------------------------------------------------------------------------
(* Safety.                                                                 *)

\* Sequences are explicit and without gaps: the documents are 0..next-1.
Contiguous == DOMAIN events = 0 .. (head.next - 1)

\* Every event's digest covers its predecessor's.
Linked ==
    \A s \in DOMAIN events :
        /\ events[s].seq = s
        /\ Intact(events[s])
        /\ events[s].prev = IF s = 0 THEN GENESIS_HASH ELSE events[s - 1].hash

\* The head document commits to the tail of the chain.
HeadCommits ==
    IF head.next = 0 THEN head = AbsentHead
    ELSE head.exists /\ head.hash = events[head.next - 1].hash

\* The idempotency index and the events are in bijection, so an event
\* identifier is in the chain at most once.
IndexMatches ==
    /\ \A id \in DOMAIN index : index[id] \in DOMAIN events /\ events[index[id]].id = id
    /\ \A s \in DOMAIN events : events[s].id \in DOMAIN index /\ index[events[s].id] = s

\* However writers interleave, fail, lose acknowledgements and retry, the
\* documents _append_once leaves behind are one gapless hash chain that holds
\* every event identifier once and that head and index agree with.
ChainIntact == Contiguous /\ Linked /\ HeadCommits /\ IndexMatches

\* An event append() has returned is in the chain, with that content, at that
\* sequence, ever after -- also when the returned event was another process's
\* copy found by a retry.
AckedDurable == \A e \in acked : e.seq \in DOMAIN events /\ events[e.seq] = e

\* Each sequence race append() loses was won by another append: the "lost N
\* sequence races" error can only be raised after N other events became
\* durable, so contention cannot starve every writer.
RacesAreProgress ==
    \A w \in Writers : ~At(w, "idle") => call[w].attempts - 1 <= head.next - call[w].base

\* No write path changes or removes an event once it is stored.
AppendOnly ==
    [][\A s \in DOMAIN events : s \in DOMAIN events' /\ events'[s] = events[s]]_vars

\* The documents implement one append-only, exactly-once log.
Log == INSTANCE AppendLog
         WITH log   <- [i \in 1..head.next |->
                          [id |-> events[i - 1].id, body |-> events[i - 1].body]],
              acked <- {<<e.seq + 1, [id |-> e.id, body |-> e.body]>> : e \in acked}

ImplementsAppendLog == Log!Spec

\* An append() that was begun ends, with an event or with an error: neither the
\* retry loop nor the transaction wrapper spins.
AppendReturns == \A w \in Writers : ~At(w, "idle") ~> At(w, "idle")
=============================================================================
