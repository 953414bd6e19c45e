----------------------- MODULE FirestoreJournalProofs -----------------------
(***************************************************************************)
(* Proofs about FirestoreJournal and JournalAudit, for any number of       *)
(* writers, events and attempts: the documents stay one intact chain, what *)
(* was acknowledged stays stored, a lost sequence race is another append's *)
(* success, and verify_chain accepts nothing but what append() wrote: the  *)
(* digest of the last event determines its predecessors, one by one        *)
(* (TailDeterminesChain), and damage is never written over (DamageGrows).  *)
(***************************************************************************)
EXTENDS JournalAudit, SequenceTheorems, FiniteSetTheorems, FunctionTheorems,
        WellFoundedInduction, TLAPS

-----------------------------------------------------------------------------
(* The strengthening: what a call in progress knows about the documents.   *)

\* A call in progress carries the caller's draft; what it will return is in
\* the chain; what it read of the index still holds there.
CallKnows ==
    \A w \in Writers :
        /\ ~At(w, "idle") => call[w].draft \in EventDraft
        /\ At(w, "return") => /\ call[w].result \in ExecutionEvent
                              /\ call[w].result.seq \in DOMAIN events
                              /\ events[call[w].result.seq] = call[w].result

\* The head a transaction read is the current one or an older one: an older
\* one names a sequence that is taken.
SnapshotIsPast ==
    \A w \in Writers :
        At(w, "commit") => \/ call[w].headSnap = head
                           \/ call[w].headSnap.next \in DOMAIN events

\* Where the races a call has lost show in the documents.
RacesLost ==
    \A w \in Writers :
        /\ ~At(w, "idle") =>
              /\ call[w].base + call[w].attempts <= head.next + 1
        /\ At(w, "commit") => call[w].base + call[w].attempts <= call[w].headSnap.next + 1
        /\ (At(w, "readHead") \/ At(w, "commit")) /\ ~call[w].idSnap.exists
             /\ call[w].draft.id \in DOMAIN index =>
              call[w].base + call[w].attempts <= index[call[w].draft.id] + 1
        /\ At(w, "commit") => ~call[w].idSnap.exists

IInv == TypeOK /\ ChainIntact /\ AckedDurable /\ CallKnows /\ SnapshotIsPast /\ RacesLost

-----------------------------------------------------------------------------
(* What of it holds of documents somebody changed, too.                     *)

\* What a call carries is a draft, and what it will return an event.
Carries ==
    \A w \in Writers : /\ ~At(w, "idle") => call[w].draft \in EventDraft
                       /\ At(w, "return") => call[w].result \in ExecutionEvent

Sound == TypeOK /\ Carries /\ SnapshotIsPast

LEMMA IsSound == IInv => Sound
  BY DEF IInv, Sound, CallKnows, Carries

-----------------------------------------------------------------------------
(* A finalized draft is a well-formed, intact event.                       *)
LEMMA FinalizedEvent ==
    ASSUME NEW draft \in EventDraft, NEW seq \in Nat, NEW prev \in Digests
    PROVE  LET e == Finalize(draft, seq, prev)
           IN  /\ e \in ExecutionEvent
               /\ Intact(e)
               /\ e.seq = seq
               /\ e.id = draft.id
               /\ e.prev = prev
  <1>1. <<seq, draft.id, draft.body>> \in Nat \X EventIds \X Bodies
    BY DEF EventDraft
  <1>2. Append(prev, <<seq, draft.id, draft.body>>) \in Digests
    BY <1>1 DEF Digests
  <1> QED
    BY <1>2 DEF Finalize, ExecutionEvent, Intact, ComputeHash, EventDraft

LEMMA EmptyDigest == GENESIS_HASH \in Digests
  BY DEF GENESIS_HASH, Digests

(* The empty collection of documents satisfies the invariant.              *)
LEMMA InitIInv == Init => IInv
  <1> SUFFICES ASSUME Init PROVE IInv
    OBVIOUS
  <1> USE EmptyDigest DEF Init
  <1>1. TypeOK
    <2>1. AbsentHead \in Heads
      BY DEF AbsentHead, Heads
    <2>2. IdleCall \in Call
      BY <2>1 DEF IdleCall, Call, NoIndex
    <2> QED
      BY <2>1, <2>2 DEF TypeOK
  <1>2. ChainIntact
    <2>1. head.next = 0
      BY DEF AbsentHead
    <2> QED
      BY <2>1 DEF ChainIntact, Contiguous, Linked, HeadCommits, IndexMatches
  <1>3. AckedDurable
    BY DEF AckedDurable
  <1>4. CallKnows /\ SnapshotIsPast /\ RacesLost
    BY DEF CallKnows, SnapshotIsPast, RacesLost, At, IdleCall
  <1> QED
    BY <1>1, <1>2, <1>3, <1>4 DEF IInv

-----------------------------------------------------------------------------
(* A commit whose creates succeed was prepared from the current head: an    *)
(* older head names a sequence whose document exists.                       *)
LEMMA CommitSeesHead ==
    ASSUME Sound, NEW w \in Writers, At(w, "commit"), CreatesSucceed(w)
    PROVE  /\ call[w].headSnap = head
           /\ call[w].draft \in EventDraft
           /\ call[w].draft.id \notin DOMAIN index
           /\ Proposed(w) = Finalize(call[w].draft, head.next, head.hash)
           /\ Proposed(w) \in ExecutionEvent
           /\ Intact(Proposed(w))
           /\ Proposed(w).seq = head.next
           /\ Proposed(w).id = call[w].draft.id
           /\ Proposed(w).prev = head.hash
  <1>1. call[w].headSnap = head
    BY DEF Sound, SnapshotIsPast, CreatesSucceed
  <1>2. call[w].draft \in EventDraft
    BY DEF Sound, Carries, At
  <1>3. head.next \in Nat /\ head.hash \in Digests
    BY DEF Sound, TypeOK, Heads
  <1>4. Proposed(w) = Finalize(call[w].draft, head.next, head.hash)
    BY <1>1 DEF Proposed
  <1> QED
    BY <1>1, <1>2, <1>3, <1>4, FinalizedEvent DEF CreatesSucceed

(* What the writes of a commit do to the documents, and what they keep.     *)
LEMMA WritesExtend ==
    ASSUME IInv, NEW w \in Writers, At(w, "commit"), CreatesSucceed(w), ApplyWrites(w)
    PROVE  /\ ChainIntact'
           /\ head'.next = head.next + 1
           /\ head' \in Heads
           /\ DOMAIN events' = DOMAIN events \cup {head.next}
           /\ DOMAIN index' = DOMAIN index \cup {call[w].draft.id}
           /\ events'[head.next] = Proposed(w)
           /\ index'[call[w].draft.id] = head.next
           /\ \A s \in DOMAIN events : s # head.next /\ events'[s] = events[s]
           /\ \A id \in DOMAIN index : id # call[w].draft.id /\ index'[id] = index[id]
  <1> DEFINE e == Proposed(w)
  <1>1. /\ call[w].draft.id \notin DOMAIN index
        /\ e \in ExecutionEvent /\ Intact(e)
        /\ e.seq = head.next /\ e.id = call[w].draft.id /\ e.prev = head.hash
    BY IsSound, CommitSeesHead
  <1>2. head.next \in Nat /\ DOMAIN events = 0 .. (head.next - 1)
    BY DEF IInv, TypeOK, Heads, ChainIntact, Contiguous
  <1>3. e.hash \in Digests /\ e.id \in EventIds
    BY <1>1 DEF ExecutionEvent
  <1>4. /\ events' = With(events, head.next, e)
        /\ index' = With(index, e.id, head.next)
        /\ head' = [exists |-> TRUE, next |-> head.next + 1, hash |-> e.hash]
    BY <1>1 DEF ApplyWrites
  <1> HIDE DEF e
  <1>5. /\ DOMAIN events' = DOMAIN events \cup {head.next}
        /\ events'[head.next] = e
        /\ \A s \in DOMAIN events : s # head.next /\ events'[s] = events[s]
    BY <1>2, <1>4 DEF With
  <1>6. /\ DOMAIN index' = DOMAIN index \cup {e.id}
        /\ index'[e.id] = head.next
        /\ \A id \in DOMAIN index : id # e.id /\ index'[id] = index[id]
    BY <1>1, <1>4 DEF With
  <1>7. head' \in Heads /\ head'.next = head.next + 1 /\ head'.exists /\ head'.hash = e.hash
    BY <1>2, <1>3, <1>4 DEF Heads
  <1>8. Contiguous'
    BY <1>2, <1>5, <1>7 DEF Contiguous
  <1>9. Linked'
    <2> SUFFICES ASSUME NEW s \in DOMAIN events'
                 PROVE  /\ events'[s].seq = s
                        /\ Intact(events'[s])
                        /\ events'[s].prev = IF s = 0 THEN GENESIS_HASH
                                             ELSE events'[s - 1].hash
      BY DEF Linked, Intact, ComputeHash, GENESIS_HASH
    <2>1. CASE s = head.next
      <3>1. events'[s] = e
        BY <2>1, <1>5
      <3>2. CASE s = 0
        BY <3>1, <3>2, <2>1, <1>1 DEF IInv, ChainIntact, HeadCommits, AbsentHead
      <3>3. CASE s # 0
        <4>1. head.next - 1 \in DOMAIN events
          BY <3>3, <2>1, <1>2
        <4>2. head.hash = events'[head.next - 1].hash
          BY <4>1, <3>3, <2>1, <1>5 DEF IInv, ChainIntact, HeadCommits
        <4> QED
          BY <4>2, <3>1, <3>3, <2>1, <1>1
      <3> QED
        BY <3>2, <3>3
    <2>2. CASE s \in DOMAIN events
      <3>1. events'[s] = events[s]
        BY <2>2, <1>5
      <3>2. s # 0 => s - 1 \in DOMAIN events
        BY <2>2, <1>2
      <3>3. s # 0 => events'[s - 1] = events[s - 1]
        BY <3>2, <1>5
      <3> QED
        BY <3>1, <3>3, <2>2 DEF IInv, ChainIntact, Linked
    <2> QED
      BY <2>1, <2>2, <1>5
  <1>10. HeadCommits'
    BY <1>2, <1>5, <1>7 DEF HeadCommits
  <1>11. IndexMatches'
    <2>1. \A id \in DOMAIN index' : index'[id] \in DOMAIN events'
                                    /\ events'[index'[id]].id = id
      BY <1>1, <1>5, <1>6 DEF IInv, ChainIntact, IndexMatches
    <2>2. \A s \in DOMAIN events' : events'[s].id \in DOMAIN index'
                                    /\ index'[events'[s].id] = s
      BY <1>1, <1>5, <1>6 DEF IInv, ChainIntact, IndexMatches
    <2> QED
      BY <2>1, <2>2 DEF IndexMatches
  <1> QED
    BY <1>1, <1>5, <1>6, <1>7, <1>8, <1>9, <1>10, <1>11 DEF ChainIntact, e

-----------------------------------------------------------------------------
(* Steps that leave the documents and the acknowledgements alone only have  *)
(* to say what the call in progress knows.                                  *)
LEMMA CallStep ==
    ASSUME IInv, NEW w \in Writers, UNCHANGED <<Documents, acked>>,
           NEW c \in Call, call' = [call EXCEPT ![w] = c],
           c.pc # "idle" => /\ c.draft \in EventDraft
                            /\ c.base + c.attempts <= head.next + 1,
           c.pc = "return" => /\ c.result \in ExecutionEvent
                              /\ c.result.seq \in DOMAIN events
                              /\ events[c.result.seq] = c.result,
           c.pc = "commit" => /\ ~c.idSnap.exists
                              /\ c.headSnap = head
                              /\ c.base + c.attempts <= c.headSnap.next + 1,
           c.pc \in {"readHead", "commit"} /\ ~c.idSnap.exists /\ c.draft.id \in DOMAIN index =>
              c.base + c.attempts <= index[c.draft.id] + 1
    PROVE  IInv'
  <1>1. /\ events' = events /\ index' = index /\ head' = head /\ acked' = acked
    BY DEF Documents
  <1>2. call \in [Writers -> Call]
    BY DEF IInv, TypeOK
  <1>3. call'[w] = c /\ \A v \in Writers : v # w => call'[v] = call[v]
    BY <1>2
  <1>4. TypeOK'
    BY <1>1, <1>2 DEF IInv, TypeOK
  <1>5. ChainIntact' /\ AckedDurable'
    BY <1>1 DEF IInv, ChainIntact, Contiguous, Linked, HeadCommits, IndexMatches,
                AckedDurable
  <1>6. CallKnows'
    BY <1>1, <1>3 DEF IInv, CallKnows, At
  <1>7. SnapshotIsPast'
    BY <1>1, <1>3 DEF IInv, SnapshotIsPast, At
  <1>8. RacesLost'
    BY <1>1, <1>3 DEF IInv, RacesLost, At
  <1> QED
    BY <1>4, <1>5, <1>6, <1>7, <1>8 DEF IInv

LEMMA IdleIsCall == IdleCall \in Call /\ IdleCall.pc = "idle"
  BY EmptyDigest DEF IdleCall, Call, NoIndex, AbsentHead, Heads

(* A call that ends, whatever the reason, knows nothing.                    *)
LEMMA EndOfCall ==
    ASSUME IInv, NEW w \in Writers, UNCHANGED <<Documents, acked>>,
           call' = [call EXCEPT ![w] = IdleCall]
    PROVE  IInv'
  <1> QED
    BY CallStep, IdleIsCall

LEMMA RecordStep == ASSUME IInv, NEW w \in Writers, Record(w) PROVE IInv'
  <1>1. PICK d \in Drafts :
          call' = [call EXCEPT ![w] = [IdleCall EXCEPT !.pc = "readIndex", !.draft = d,
                                         !.attempts = 1, !.runs = 1, !.base = head.next]]
    BY DEF Record
  <1> DEFINE c == [IdleCall EXCEPT !.pc = "readIndex", !.draft = d,
                                   !.attempts = 1, !.runs = 1, !.base = head.next]
  <1>2. d \in EventDraft
    BY DraftsAssumption
  <1>3. head.next \in Nat
    BY DEF IInv, TypeOK, Heads
  <1>4. /\ c \in Call /\ c.pc = "readIndex" /\ c.draft = d
        /\ c.attempts = 1 /\ c.base = head.next
    BY <1>2, <1>3, IdleIsCall DEF Call, IdleCall
  <1>5. UNCHANGED <<Documents, acked>>
    BY DEF Record
  <1>6. call' = [call EXCEPT ![w] = c]
    BY <1>1
  <1>7. c.draft \in EventDraft /\ c.base + c.attempts <= head.next + 1
    BY <1>2, <1>3, <1>4
  <1> HIDE DEF c
  <1> QED
    BY <1>4, <1>5, <1>6, <1>7, CallStep

LEMMA ReadIndexStep == ASSUME IInv, NEW w \in Writers, ReadIndex(w) PROVE IInv'
  <1> DEFINE id == call[w].draft.id
             snap == IF id \in DOMAIN index THEN [exists |-> TRUE, seq |-> index[id]]
                                            ELSE NoIndex
             c == [call[w] EXCEPT !.pc = "readHead", !.idSnap = snap]
  <1>1. call[w] \in Call /\ call[w].pc = "readIndex" /\ call \in [Writers -> Call]
    BY DEF IInv, TypeOK, ReadIndex, At
  <1>2. snap \in [exists : BOOLEAN, seq : Nat] /\ (~snap.exists => id \notin DOMAIN index)
    BY DEF IInv, TypeOK, NoIndex
  <1>3. call' = [call EXCEPT ![w] = c]
    BY <1>1 DEF ReadIndex
  <1> HIDE DEF snap
  <1>4. /\ c \in Call /\ c.pc = "readHead" /\ c.idSnap = snap /\ c.draft = call[w].draft
        /\ c.base = call[w].base /\ c.attempts = call[w].attempts
    BY <1>1, <1>2 DEF Call
  <1>5. call[w].draft \in EventDraft /\ call[w].base + call[w].attempts <= head.next + 1
    BY <1>1 DEF IInv, CallKnows, RacesLost, At
  <1>6. UNCHANGED <<Documents, acked>>
    BY DEF ReadIndex
  <1> HIDE DEF c
  <1> QED
    BY <1>2, <1>3, <1>4, <1>5, <1>6, CallStep

LEMMA ReadHeadStep == ASSUME IInv, NEW w \in Writers, ReadHead(w) PROVE IInv'
  <1> DEFINE pc == IF call[w].idSnap.exists THEN "readStored" ELSE "commit"
             c == [call[w] EXCEPT !.headSnap = head, !.pc = pc]
  <1>1. call[w] \in Call /\ call[w].pc = "readHead" /\ call \in [Writers -> Call]
    BY DEF IInv, TypeOK, ReadHead, At
  <1>2. head \in Heads
    BY DEF IInv, TypeOK
  <1>3. call' = [call EXCEPT ![w] = c]
    BY <1>1 DEF ReadHead
  <1>4. /\ c \in Call /\ c.pc = pc /\ c.headSnap = head /\ c.draft = call[w].draft
        /\ c.base = call[w].base /\ c.attempts = call[w].attempts
        /\ c.idSnap = call[w].idSnap
    BY <1>1, <1>2 DEF Call
  <1>5. /\ call[w].draft \in EventDraft /\ call[w].base + call[w].attempts <= head.next + 1
        /\ ~call[w].idSnap.exists /\ call[w].draft.id \in DOMAIN index =>
              call[w].base + call[w].attempts <= index[call[w].draft.id] + 1
    BY <1>1 DEF IInv, CallKnows, RacesLost, At
  <1>6. UNCHANGED <<Documents, acked>>
    BY DEF ReadHead
  <1> HIDE DEF c
  <1> QED
    BY <1>3, <1>4, <1>5, <1>6, CallStep

LEMMA ReadStoredStep == ASSUME IInv, NEW w \in Writers, ReadStored(w) PROVE IInv'
  <1> DEFINE s == call[w].idSnap.seq
             c == [call[w] EXCEPT !.pc = "return", !.result = events[s]]
  <1>1. /\ call[w] \in Call /\ call[w].pc = "readStored" /\ call \in [Writers -> Call]
        /\ UNCHANGED <<Documents, acked>>
    BY DEF IInv, TypeOK, ReadStored, At
  <1>2. CASE s \notin DOMAIN events
    BY <1>1, <1>2, EndOfCall DEF ReadStored
  <1>3. CASE s \in DOMAIN events
    <2>1. call' = [call EXCEPT ![w] = c]
      BY <1>1, <1>3 DEF ReadStored
    <2>2. events[s] \in ExecutionEvent /\ events[s].seq = s
      BY <1>3 DEF IInv, TypeOK, ChainIntact, Linked
    <2>3. /\ c \in Call /\ c.pc = "return" /\ c.result = events[s] /\ c.draft = call[w].draft
          /\ c.base = call[w].base /\ c.attempts = call[w].attempts
      BY <1>1, <2>2 DEF Call
    <2>4. call[w].draft \in EventDraft /\ call[w].base + call[w].attempts <= head.next + 1
      BY <1>1 DEF IInv, CallKnows, RacesLost, At
    <2> HIDE DEF c
    <2> QED
      BY <1>1, <1>3, <2>1, <2>2, <2>3, <2>4, CallStep
  <1> QED
    BY <1>2, <1>3

(* A refused create names a document another append wrote since this one    *)
(* read, so the chain has outgrown what the call had counted.               *)
LEMMA ConflictStep == ASSUME IInv, NEW w \in Writers, Conflict(w) PROVE IInv'
  <1> DEFINE n == call[w].attempts + 1
             c == [call[w] EXCEPT !.pc = "readIndex", !.attempts = n, !.runs = 1]
  <1>1. /\ call[w] \in Call /\ call[w].pc = "commit" /\ call \in [Writers -> Call]
        /\ UNCHANGED <<Documents, acked>>
    BY DEF IInv, TypeOK, Conflict, At
  <1>2. CASE call[w].attempts < MAX_APPEND_ATTEMPTS
    <2>1. call' = [call EXCEPT ![w] = c]
      BY <1>1, <1>2 DEF Conflict
    <2>n. n \in Nat
      BY <1>1 DEF Call
    <2> HIDE DEF n
    <2>2. /\ c \in Call /\ c.pc = "readIndex" /\ c.draft = call[w].draft
          /\ c.base = call[w].base /\ c.attempts = n
      BY <1>1, <2>n DEF Call
    <2>3. /\ head.next \in Nat /\ call[w].base \in Nat /\ call[w].attempts \in Nat
          /\ call[w].headSnap.next \in Nat
      BY <1>1 DEF IInv, TypeOK, Heads, Call
    <2>4. call[w].base + call[w].attempts + 1 <= head.next + 1
      <3>1. CASE call[w].headSnap.next \in DOMAIN events
        <4>1. call[w].headSnap.next < head.next
          BY <3>1, <2>3 DEF IInv, ChainIntact, Contiguous
        <4>2. call[w].base + call[w].attempts <= call[w].headSnap.next + 1
          BY <1>1 DEF IInv, RacesLost, At
        <4> QED
          BY <4>1, <4>2, <2>3
      <3>2. CASE call[w].draft.id \in DOMAIN index
        <4> DEFINE s == index[call[w].draft.id]
        <4>1. s \in DOMAIN events
          BY <3>2 DEF IInv, ChainIntact, IndexMatches
        <4>2. s \in Nat /\ s < head.next
          BY <4>1, <2>3 DEF IInv, ChainIntact, Contiguous
        <4>3. call[w].base + call[w].attempts <= s + 1
          BY <1>1, <3>2 DEF IInv, RacesLost, At
        <4> QED
          BY <4>2, <4>3, <2>3
      <3> QED
        BY <3>1, <3>2 DEF Conflict, CreatesSucceed
    <2>5. call[w].draft \in EventDraft
      BY <1>1 DEF IInv, CallKnows, At
    <2>6. c.draft \in EventDraft /\ c.base + c.attempts <= head.next + 1
      BY <2>2, <2>3, <2>4, <2>5 DEF n
    <2> HIDE DEF c
    <2> QED
      BY <1>1, <2>1, <2>2, <2>6, CallStep
  <1>3. CASE ~(call[w].attempts < MAX_APPEND_ATTEMPTS)
    BY <1>1, <1>3, EndOfCall DEF Conflict
  <1> QED
    BY <1>2, <1>3

LEMMA AbortStep == ASSUME IInv, NEW w \in Writers, Abort(w) PROVE IInv'
  <1> DEFINE n == call[w].runs + 1
             c == [call[w] EXCEPT !.pc = "readIndex", !.runs = n]
  <1>1. /\ call[w] \in Call /\ call[w].pc = "commit" /\ call \in [Writers -> Call]
        /\ UNCHANGED <<Documents, acked>>
    BY DEF IInv, TypeOK, Abort, At
  <1>2. CASE call[w].runs < MaxTransactionRuns
    <2>1. call' = [call EXCEPT ![w] = c]
      BY <1>1, <1>2 DEF Abort
    <2>n. n \in Nat
      BY <1>1 DEF Call
    <2> HIDE DEF n
    <2>2. /\ c \in Call /\ c.pc = "readIndex" /\ c.draft = call[w].draft
          /\ c.base = call[w].base /\ c.attempts = call[w].attempts
      BY <1>1, <2>n DEF Call
    <2>3. call[w].draft \in EventDraft /\ call[w].base + call[w].attempts <= head.next + 1
      BY <1>1 DEF IInv, CallKnows, RacesLost, At
    <2> HIDE DEF c
    <2> QED
      BY <1>1, <2>1, <2>2, <2>3, CallStep
  <1>3. CASE ~(call[w].runs < MaxTransactionRuns)
    BY <1>1, <1>3, EndOfCall DEF Abort
  <1> QED
    BY <1>2, <1>3

LEMMA ReturnStep == ASSUME IInv, NEW w \in Writers, Return(w) PROVE IInv'
  <1>1. /\ call \in [Writers -> Call] /\ call' = [call EXCEPT ![w] = IdleCall]
        /\ acked' = acked \cup {call[w].result}
        /\ events' = events /\ index' = index /\ head' = head
    BY DEF IInv, TypeOK, Return, Documents
  <1>2. /\ call[w].result \in ExecutionEvent /\ call[w].result.seq \in DOMAIN events
        /\ events[call[w].result.seq] = call[w].result
    BY DEF IInv, CallKnows, Return
  <1>3. call'[w] = IdleCall /\ \A v \in Writers : v # w => call'[v] = call[v]
    BY <1>1
  <1>4. TypeOK'
    BY <1>1, <1>2, IdleIsCall DEF IInv, TypeOK
  <1>5. ChainIntact'
    BY <1>1 DEF IInv, ChainIntact, Contiguous, Linked, HeadCommits, IndexMatches
  <1>6. AckedDurable'
    BY <1>1, <1>2 DEF IInv, AckedDurable
  <1>7. CallKnows' /\ SnapshotIsPast' /\ RacesLost'
    BY <1>1, <1>3, IdleIsCall DEF IInv, CallKnows, SnapshotIsPast, RacesLost, At
  <1> QED
    BY <1>4, <1>5, <1>6, <1>7 DEF IInv

(* A commit that is applied: the documents grow, the committing call ends   *)
(* or holds the new event, and every other call still knows what it knew.   *)
LEMMA AppliedStep ==
    ASSUME IInv, NEW w \in Writers, At(w, "commit"), CreatesSucceed(w), ApplyWrites(w),
           UNCHANGED acked,
           \/ call' = [call EXCEPT ![w] = IdleCall]
           \/ call' = [call EXCEPT ![w].pc = "return", ![w].result = Proposed(w)]
    PROVE  IInv'
  <1>1. /\ call[w] \in Call /\ call \in [Writers -> Call]
        /\ head.next \in Nat /\ call[w].pc = "commit"
    BY DEF IInv, TypeOK, Heads, At
  <1>2. /\ Proposed(w) \in ExecutionEvent /\ Proposed(w).seq = head.next
        /\ call[w].draft \in EventDraft /\ call[w].draft.id \in EventIds
    BY IsSound, CommitSeesHead DEF EventDraft
  <1>3. /\ ChainIntact'
        /\ head'.next = head.next + 1 /\ head' \in Heads
        /\ DOMAIN events' = DOMAIN events \cup {head.next}
        /\ DOMAIN index' = DOMAIN index \cup {call[w].draft.id}
        /\ events'[head.next] = Proposed(w)
        /\ index'[call[w].draft.id] = head.next
        /\ \A s \in DOMAIN events : s # head.next /\ events'[s] = events[s]
        /\ \A id \in DOMAIN index : id # call[w].draft.id /\ index'[id] = index[id]
    BY WritesExtend
  <1> HIDE DEF Proposed
  <1>4. \/ call'[w] = IdleCall
        \/ /\ call'[w] \in Call /\ call'[w].pc = "return" /\ call'[w].result = Proposed(w)
           /\ call'[w].draft = call[w].draft /\ call'[w].base = call[w].base
           /\ call'[w].attempts = call[w].attempts
    BY <1>1, <1>2 DEF Call
  <1>5. /\ call' \in [Writers -> Call]
        /\ \A v \in Writers : v # w => call'[v] = call[v]
    BY <1>1, <1>4, IdleIsCall
  <1>6. TypeOK'
    BY <1>1, <1>2, <1>3, <1>5 DEF IInv, TypeOK
  <1>7. AckedDurable'
    BY <1>3 DEF IInv, AckedDurable
  <1>8. CallKnows'
    BY <1>2, <1>3, <1>4, <1>5, IdleIsCall DEF IInv, CallKnows, At
  <1>9. SnapshotIsPast'
    <2> SUFFICES ASSUME NEW v \in Writers, call'[v].pc = "commit"
                 PROVE  call'[v].headSnap = head' \/ call'[v].headSnap.next \in DOMAIN events'
      BY DEF SnapshotIsPast, At
    <2>1. v # w /\ call'[v] = call[v]
      BY <1>4, <1>5, IdleIsCall
    <2>2. call[v].headSnap = head \/ call[v].headSnap.next \in DOMAIN events
      BY <2>1 DEF IInv, SnapshotIsPast, At
    <2> QED
      BY <2>1, <2>2, <1>3
  <1>10. RacesLost'
    <2> SUFFICES ASSUME NEW v \in Writers
                 PROVE  /\ call'[v].pc # "idle" =>
                             call'[v].base + call'[v].attempts <= head'.next + 1
                        /\ call'[v].pc = "commit" =>
                             call'[v].base + call'[v].attempts <= call'[v].headSnap.next + 1
                        /\ (call'[v].pc = "readHead" \/ call'[v].pc = "commit")
                             /\ ~call'[v].idSnap.exists
                             /\ call'[v].draft.id \in DOMAIN index' =>
                             call'[v].base + call'[v].attempts <= index'[call'[v].draft.id] + 1
                        /\ call'[v].pc = "commit" => ~call'[v].idSnap.exists
      BY DEF RacesLost, At
    <2>1. call[v].base \in Nat /\ call[v].attempts \in Nat
      BY <1>1 DEF Call
    <2>2. call[v].pc # "idle" => call[v].base + call[v].attempts <= head.next + 1
      BY DEF IInv, RacesLost, At
    <2>3. CASE v = w
      BY <2>1, <2>2, <2>3, <1>1, <1>3, <1>4, IdleIsCall
    <2>4. CASE v # w
      <3>1. call'[v] = call[v]
        BY <2>4, <1>5
      <3>2. call[v].pc # "idle" => call[v].base + call[v].attempts <= head'.next + 1
        BY <2>1, <2>2, <1>1, <1>3
      <3>3. ASSUME call[v].pc \in {"readHead", "commit"}, ~call[v].idSnap.exists,
                   call[v].draft.id \in DOMAIN index'
            PROVE  call[v].base + call[v].attempts <= index'[call[v].draft.id] + 1
        <4>1. CASE call[v].draft.id = call[w].draft.id
          BY <4>1, <3>3, <2>2, <1>3
        <4>2. CASE call[v].draft.id # call[w].draft.id
          BY <4>2, <3>3, <1>3 DEF IInv, RacesLost, At
        <4> QED
          BY <4>1, <4>2
      <3>4. /\ call[v].pc = "commit" => ~call[v].idSnap.exists
            /\ call[v].pc = "commit" =>
                  call[v].base + call[v].attempts <= call[v].headSnap.next + 1
        BY DEF IInv, RacesLost, At
      <3> QED
        BY <3>1, <3>2, <3>3, <3>4
    <2> QED
      BY <2>3, <2>4
  <1> QED
    BY <1>3, <1>6, <1>7, <1>8, <1>9, <1>10 DEF IInv

LEMMA NextIInv == IInv /\ [Next]_vars => IInv'
  <1> SUFFICES ASSUME IInv, [Next]_vars PROVE IInv'
    OBVIOUS
  <1>1. CASE UNCHANGED vars
    BY <1>1 DEF vars, IInv, TypeOK, ChainIntact, Contiguous, Linked, HeadCommits,
                IndexMatches, AckedDurable, CallKnows, SnapshotIsPast, RacesLost, At
  <1>2. ASSUME NEW w \in Writers, Record(w) \/ Step(w) \/ Fail(w) PROVE IInv'
    <2>1. CASE Record(w)
      BY <2>1, RecordStep
    <2>2. CASE ReadIndex(w)
      BY <2>2, ReadIndexStep
    <2>3. CASE ReadHead(w)
      BY <2>3, ReadHeadStep
    <2>4. CASE ReadStored(w)
      BY <2>4, ReadStoredStep
    <2>5. CASE Commit(w)
      BY <2>5, AppliedStep DEF Commit
    <2>6. CASE CommitLostAck(w)
      BY <2>6, AppliedStep DEF CommitLostAck
    <2>7. CASE Conflict(w)
      BY <2>7, ConflictStep
    <2>8. CASE Abort(w)
      BY <2>8, AbortStep
    <2>9. CASE Return(w)
      BY <2>9, ReturnStep
    <2>10. CASE Fail(w)
      BY <2>10, EndOfCall DEF Fail
    <2> QED
      BY <1>2, <2>1, <2>2, <2>3, <2>4, <2>5, <2>6, <2>7, <2>8, <2>9, <2>10 DEF Step
  <1> QED
    BY <1>1, <1>2 DEF Next

(* The inductive invariant holds in every state append() can reach.         *)
THEOREM Invariance == Spec => []IInv
  BY InitIInv, NextIInv, PTL DEF Spec

-----------------------------------------------------------------------------
(* The documents and the calls always have the shapes the code gives them.  *)
THEOREM TypeCorrect == Spec => []TypeOK
  <1>1. IInv => TypeOK
    BY DEF IInv
  <1> QED
    BY <1>1, Invariance, PTL

(* Whatever writers there are and however they interleave, fail and retry,   *)
(* the journal is one gapless hash chain with every event identifier once.   *)
THEOREM ChainStaysIntact == Spec => []ChainIntact
  <1>1. IInv => ChainIntact
    BY DEF IInv
  <1> QED
    BY <1>1, Invariance, PTL

(* No acknowledged event is ever lost, changed or moved.                     *)
THEOREM AckedStaysDurable == Spec => []AckedDurable
  <1>1. IInv => AckedDurable
    BY DEF IInv
  <1> QED
    BY <1>1, Invariance, PTL

(* append() cannot give up on sequence races unless that many other events   *)
(* became durable meanwhile.                                                 *)
THEOREM LostRacesAreProgress == Spec => []RacesAreProgress
  <1>1. IInv => RacesAreProgress
    <2> SUFFICES ASSUME IInv, NEW w \in Writers, ~At(w, "idle")
                 PROVE  call[w].attempts - 1 <= head.next - call[w].base
      BY DEF RacesAreProgress
    <2>1. call[w].base + call[w].attempts <= head.next + 1
      BY DEF IInv, RacesLost
    <2>2. call[w].base \in Nat /\ call[w].attempts \in Nat /\ head.next \in Nat
      BY DEF IInv, TypeOK, Call, Heads
    <2> QED
      BY <2>1, <2>2
  <1> QED
    BY <1>1, Invariance, PTL

-----------------------------------------------------------------------------
(* What one step does to the documents: nothing, or a commit's writes.       *)
LEMMA DocumentStep ==
    ASSUME [Next]_vars
    PROVE  \/ UNCHANGED Documents
           \/ \E w \in Writers : /\ At(w, "commit") /\ CreatesSucceed(w) /\ ApplyWrites(w)
                                 /\ UNCHANGED acked
  <1>1. CASE UNCHANGED vars
    BY <1>1 DEF vars, Documents
  <1>2. ASSUME NEW w \in Writers, Record(w) \/ Step(w) \/ Fail(w)
        PROVE  \/ UNCHANGED Documents
               \/ At(w, "commit") /\ CreatesSucceed(w) /\ ApplyWrites(w) /\ UNCHANGED acked
    BY <1>2 DEF Record, Step, Fail, ReadIndex, ReadHead, ReadStored, Commit,
                CommitLostAck, Conflict, Abort, Return, Documents
  <1> QED
    BY <1>1, <1>2 DEF Next

(* History is append-only: no step changes or removes a stored event.        *)
THEOREM HistoryIsAppendOnly == Spec => AppendOnly
  <1> DEFINE Kept == \A s \in DOMAIN events : s \in DOMAIN events' /\ events'[s] = events[s]
  <1>1. IInv /\ [Next]_vars => Kept
    <2> SUFFICES ASSUME IInv, [Next]_vars PROVE Kept
      OBVIOUS
    <2>1. CASE UNCHANGED Documents
      BY <2>1 DEF Documents
    <2>2. CASE \E w \in Writers : /\ At(w, "commit") /\ CreatesSucceed(w) /\ ApplyWrites(w)
                                  /\ UNCHANGED acked
      BY <2>2, WritesExtend
    <2> QED
      BY <2>1, <2>2, DocumentStep
  <1> QED
    BY <1>1, Invariance, PTL DEF Spec, AppendOnly

-----------------------------------------------------------------------------
(* Refinement: the documents implement the abstract append-only log.         *)
Entry(e) == [id |-> e.id, body |-> e.body]
AbsLog   == [i \in 1..head.next |-> Entry(events[i - 1])]
AbsAcked == {<<e.seq + 1, Entry(e)>> : e \in acked}

LogOf(ev, n) == [i \in 1..n |-> Entry(ev[i - 1])]

LEMMA LogOfEvents ==
    ASSUME NEW ev, NEW n \in Nat, \A s \in 0..(n - 1) : ev[s] \in ExecutionEvent
    PROVE  /\ LogOf(ev, n) \in Seq(EventDraft)
           /\ Len(LogOf(ev, n)) = n
           /\ \A i \in 1..n : LogOf(ev, n)[i] = Entry(ev[i - 1])
  <1>1. \A i \in 1..n : Entry(ev[i - 1]) \in EventDraft
    <2> SUFFICES ASSUME NEW i \in 1..n PROVE Entry(ev[i - 1]) \in EventDraft
      OBVIOUS
    <2>1. ev[i - 1] \in ExecutionEvent
      OBVIOUS
    <2> QED
      BY <2>1 DEF ExecutionEvent, Entry, EventDraft
  <1> QED
    BY <1>1 DEF LogOf

(* The mapped log is a sequence of drafts, one per document.                  *)
LogShape ==
    /\ head.next \in Nat
    /\ AbsLog \in Seq(EventDraft)
    /\ Len(AbsLog) = head.next
    /\ \A i \in 1..head.next : i - 1 \in DOMAIN events /\ AbsLog[i] = Entry(events[i - 1])

LEMMA LogFacts == IInv => LogShape
  <1> SUFFICES ASSUME IInv PROVE LogShape
    OBVIOUS
  <1>1. head.next \in Nat /\ DOMAIN events = 0 .. (head.next - 1)
    BY DEF IInv, TypeOK, Heads, ChainIntact, Contiguous
  <1>2. \A i \in 1..head.next : i - 1 \in DOMAIN events
    BY <1>1
  <1>3. \A s \in 0..(head.next - 1) : events[s] \in ExecutionEvent
    BY <1>1 DEF IInv, TypeOK
  <1>4. AbsLog = LogOf(events, head.next)
    BY DEF AbsLog, LogOf
  <1> QED
    BY <1>1, <1>2, <1>3, <1>4, LogOfEvents DEF LogShape

(* A successful commit appends exactly one entry, with a new identifier.     *)
LEMMA CommitAppends ==
    ASSUME IInv, IInv', NEW w \in Writers, At(w, "commit"), CreatesSucceed(w), ApplyWrites(w)
    PROVE  /\ AbsLog' = Append(AbsLog, call[w].draft)
           /\ call[w].draft \in EventDraft
           /\ \A i \in 1..Len(AbsLog) : AbsLog[i].id # call[w].draft.id
  <1>1. /\ call[w].draft \in EventDraft /\ call[w].draft.id \notin DOMAIN index
        /\ Proposed(w) = Finalize(call[w].draft, head.next, head.hash)
    BY IsSound, CommitSeesHead
  <1>2. /\ head'.next = head.next + 1
        /\ events'[head.next] = Proposed(w)
        /\ \A s \in DOMAIN events : events'[s] = events[s]
    BY WritesExtend
  <1>3. Entry(Proposed(w)) = call[w].draft
    BY <1>1 DEF Entry, Finalize, EventDraft
  <1>4. /\ head.next \in Nat /\ AbsLog \in Seq(EventDraft) /\ Len(AbsLog) = head.next
        /\ \A i \in 1..head.next : i - 1 \in DOMAIN events /\ AbsLog[i] = Entry(events[i - 1])
    BY LogFacts DEF LogShape
  <1>5. /\ AbsLog' \in Seq(EventDraft) /\ Len(AbsLog') = head.next + 1
        /\ \A i \in 1..(head.next + 1) : AbsLog'[i] = Entry(events'[i - 1])
    <2>1. LogShape'
      BY LogFacts, PTL
    <2> QED
      BY <2>1, <1>2, <1>4 DEF LogShape, Entry
  <1>6. AbsLog' = Append(AbsLog, call[w].draft)
    <2>1. \A i \in 1..head.next : AbsLog'[i] = AbsLog[i]
      BY <1>2, <1>4, <1>5
    <2>2. AbsLog'[head.next + 1] = call[w].draft
      BY <1>2, <1>3, <1>4, <1>5
    <2> HIDE DEF AbsLog
    <2> QED
      BY <1>1, <1>4, <1>5, <2>1, <2>2
  <1>7. \A i \in 1..Len(AbsLog) : AbsLog[i].id # call[w].draft.id
    <2> SUFFICES ASSUME NEW i \in 1..head.next PROVE AbsLog[i].id # call[w].draft.id
      BY <1>4
    <2>1. events[i - 1].id \in DOMAIN index
      BY <1>4 DEF IInv, ChainIntact, IndexMatches
    <2>2. AbsLog[i] = Entry(events[i - 1])
      BY <1>4
    <2>3. AbsLog[i].id = events[i - 1].id
      BY <2>2 DEF Entry
    <2> QED
      BY <2>1, <2>3, <1>1
  <1> QED
    BY <1>1, <1>6, <1>7

(* Returning an event acknowledges an entry of the log.                      *)
LEMMA ReturnAcknowledges ==
    ASSUME IInv, NEW w \in Writers, Return(w)
    PROVE  /\ AbsLog' = AbsLog
           /\ \E i \in 1..Len(AbsLog) : AbsAcked' = AbsAcked \cup {<<i, AbsLog[i]>>}
  <1> DEFINE e == call[w].result
             i == e.seq + 1
  <1>1. /\ e \in ExecutionEvent /\ e.seq \in DOMAIN events /\ events[e.seq] = e
    BY DEF IInv, CallKnows, Return
  <1>2. acked' = acked \cup {e} /\ events' = events /\ head' = head
    BY DEF Return, Documents
  <1> HIDE DEF e
  <1>3. i \in 1..head.next /\ i - 1 = e.seq /\ Len(AbsLog) = head.next
    BY <1>1, LogFacts DEF LogShape, IInv, ChainIntact, Contiguous
  <1>4. AbsLog[i] = Entry(e)
    BY <1>1, <1>3, LogFacts DEF LogShape
  <1>5. AbsAcked' = AbsAcked \cup {<<e.seq + 1, Entry(e)>>}
    BY <1>2 DEF AbsAcked, Entry
  <1>6. AbsLog' = AbsLog
    BY <1>2 DEF AbsLog, Entry
  <1> QED
    BY <1>3, <1>4, <1>5, <1>6

(* The documents implement one append-only log that holds every event        *)
(* identifier at most once and acknowledges only what it holds.              *)
THEOREM Refinement == Spec => ImplementsAppendLog
  <1>1. Init => Log!Init
    BY DEF Init, Log!Init, AbsentHead
  <1>2. IInv /\ IInv' /\ [Next]_vars => [Log!Next]_(Log!vars)
    <2> SUFFICES ASSUME IInv, IInv', [Next]_vars
                 PROVE  Log!Next \/ (AbsLog' = AbsLog /\ AbsAcked' = AbsAcked)
      BY DEF AbsLog, AbsAcked, Entry, Log!vars
    <2>1. ASSUME NEW w \in Writers, At(w, "commit"), CreatesSucceed(w), ApplyWrites(w),
                 UNCHANGED acked
          PROVE  Log!Append1
      <3>1. /\ AbsLog' = Append(AbsLog, call[w].draft)
            /\ call[w].draft \in EventDraft
            /\ \A i \in 1..Len(AbsLog) : AbsLog[i].id # call[w].draft.id
        BY <2>1, CommitAppends
      <3>2. AbsAcked' = AbsAcked
        BY <2>1 DEF AbsAcked, Entry
      <3> QED
        BY <3>1, <3>2 DEF Log!Append1, Log!Logged, AbsLog, AbsAcked, Entry, EventDraft
    <2>2. ASSUME NEW w \in Writers, Return(w) PROVE Log!Acknowledge
      BY <2>2, ReturnAcknowledges DEF Log!Acknowledge, AbsLog, AbsAcked, Entry
    <2>3. CASE UNCHANGED vars
      BY <2>3 DEF vars, AbsLog, AbsAcked, Entry
    <2>4. ASSUME NEW w \in Writers, Record(w) \/ Step(w) \/ Fail(w), ~Return(w),
                 UNCHANGED Documents
          PROVE  AbsLog' = AbsLog /\ AbsAcked' = AbsAcked
      <3>1. UNCHANGED acked
        BY <2>4 DEF Record, Step, Fail, ReadIndex, ReadHead, ReadStored, Commit,
                    CommitLostAck, Conflict, Abort
      <3> QED
        BY <2>4, <3>1 DEF Documents, AbsLog, AbsAcked, Entry
    <2> QED
      BY <2>1, <2>2, <2>3, <2>4, DocumentStep DEF Next, Log!Next
  <1> QED
    BY <1>1, <1>2, Invariance, PTL DEF Spec, ImplementsAppendLog, Log!Spec

-----------------------------------------------------------------------------
(* What verify_chain() accepts.                                              *)

LEMMA LeastNatural ==
    ASSUME NEW T \in SUBSET Nat, T # {}
    PROVE  \E x \in T : \A y \in T : x <= y
<1> DEFINE R == OpToRel(<, Nat)
<1>1. IsWellFoundedOn(R, Nat)
  BY NatLessThanWellFounded
<1>2. \A x, y \in Nat : x < y => <<x, y>> \in R
  BY DEF OpToRel
<1> HIDE DEF R
<1>3. PICK x \in T : \A y \in T : ~ (<<y, x>> \in R)
  BY <1>1, WFMin
<1>4. \A y \in T : ~ (y < x)
  BY <1>2, <1>3
<1> QED
  BY <1>3, <1>4

\* A set of naturals that no number is the first to be missing from.
LEMMA AllNaturals ==
    ASSUME NEW T, 0 \in T, \A n \in Nat : n \in T => n + 1 \in T
    PROVE  Nat \subseteq T
<1> SUFFICES ASSUME Nat \ T # {} PROVE FALSE
  OBVIOUS
<1>1. PICK n \in Nat \ T : \A m \in Nat \ T : n <= m
  BY LeastNatural
<1>2. n # 0 /\ n - 1 \in Nat /\ ~ (n <= n - 1)
  BY <1>1
<1>3. n - 1 \in T
  BY <1>1, <1>2
<1>4. (n - 1) + 1 \in T /\ (n - 1) + 1 = n
  BY <1>2, <1>3
<1> QED
  BY <1>1, <1>4

\* The documents a sink may read back, however they came to be.
Documented(docs) ==
    /\ IsFiniteSet(DOMAIN docs)
    /\ \A k \in DOMAIN docs : docs[k] \in ExecutionEvent

Sorted(docs, keys, size) ==
    \A i, j \in 1..size : i < j => keys[i] # keys[j] /\ docs[keys[i]].seq <= docs[keys[j]].seq

LEMMA SortExists ==
    ASSUME NEW docs, Documented(docs), NEW S \in SUBSET DOMAIN docs
    PROVE  \E keys \in [1..Cardinality(S) -> S] : Sorted(docs, keys, Cardinality(S))
<1> DEFINE T == {m \in Nat : \A U \in SUBSET DOMAIN docs :
                    Cardinality(U) = m => \E keys \in [1..m -> U] : Sorted(docs, keys, m)}
<1>1. \A U \in SUBSET DOMAIN docs : IsFiniteSet(U) /\ Cardinality(U) \in Nat
  BY FS_Subset, FS_CardinalityType DEF Documented
<1>2. 0 \in T
  <2> SUFFICES ASSUME NEW U \in SUBSET DOMAIN docs
               PROVE  \E keys \in [1..0 -> U] : Sorted(docs, keys, 0)
    OBVIOUS
  <2>1. 1..0 = {} /\ [i \in 1..0 |-> i] \in [1..0 -> U]
    OBVIOUS
  <2> QED
    BY <2>1 DEF Sorted
<1>3. ASSUME NEW m \in Nat, m \in T
      PROVE  m + 1 \in T
  <2> SUFFICES ASSUME NEW U \in SUBSET DOMAIN docs, Cardinality(U) = m + 1
               PROVE  \E keys \in [1..m + 1 -> U] : Sorted(docs, keys, m + 1)
    OBVIOUS
  <2>1. U # {} /\ \A x \in U : docs[x] \in ExecutionEvent /\ docs[x].seq \in Nat
    <3>1. U # {}
      <4>1. m + 1 # 0 /\ Cardinality({}) = 0
        BY FS_EmptySet
      <4> QED
        BY <4>1
    <3> QED
      BY <3>1 DEF Documented, ExecutionEvent
  <2>2. PICK x \in U : \A y \in U : docs[x].seq <= docs[y].seq
    <3> DEFINE Q == {docs[y].seq : y \in U}
    <3>1. Q \in SUBSET Nat /\ Q # {}
      BY <2>1
    <3>2. PICK q \in Q : \A r \in Q : q <= r
      <4> HIDE DEF Q
      <4> QED
        BY <3>1, LeastNatural
    <3> QED
      BY <3>2
  <2>3. U \ {x} \in SUBSET DOMAIN docs /\ Cardinality(U \ {x}) = m
    BY <1>1, FS_RemoveElement
  <2>4. PICK rest \in [1..m -> U \ {x}] : Sorted(docs, rest, m)
    BY <1>3, <2>3
  <2> DEFINE keys == [i \in 1..m + 1 |-> IF i = 1 THEN x ELSE rest[i - 1]]
  <2>5. keys \in [1..m + 1 -> U] /\ \A i \in 2..m + 1 : keys[i] \in U \ {x} /\ i - 1 \in 1..m
    OBVIOUS
  <2>6. ASSUME NEW i \in 1..m + 1, NEW j \in 1..m + 1, i < j
        PROVE  keys[i] # keys[j] /\ docs[keys[i]].seq <= docs[keys[j]].seq
    <3>1. j \in 2..m + 1 /\ keys[j] = rest[j - 1] /\ j - 1 \in 1..m /\ keys[j] \in U \ {x}
      BY <2>5, <2>6
    <3>2. CASE i = 1
      BY <2>2, <3>1, <3>2
    <3>3. CASE i # 1
      <4>1. i - 1 \in 1..m /\ keys[i] = rest[i - 1] /\ i - 1 < j - 1
        BY <2>6, <3>3
      <4> QED
        BY <2>4, <3>1, <4>1 DEF Sorted
    <3> QED
      BY <3>2, <3>3
  <2> QED
    BY <2>5, <2>6 DEF Sorted
<1> HIDE DEF T
<1>4. Cardinality(S) \in T
  BY <1>1, <1>2, <1>3, AllNaturals
<1> QED
  BY <1>4 DEF T

\* What list_execution() returns: every document once, in order.
LEMMA Listing ==
    ASSUME NEW docs, Documented(docs)
    PROVE  LET size == Cardinality(DOMAIN docs) IN
           /\ size \in Nat
           /\ \E keys \in [1..size -> DOMAIN docs] :
                /\ Sorted(docs, keys, size)
                /\ \A k \in DOMAIN docs : \E i \in 1..size : keys[i] = k
                /\ ListExecution(docs) = [i \in 1..size |-> docs[keys[i]]]
           /\ ListExecution(docs) \in Seq(ExecutionEvent)
           /\ Len(ListExecution(docs)) = size
<1> DEFINE size == Cardinality(DOMAIN docs)
           keys == CHOOSE k \in [1..size -> DOMAIN docs] :
                      \A i, j \in 1..size :
                         i < j => k[i] # k[j] /\ docs[k[i]].seq <= docs[k[j]].seq
<1>1. IsFiniteSet(DOMAIN docs) /\ size \in Nat
  BY FS_CardinalityType DEF Documented
<1>2. \E k \in [1..size -> DOMAIN docs] :
         \A i, j \in 1..size : i < j => k[i] # k[j] /\ docs[k[i]].seq <= docs[k[j]].seq
  BY SortExists DEF Sorted
<1>3. keys \in [1..size -> DOMAIN docs] /\ Sorted(docs, keys, size)
  BY <1>2 DEF Sorted
<1>4. ListExecution(docs) = [i \in 1..size |-> docs[keys[i]]]
  BY DEF ListExecution
<1> HIDE DEF keys, size
<1>5. \A k \in DOMAIN docs : \E i \in 1..size : keys[i] = k
  <2>1. \A i, j \in 1..size : keys[i] = keys[j] => i = j
    BY <1>1, <1>3 DEF Sorted
  <2>2. keys \in Injection(1..size, DOMAIN docs)
    BY <1>3, <2>1, Fun_IsInj
  <2>3. Cardinality(1..size) = size /\ size = Cardinality(DOMAIN docs)
    BY <1>1, FS_Interval DEF size
  <2>4. keys \in Surjection(1..size, DOMAIN docs)
    BY <1>1, <2>2, <2>3, FS_Injection
  <2> QED
    BY <2>4 DEF Surjection
<1>6. \A i \in 1..size : docs[keys[i]] \in ExecutionEvent
  BY <1>3 DEF Documented
<1>7. ListExecution(docs) \in Seq(ExecutionEvent) /\ Len(ListExecution(docs)) = size
  BY <1>1, <1>4, <1>6
<1> QED
  BY <1>1, <1>3, <1>4, <1>5, <1>7 DEF size

-----------------------------------------------------------------------------
(* The digest of the last event determines the chain.                        *)

Chained(s) == \A i \in 1..Len(s) : Intact(s[i]) /\ FollowsPredecessor(s, i)

LEMMA DigestIs ==
    ASSUME NEW e \in ExecutionEvent, Intact(e)
    PROVE  /\ e.hash # GENESIS_HASH
           /\ Len(e.hash) = Len(e.prev) + 1
           /\ \A f \in ExecutionEvent : Intact(f) /\ e.hash = f.hash => e = f
<1> DEFINE Links == Nat \X EventIds \X Bodies
           Link(x) == <<x.seq, x.id, x.body>>
<1>1. \A x \in ExecutionEvent : x.prev \in Seq(Links) /\ Link(x) \in Links
  BY DEF ExecutionEvent, Digests
<1>2. \A x \in ExecutionEvent : Intact(x) => x.hash = Append(x.prev, Link(x))
  BY DEF Intact, ComputeHash
<1>3. e.hash # GENESIS_HASH /\ Len(e.hash) = Len(e.prev) + 1
  <2> HIDE DEF Links, Link
  <2> QED
    BY <1>1, <1>2, AppendProperties DEF GENESIS_HASH
<1>4. ASSUME NEW f \in ExecutionEvent, Intact(f), e.hash = f.hash
      PROVE  e = f
  <2>1. e.prev = f.prev /\ Link(e) = Link(f)
    <3>1. Append(e.prev, Link(e)) = Append(f.prev, Link(f))
      BY <1>2, <1>4
    <3> HIDE DEF Links, Link
    <3>2. /\ e.prev \in Seq(Links) /\ Link(e) \in Links
          /\ f.prev \in Seq(Links) /\ Link(f) \in Links
      BY <1>1
    <3> QED
      BY <3>1, <3>2, AppendInjective
  <2>2. e.seq = f.seq /\ e.id = f.id /\ e.body = f.body
    BY <2>1
  <2> QED
    BY <1>4, <2>1, <2>2 DEF ExecutionEvent
<1> QED
  BY <1>3, <1>4

LEMMA DigestLength ==
    ASSUME NEW s \in Seq(ExecutionEvent), Chained(s)
    PROVE  \A i \in 1..Len(s) : Len(s[i].hash) = i
<1> DEFINE T == {m \in Nat : m < Len(s) => Len(s[m + 1].hash) = m + 1}
<1>1. \A i \in 1..Len(s) : s[i] \in ExecutionEvent /\ Len(s[i].hash) = Len(s[i].prev) + 1
  BY DigestIs DEF Chained
<1>2. 0 \in T
  <2> SUFFICES ASSUME 0 < Len(s) PROVE Len(s[1].hash) = 1
    OBVIOUS
  <2>1. 1 \in 1..Len(s)
    OBVIOUS
  <2>2. s[1].prev = << >> /\ Len(<< >>) = 0
    BY <2>1 DEF Chained, FollowsPredecessor, GENESIS_HASH
  <2>3. Len(s[1].hash) = Len(s[1].prev) + 1
    BY <1>1, <2>1
  <2> QED
    BY <2>2, <2>3
<1>3. ASSUME NEW m \in Nat, m \in T
      PROVE  m + 1 \in T
  <2> SUFFICES ASSUME m + 1 < Len(s) PROVE Len(s[m + 2].hash) = m + 2
    OBVIOUS
  <2>1. m + 2 \in 1..Len(s) /\ m + 2 # 1 /\ (m + 2) - 1 = m + 1 /\ m < Len(s)
    OBVIOUS
  <2>2. s[m + 2].prev = s[m + 1].hash
    BY <2>1 DEF Chained, FollowsPredecessor
  <2>3. Len(s[m + 1].hash) = m + 1
    BY <1>3, <2>1
  <2> QED
    BY <1>1, <2>1, <2>2, <2>3
<1> HIDE DEF T
<1>4. \A m \in Nat : m \in T
  BY <1>2, <1>3, AllNaturals
<1> QED
  <2> SUFFICES ASSUME NEW i \in 1..Len(s) PROVE Len(s[i].hash) = i
    OBVIOUS
  <2>1. i - 1 \in T /\ i - 1 < Len(s) /\ (i - 1) + 1 = i
    BY <1>4
  <2> QED
    BY <2>1 DEF T

LEMMA TailDeterminesChain ==
    ASSUME NEW s \in Seq(ExecutionEvent), Chained(s), s # << >>,
           NEW t \in Seq(ExecutionEvent), Chained(t), t # << >>,
           s[Len(s)].hash = t[Len(t)].hash
    PROVE  s = t
<1> DEFINE n == Len(s)
           T == {d \in Nat : d < n => s[n - d] = t[n - d]}
<1>1. n \in Nat \ {0} /\ Len(t) \in Nat \ {0}
  OBVIOUS
<1>2. Len(t) = n
  BY <1>1, DigestLength
<1>3. \A i \in 1..n : /\ s[i] \in ExecutionEvent /\ t[i] \in ExecutionEvent
                      /\ Intact(s[i]) /\ Intact(t[i])
                      /\ (s[i].hash = t[i].hash => s[i] = t[i])
  BY <1>1, <1>2, DigestIs DEF Chained
<1>4. 0 \in T
  BY <1>1, <1>2, <1>3
<1>5. ASSUME NEW d \in Nat, d \in T
      PROVE  d + 1 \in T
  <2> SUFFICES ASSUME d + 1 < n PROVE s[n - (d + 1)] = t[n - (d + 1)]
    OBVIOUS
  <2>1. /\ n - d \in 1..n /\ n - d # 1 /\ (n - d) - 1 = n - (d + 1)
        /\ n - (d + 1) \in 1..n
    BY <1>1
  <2>2. s[n - d] = t[n - d]
    <3>1. d < n
      BY <1>1
    <3> QED
      BY <1>5, <3>1
  <2>3. s[n - d].prev = s[n - (d + 1)].hash /\ t[n - d].prev = t[n - (d + 1)].hash
    BY <1>2, <2>1 DEF Chained, FollowsPredecessor
  <2> QED
    BY <1>3, <2>1, <2>2, <2>3
<1> HIDE DEF T
<1>6. \A d \in Nat : d \in T
  BY <1>4, <1>5, AllNaturals
<1>7. \A i \in 1..n : s[i] = t[i]
  <2> SUFFICES ASSUME NEW i \in 1..n PROVE s[i] = t[i]
    OBVIOUS
  <2>1. n - i \in T /\ n - i < n /\ n - (n - i) = i
    BY <1>1, <1>6
  <2> QED
    BY <2>1 DEF T
<1> QED
  BY <1>1, <1>2, <1>7, SeqEqual

-----------------------------------------------------------------------------
(* What append() left behind is listed in its order, and accepted.           *)

\* Documents that are filed under their sequences, without a gap.
LEMMA FiledListing ==
    ASSUME NEW n \in Nat, NEW docs, DOMAIN docs = 0 .. (n - 1),
           \A k \in DOMAIN docs : docs[k] \in ExecutionEvent /\ docs[k].seq = k
    PROVE  /\ Documented(docs) /\ Cardinality(DOMAIN docs) = n
           /\ ListExecution(docs) = [i \in 1..n |-> docs[i - 1]]
<1>1. IsFiniteSet(0 .. (n - 1)) /\ Cardinality(0 .. (n - 1)) = n
  BY FS_Interval
<1>3. Documented(docs) /\ Cardinality(DOMAIN docs) = n
  BY <1>1 DEF Documented
<1>4. PICK keys \in [1..n -> DOMAIN docs] :
         /\ Sorted(docs, keys, n)
         /\ ListExecution(docs) = [i \in 1..n |-> docs[keys[i]]]
  <2> DEFINE size == Cardinality(DOMAIN docs)
  <2>1. \E keys \in [1..size -> DOMAIN docs] :
           /\ Sorted(docs, keys, size)
           /\ ListExecution(docs) = [i \in 1..size |-> docs[keys[i]]]
    BY <1>3, Listing
  <2>2. size = n
    BY <1>3
  <2> HIDE DEF size
  <2> QED
    BY <2>1, <2>2
<1>5. /\ \A i \in 1..n : keys[i] \in 0 .. (n - 1)
      /\ \A i, j \in 1..n : i < j => keys[i] < keys[j]
  <2>1. \A i \in 1..n : keys[i] \in 0 .. (n - 1) /\ docs[keys[i]].seq = keys[i]
    BY <1>1, <1>4
  <2> SUFFICES ASSUME NEW i \in 1..n, NEW j \in 1..n, i < j PROVE keys[i] < keys[j]
    BY <2>1
  <2>2. keys[i] # keys[j] /\ docs[keys[i]].seq <= docs[keys[j]].seq
    BY <1>4 DEF Sorted
  <2> QED
    BY <1>1, <2>1, <2>2
<1>6. \A i \in 1..n : keys[i] >= i - 1
  <2> DEFINE T == {m \in Nat : m < n => keys[m + 1] >= m}
  <2>1. 0 \in T
    BY <1>1, <1>5
  <2>2. ASSUME NEW m \in Nat, m \in T PROVE m + 1 \in T
    <3> SUFFICES ASSUME m + 1 < n PROVE keys[m + 2] >= m + 1
      OBVIOUS
    <3>1. m + 1 \in 1..n /\ m + 2 \in 1..n /\ m + 1 < m + 2 /\ m < n
      BY <1>1
    <3>2. keys[m + 1] < keys[m + 2] /\ keys[m + 1] >= m
      BY <1>5, <2>2, <3>1
    <3> QED
      BY <1>1, <1>5, <3>1, <3>2
  <2> HIDE DEF T
  <2>3. \A m \in Nat : m \in T
    BY <2>1, <2>2, AllNaturals
  <2> SUFFICES ASSUME NEW i \in 1..n PROVE keys[i] >= i - 1
    OBVIOUS
  <2>4. i - 1 \in T /\ i - 1 < n /\ (i - 1) + 1 = i
    BY <1>1, <2>3
  <2> QED
    BY <2>4 DEF T
<1>7. \A i \in 1..n : keys[i] <= i - 1
  <2> DEFINE T == {d \in Nat : d < n => keys[n - d] <= n - d - 1}
  <2>1. 0 \in T
    BY <1>1, <1>5
  <2>2. ASSUME NEW d \in Nat, d \in T PROVE d + 1 \in T
    <3> SUFFICES ASSUME d + 1 < n PROVE keys[n - (d + 1)] <= n - (d + 1) - 1
      OBVIOUS
    <3>1. n - d \in 1..n /\ n - (d + 1) \in 1..n /\ n - (d + 1) < n - d /\ d < n
      BY <1>1
    <3>2. keys[n - (d + 1)] < keys[n - d] /\ keys[n - d] <= n - d - 1
      BY <1>5, <2>2, <3>1
    <3> QED
      BY <1>1, <1>5, <3>1, <3>2
  <2> HIDE DEF T
  <2>3. \A d \in Nat : d \in T
    BY <2>1, <2>2, AllNaturals
  <2> SUFFICES ASSUME NEW i \in 1..n PROVE keys[i] <= i - 1
    OBVIOUS
  <2>4. n - i \in T /\ n - i < n /\ n - (n - i) = i
    BY <1>1, <2>3
  <2> QED
    BY <2>4 DEF T
<1>8. \A i \in 1..n : keys[i] = i - 1
  BY <1>1, <1>5, <1>6, <1>7
<1> QED
  BY <1>3, <1>4, <1>8

LEMMA HonestListing ==
    ASSUME IInv
    PROVE  /\ Documented(events) /\ Cardinality(DOMAIN events) = head.next
           /\ ListExecution(events) = [i \in 1..head.next |-> events[i - 1]]
<1>1. /\ head.next \in Nat /\ DOMAIN events = 0 .. (head.next - 1)
      /\ \A k \in DOMAIN events : events[k] \in ExecutionEvent /\ events[k].seq = k
  BY DEF IInv, TypeOK, Heads, ChainIntact, Contiguous, Linked
<1> QED
  BY <1>1, FiledListing

\* The events some time ago: a beginning of those there are.
Earlier(docs, n) ==
    /\ n \in 0 .. head.next /\ DOMAIN docs = 0 .. (n - 1)
    /\ \A k \in DOMAIN docs : docs[k] = events[k]

\* They are an intact chain, whose tail the head matches if nothing came since.
LEMMA EarlierVerifies ==
    ASSUME IInv, NEW docs, NEW n, Earlier(docs, n)
    PROVE  LET s == ListExecution(docs) IN
           Len(s) = n /\ VerifyEvents(s) /\ (HeadMatchesTail(s, head) <=> n = head.next)
<1> DEFINE s == ListExecution(docs)
<1>0. /\ n \in Nat /\ n <= head.next /\ head.next \in Nat /\ DOMAIN docs = 0 .. (n - 1)
      /\ DOMAIN events = 0 .. (head.next - 1)
      /\ \A k \in DOMAIN docs : docs[k] = events[k] /\ k \in DOMAIN events
  BY DEF Earlier, IInv, TypeOK, Heads, ChainIntact, Contiguous
<1>1. \A k \in DOMAIN docs :
         /\ docs[k] \in ExecutionEvent /\ docs[k].seq = k /\ Intact(docs[k])
         /\ docs[k].prev = IF k = 0 THEN GENESIS_HASH ELSE docs[k - 1].hash
  <2> SUFFICES ASSUME NEW k \in DOMAIN docs
               PROVE  /\ docs[k] \in ExecutionEvent /\ docs[k].seq = k /\ Intact(docs[k])
                      /\ docs[k].prev = IF k = 0 THEN GENESIS_HASH ELSE docs[k - 1].hash
    OBVIOUS
  <2>1. /\ docs[k] = events[k] /\ k \in DOMAIN events
        /\ (k # 0 => k - 1 \in DOMAIN docs /\ docs[k - 1] = events[k - 1])
    BY <1>0
  <2> QED
    BY <2>1 DEF IInv, TypeOK, ChainIntact, Linked
<1>2. s = [i \in 1..n |-> docs[i - 1]]
  BY <1>0, <1>1, FiledListing
<1> HIDE DEF s
<1>3. Len(s) = n /\ (s = << >> <=> n = 0)
  BY <1>0, <1>1, <1>2
<1>4. \A i \in 1..n : /\ s[i] = docs[i - 1] /\ i - 1 \in DOMAIN docs
                      /\ s[i].seq = i - 1 /\ Intact(s[i])
  BY <1>0, <1>1, <1>2
<1>5. \A i \in 1..n : FollowsPredecessor(s, i)
  <2> SUFFICES ASSUME NEW i \in 1..n PROVE FollowsPredecessor(s, i)
    OBVIOUS
  <2>1. CASE i = 1
    BY <1>0, <1>1, <1>4, <2>1 DEF FollowsPredecessor
  <2>2. CASE i # 1
    <3>1. i - 1 \in 1..n /\ s[i - 1] = docs[(i - 1) - 1] /\ i - 1 # 0
      BY <1>0, <1>1, <1>4, <2>2
    <3>2. s[i].prev = docs[(i - 1) - 1].hash
      BY <1>0, <1>1, <1>4, <3>1
    <3> QED
      BY <2>2, <3>1, <3>2 DEF FollowsPredecessor
  <2> QED
    BY <2>1, <2>2
<1>6. NoDuplicateSequence(s)
  <2> SUFFICES ASSUME NEW i \in 2..n PROVE s[i].seq # s[i - 1].seq
    BY <1>3 DEF NoDuplicateSequence
  <2>1. i \in 1..n /\ i - 1 \in 1..n
    BY <1>0
  <2> QED
    BY <1>0, <1>1, <1>4, <2>1
<1>7. n # 0 => NoMissingSequence(s) /\ s[1].seq = 0
  <2> SUFFICES ASSUME n # 0 PROVE NoMissingSequence(s) /\ s[1].seq = 0
    OBVIOUS
  <2>1. s[1].seq = 0 /\ s[n].seq = n - 1
    BY <1>0, <1>1, <1>4
  <2>2. {s[i].seq : i \in 1..n} = 0 .. (n - 1)
    <3>1. \A q \in 0 .. (n - 1) : q + 1 \in 1..n /\ s[q + 1].seq = q
      BY <1>0, <1>1, <1>4
    <3>2. \A i \in 1..n : s[i].seq = i - 1 /\ i - 1 \in 0 .. (n - 1)
      BY <1>0, <1>4
    <3> QED
      BY <3>1, <3>2
  <2> QED
    BY <1>3, <2>1, <2>2 DEF NoMissingSequence
<1>8. VerifyEvents(s)
  BY <1>3, <1>4, <1>5, <1>6, <1>7 DEF VerifyEvents
<1>9. HeadMatchesTail(s, head) <=> n = head.next
  <2>1. CASE n = 0
    BY <1>0, <1>3, <2>1 DEF IInv, ChainIntact, HeadCommits, AbsentHead, HeadMatchesTail
  <2>2. CASE n # 0
    <3>1. head.exists /\ head.hash = events[head.next - 1].hash
      BY <1>0, <2>2 DEF IInv, ChainIntact, HeadCommits
    <3>2. s # << >> /\ s[n].seq = n - 1 /\ s[n] = docs[n - 1] /\ (n - 1) + 1 = n
          /\ docs[n - 1] = events[n - 1]
      BY <1>0, <1>3, <1>4, <2>2
    <3> QED
      BY <1>0, <1>3, <3>1, <3>2 DEF HeadMatchesTail
  <2> QED
    BY <2>1, <2>2
<1> QED
  BY <1>3, <1>8, <1>9 DEF s

LEMMA HonestAccepted ==
    ASSUME IInv
    PROVE  ChainVerifies(ListExecution(events), head)
<1>1. Earlier(events, head.next)
  BY DEF Earlier, IInv, TypeOK, Heads, ChainIntact, Contiguous
<1> QED
  BY <1>1, EarlierVerifies DEF ChainVerifies

\* Whatever documents verify against the head: they list the history, in its
\* order.
LEMMA VerifiedIsTheHistory ==
    ASSUME IInv, NEW docs, Documented(docs), ChainVerifies(ListExecution(docs), head)
    PROVE  ListExecution(docs) = ListExecution(events)
<1> DEFINE s == ListExecution(docs)
           t == ListExecution(events)
<1>1. s \in Seq(ExecutionEvent) /\ t \in Seq(ExecutionEvent)
  BY Listing, HonestListing
<1>2. VerifyEvents(s) /\ HeadMatchesTail(s, head) /\ VerifyEvents(t) /\ HeadMatchesTail(t, head)
  BY HonestAccepted DEF ChainVerifies
<1> HIDE DEF s, t
<1>3. \A u \in Seq(ExecutionEvent) :
         u # << >> => /\ Len(u) \in Nat \ {0} /\ u[Len(u)].seq \in Nat
                      /\ u[Len(u)].seq + 1 # 0
  <2> SUFFICES ASSUME NEW u \in Seq(ExecutionEvent), u # << >>
               PROVE  Len(u) \in Nat \ {0} /\ u[Len(u)].seq \in Nat
    OBVIOUS
  <2>1. Len(u) \in Nat \ {0}
    OBVIOUS
  <2>2. u[Len(u)] \in ExecutionEvent
    BY <2>1
  <2> QED
    BY <2>1, <2>2 DEF ExecutionEvent
<1>4. CASE s = << >> \/ t = << >>
  <2>1. s = << >> /\ t = << >>
    BY <1>1, <1>2, <1>3, <1>4 DEF HeadMatchesTail
  <2> QED
    BY <2>1 DEF s, t
<1>5. CASE s # << >> /\ t # << >>
  <2>1. Chained(s) /\ Chained(t)
    BY <1>2, <1>5 DEF VerifyEvents, Chained
  <2>2. s[Len(s)].hash = t[Len(t)].hash
    BY <1>2, <1>5 DEF HeadMatchesTail
  <2>3. s = t
    BY <1>1, <1>5, <2>1, <2>2, TailDeterminesChain
  <2> QED
    BY <2>3 DEF s, t
<1> QED
  BY <1>4, <1>5

\* The documents of events are a collection: nothing but a document under a key.
IsCollection == events = [s \in DOMAIN events |-> events[s]]

LEMMA CollectionKept == ASSUME IsCollection, [Next]_vars PROVE IsCollection'
<1>1. CASE UNCHANGED Documents
  BY <1>1 DEF Documents, IsCollection
<1>2. ASSUME NEW w \in Writers, ApplyWrites(w)
      PROVE  IsCollection'
  <2> DEFINE k == Proposed(w).seq
             docs == DOMAIN events \cup {k}
  <2>1. events' = [x \in docs |-> IF x = k THEN Proposed(w) ELSE events[x]]
    BY <1>2 DEF ApplyWrites, With
  <2> HIDE DEF k, docs
  <2> QED
    BY <2>1 DEF IsCollection
<1> QED
  BY <1>1, <1>2, DocumentStep

\* Whatever documents verify_chain() accepts under the head append() wrote, what
\* it lists of them is the history: nothing is missing, moved, changed or added.
NothingElseVerifies ==
    \A docs : Documented(docs) /\ ChainVerifies(ListExecution(docs), head) =>
        ListExecution(docs) = ListExecution(events)

THEOREM TamperingShows == Spec => []NothingElseVerifies
<1>1. IInv => NothingElseVerifies
  BY VerifiedIsTheHistory DEF NothingElseVerifies
<1> QED
  BY <1>1, Invariance, PTL

-----------------------------------------------------------------------------
(* Damage: what no head, then or later, makes up for.                        *)

\* Every event is filed under its sequence.
Filed(docs) == DOMAIN docs \subseteq Nat /\ \A k \in DOMAIN docs : docs[k].seq = k

\* An event's digest is not its own; or one below the head is missing, or one is
\* beyond it, or one is not chained to its predecessor, or the head, which the next
\* event will be chained to, is not the last one's.
Damaged(docs, hd) ==
    \/ \E k \in DOMAIN docs : ~ Intact(docs[k])
    \/ /\ Filed(docs)
       /\ \/ \E q \in Nat : q < hd.next /\ q \notin DOMAIN docs
          \/ \E k \in DOMAIN docs : k >= hd.next
          \/ \E k \in DOMAIN docs : k + 1 \in DOMAIN docs /\ docs[k + 1].prev # docs[k].hash
          \/ \E k \in DOMAIN docs : k + 1 = hd.next /\ docs[k].hash # hd.hash

\* A head that is not there counts as the head of nothing.
HeadStands(hd) == hd \in Heads /\ (hd.exists \/ hd.next = 0)

\* The listing of documents that are filed and accepted is the documents in order.
LEMMA FiledAccepted ==
    ASSUME NEW docs, Documented(docs), Filed(docs), DOMAIN docs # {}, NEW hd,
           ChainVerifies(ListExecution(docs), hd)
    PROVE  \E n \in Nat \ {0} :
              /\ DOMAIN docs = 0 .. (n - 1)
              /\ hd.exists /\ hd.next = n /\ hd.hash = docs[n - 1].hash
              /\ \A k \in 1 .. (n - 1) : docs[k].prev = docs[k - 1].hash
<1> DEFINE s == ListExecution(docs)
           size == Cardinality(DOMAIN docs)
<1>1. s \in Seq(ExecutionEvent) /\ Len(s) = size /\ size \in Nat
  BY Listing
<1>2. PICK keys \in [1..size -> DOMAIN docs] :
         /\ \A k \in DOMAIN docs : \E i \in 1..size : keys[i] = k
         /\ s = [i \in 1..size |-> docs[keys[i]]]
  BY Listing
<1>3. VerifyEvents(s) /\ HeadMatchesTail(s, hd)
  BY DEF ChainVerifies
<1> HIDE DEF s, size
<1>4. size # 0 /\ s # << >>
  BY <1>1, <1>2
<1>5. \A i \in 1..size : s[i].seq = keys[i] /\ keys[i] \in DOMAIN docs
  BY <1>2 DEF Filed
<1>6. {s[i].seq : i \in 1..size} = DOMAIN docs
  <2>1. \A k \in DOMAIN docs : \E i \in 1..size : s[i].seq = k
    BY <1>2, <1>5
  <2> QED
    BY <1>5, <2>1
<1>7. s[size].seq \in Nat /\ DOMAIN docs = 0 .. s[size].seq
  <2>1. s[size].seq \in Nat
    BY <1>1, <1>4, <1>5 DEF Filed
  <2>2. s[1].seq .. s[size].seq = {s[i].seq : i \in 1..size} /\ s[1].seq = 0
    BY <1>1, <1>3, <1>4 DEF VerifyEvents, NoMissingSequence
  <2> QED
    BY <1>6, <2>1, <2>2
<1> DEFINE n == s[size].seq + 1
<1>8. n \in Nat \ {0} /\ DOMAIN docs = 0 .. (n - 1)
  BY <1>7
<1>9. s = [i \in 1..n |-> docs[i - 1]] /\ size = n
  <2>1. \A k \in DOMAIN docs : docs[k] \in ExecutionEvent /\ docs[k].seq = k
    BY DEF Documented, Filed
  <2> HIDE DEF n
  <2> QED
    BY <1>8, <2>1, FiledListing DEF s, size
<1> HIDE DEF n
<1>10. hd.exists /\ hd.next = n /\ hd.hash = docs[n - 1].hash
  <2>1. hd.exists /\ hd.next = s[n].seq + 1 /\ hd.hash = s[n].hash
    BY <1>1, <1>3, <1>4, <1>9 DEF HeadMatchesTail
  <2>2. n \in 1..n /\ s[n] = docs[n - 1] /\ n - 1 \in DOMAIN docs
    BY <1>8, <1>9
  <2>3. docs[n - 1].seq = n - 1 /\ (n - 1) + 1 = n
    BY <1>8, <2>2 DEF Filed
  <2> QED
    BY <2>1, <2>2, <2>3
<1>11. ASSUME NEW k \in 1 .. (n - 1)
       PROVE  docs[k].prev = docs[k - 1].hash
  <2>1. k + 1 \in 1..n /\ k + 1 # 1 /\ (k + 1) - 1 = k /\ k \in 1..n
    BY <1>8
  <2>2. s[k + 1].prev = s[k].hash
    <3>1. FollowsPredecessor(s, k + 1)
      BY <1>1, <1>3, <1>4, <1>9, <2>1 DEF VerifyEvents
    <3> QED
      BY <2>1, <3>1 DEF FollowsPredecessor
  <2>3. s[k + 1] = docs[k] /\ s[k] = docs[k - 1]
    BY <1>9, <2>1
  <2> QED
    BY <2>2, <2>3
<1> QED
  BY <1>8, <1>10, <1>11

LEMMA DamageRefused ==
    ASSUME NEW docs, Documented(docs), NEW hd, HeadStands(hd), Damaged(docs, hd)
    PROVE  ~ ChainVerifies(ListExecution(docs), hd)
<1> SUFFICES ASSUME ChainVerifies(ListExecution(docs), hd) PROVE FALSE
  OBVIOUS
<1>0. hd.next \in Nat
  BY DEF HeadStands, Heads
<1>1. ASSUME NEW k \in DOMAIN docs, ~ Intact(docs[k])
      PROVE  FALSE
  <2> DEFINE s == ListExecution(docs)
             size == Cardinality(DOMAIN docs)
  <2>1. PICK keys \in [1..size -> DOMAIN docs] :
           /\ \A j \in DOMAIN docs : \E i \in 1..size : keys[i] = j
           /\ s = [i \in 1..size |-> docs[keys[i]]]
    BY Listing
  <2>2. Len(s) = size /\ size \in Nat
    BY Listing
  <2>3. VerifyEvents(s)
    BY DEF ChainVerifies
  <2> HIDE DEF s, size
  <2>4. PICK i \in 1..size : keys[i] = k
    BY <2>1
  <2>5. s # << >> /\ s[i] = docs[k]
    BY <2>1, <2>2, <2>4
  <2> QED
    BY <1>1, <2>2, <2>3, <2>5 DEF VerifyEvents
<1>2. CASE Filed(docs) /\ DOMAIN docs = {}
  <2>1. Len(ListExecution(docs)) = 0 /\ ListExecution(docs) \in Seq(ExecutionEvent)
    BY <1>2, Listing, FS_EmptySet
  <2>2. hd.next = 0
    BY <2>1 DEF ChainVerifies, HeadMatchesTail, HeadStands
  <2> QED
    BY <1>2, <2>2 DEF Damaged
<1>3. CASE Filed(docs) /\ DOMAIN docs # {}
  <2>1. PICK n \in Nat \ {0} :
           /\ DOMAIN docs = 0 .. (n - 1)
           /\ hd.exists /\ hd.next = n /\ hd.hash = docs[n - 1].hash
           /\ \A k \in 1 .. (n - 1) : docs[k].prev = docs[k - 1].hash
    BY <1>3, FiledAccepted
  <2>2. ASSUME NEW k \in DOMAIN docs, k + 1 \in DOMAIN docs
        PROVE  docs[k + 1].prev = docs[k].hash
    <3>1. k + 1 \in 1 .. (n - 1) /\ (k + 1) - 1 = k
      BY <2>1, <2>2
    <3> QED
      BY <2>1, <3>1
  <2>3. ASSUME NEW k \in DOMAIN docs, k + 1 = hd.next
        PROVE  docs[k].hash = hd.hash
    <3>1. k = n - 1
      BY <2>1, <2>3
    <3> QED
      BY <2>1, <3>1
  <2>4. /\ \A q \in Nat : q < hd.next => q \in DOMAIN docs
        /\ \A k \in DOMAIN docs : ~ (k >= hd.next)
    BY <2>1
  <2> QED
    BY <1>1, <2>2, <2>3, <2>4 DEF Damaged
<1> QED
  BY <1>1, <1>2, <1>3 DEF Damaged

\* What a commit makes of the documents of a call, whatever they were before.
LEMMA CommitFiles ==
    ASSUME Sound, NEW w \in Writers, At(w, "commit"), CreatesSucceed(w), ApplyWrites(w)
    PROVE  LET e == Proposed(w)
               n == head.next
           IN  /\ n \in Nat /\ n \notin DOMAIN events
               /\ e \in ExecutionEvent /\ Intact(e) /\ e.seq = n /\ e.prev = head.hash
               /\ DOMAIN events' = DOMAIN events \cup {n} /\ events'[n] = e
               /\ \A k \in DOMAIN events : k # n /\ events'[k] = events[k]
               /\ e.id \in EventIds
               /\ index' = With(index, e.id, n)
               /\ head' \in Heads /\ head'.exists /\ head'.next = n + 1 /\ head'.hash = e.hash
<1> DEFINE e == Proposed(w)
           n == head.next
<1>1. /\ call[w].headSnap = head
      /\ e \in ExecutionEvent /\ Intact(e) /\ e.seq = n /\ e.prev = head.hash
  BY CommitSeesHead
<1>2. n \in Nat /\ n \notin DOMAIN events
  BY <1>1 DEF Sound, TypeOK, Heads, CreatesSucceed
<1>3. /\ events' = With(events, n, e) /\ index' = With(index, e.id, n)
      /\ head' = [exists |-> TRUE, next |-> n + 1, hash |-> e.hash]
  BY <1>1 DEF ApplyWrites
<1>4. e.hash \in Digests /\ e.id \in EventIds
  BY <1>1 DEF ExecutionEvent
<1> HIDE DEF e
<1>5. head' \in Heads /\ head'.exists /\ head'.next = n + 1 /\ head'.hash = e.hash
  BY <1>2, <1>3, <1>4 DEF Heads
<1>6. /\ DOMAIN events' = DOMAIN events \cup {n} /\ events'[n] = e
      /\ \A k \in DOMAIN events : k # n /\ events'[k] = events[k]
  BY <1>2, <1>3 DEF With
<1> QED
  BY <1>1, <1>2, <1>3, <1>4, <1>5, <1>6 DEF e

\* An append leaves the damage where it was: the events as they were read before
\* it are damaged under the head it writes, and so are those it leaves behind.
LEMMA DamageGrows ==
    ASSUME Sound, NEW w \in Writers, At(w, "commit"), CreatesSucceed(w), ApplyWrites(w),
           Damaged(events, head)
    PROVE  /\ Damaged(events', head')
           /\ \A docs : DOMAIN docs \subseteq DOMAIN events /\ Damaged(docs, head) =>
                 Damaged(docs, head')
<1> DEFINE n == head.next
           e == Proposed(w)
<1>1. /\ n \in Nat /\ n \notin DOMAIN events
      /\ e.seq = n /\ e.prev = head.hash
      /\ DOMAIN events' = DOMAIN events \cup {n} /\ events'[n] = e
      /\ \A k \in DOMAIN events : k # n /\ events'[k] = events[k]
      /\ head'.next = n + 1
  BY CommitFiles
<1> HIDE DEF e
<1>2. Damaged(events', head')
  <2>1. CASE \E k \in DOMAIN events : ~ Intact(events[k])
    <3>1. PICK k \in DOMAIN events : ~ Intact(events[k])
      BY <2>1
    <3>2. k \in DOMAIN events' /\ ~ Intact(events'[k])
      BY <1>1, <3>1
    <3> QED
      BY <3>2 DEF Damaged
  <2>2. CASE Filed(events)
    <3>1. Filed(events')
      BY <1>1, <2>2 DEF Filed
    <3>2. ASSUME NEW q \in Nat, q < n, q \notin DOMAIN events
          PROVE  q < head'.next /\ q \notin DOMAIN events'
      BY <1>1, <3>2
    <3>3. ASSUME NEW k \in DOMAIN events, k >= n
          PROVE  k \in DOMAIN events' /\ k >= head'.next
      BY <1>1, <2>2, <3>3 DEF Filed
    <3>4. ASSUME NEW k \in DOMAIN events, k + 1 \in DOMAIN events,
                 events[k + 1].prev # events[k].hash
          PROVE  k + 1 \in DOMAIN events' /\ events'[k + 1].prev # events'[k].hash
      BY <1>1, <3>4
    <3>5. ASSUME NEW k \in DOMAIN events, k + 1 = n, events[k].hash # head.hash
          PROVE  k + 1 \in DOMAIN events' /\ events'[k + 1].prev # events'[k].hash
      BY <1>1, <3>5
    <3>6. CASE \E k \in DOMAIN events : ~ Intact(events[k])
      BY <2>1, <3>6
    <3> QED
      BY <1>1, <3>1, <3>2, <3>3, <3>4, <3>5, <3>6 DEF Damaged
  <2> QED
    BY <2>1, <2>2 DEF Damaged
<1>3. ASSUME NEW docs, DOMAIN docs \subseteq DOMAIN events, Damaged(docs, head)
      PROVE  Damaged(docs, head')
  <2>1. CASE \E k \in DOMAIN docs : ~ Intact(docs[k])
    BY <2>1 DEF Damaged
  <2>2. CASE Filed(docs)
    <3>1. ASSUME NEW q \in Nat, q < n
          PROVE  q < head'.next
      BY <1>1, <3>1
    <3>2. ASSUME NEW k \in DOMAIN docs, k >= n
          PROVE  k >= head'.next
      BY <1>1, <1>3, <2>2, <3>2 DEF Filed
    <3>3. n \in Nat /\ n < head'.next /\ n \notin DOMAIN docs
      BY <1>1, <1>3
    <3> QED
      BY <1>3, <2>1, <2>2, <3>1, <3>2, <3>3 DEF Damaged
  <2> QED
    BY <1>3, <2>1, <2>2 DEF Damaged
<1> QED
  BY <1>2, <1>3

-----------------------------------------------------------------------------
(* Whatever document is changed, it is damage.                               *)

\* The history, as the edits find it.
LEMMA History ==
    ASSUME IInv, IsCollection
    PROVE  /\ head \in Heads /\ head.next \in Nat /\ head.hash \in Digests
           /\ DOMAIN events = 0 .. (head.next - 1) /\ HeadStands(head)
           /\ (head.next # 0 => head.exists /\ head.hash = events[head.next - 1].hash)
           /\ (head.next = 0 => head = AbsentHead)
           /\ \A k \in DOMAIN events :
                 /\ events[k] \in ExecutionEvent /\ events[k].seq = k /\ Intact(events[k])
                 /\ events[k].prev = IF k = 0 THEN GENESIS_HASH ELSE events[k - 1].hash
           /\ Filed(events)
           /\ \A k \in DOMAIN events : \A e : With(events, k, e) # events => e # events[k]
<1>1. /\ head \in Heads /\ head.next \in Nat /\ head.hash \in Digests
      /\ DOMAIN events = 0 .. (head.next - 1)
      /\ (head.next # 0 => head.exists /\ head.hash = events[head.next - 1].hash)
      /\ (head.next = 0 => head = AbsentHead)
  BY DEF IInv, TypeOK, Heads, ChainIntact, Contiguous, HeadCommits
<1>2. \A k \in DOMAIN events :
         /\ events[k] \in ExecutionEvent /\ events[k].seq = k /\ Intact(events[k])
         /\ events[k].prev = IF k = 0 THEN GENESIS_HASH ELSE events[k - 1].hash
  BY DEF IInv, TypeOK, ChainIntact, Linked
<1>3. ASSUME NEW k \in DOMAIN events, NEW e, e = events[k]
      PROVE  With(events, k, e) = events
  <2>1. With(events, k, e) = [x \in DOMAIN events |-> events[x]]
    BY <1>3 DEF With
  <2> QED
    BY <2>1 DEF IsCollection
<1>4. HeadStands(head) /\ Filed(events)
  BY <1>1, <1>2 DEF HeadStands, Filed
<1> QED
  BY <1>1, <1>2, <1>3, <1>4

\* An event put in the place of another, neither its own digest's nor the same.
LEMMA ReplacedDamages ==
    ASSUME IInv, IsCollection, NEW k \in DOMAIN events, NEW e \in ExecutionEvent,
           e # events[k], ~ Intact(e) \/ e.seq = k
    PROVE  Damaged(With(events, k, e), head)
<1> DEFINE docs == With(events, k, e)
<1>1. /\ DOMAIN docs = DOMAIN events /\ docs[k] = e
      /\ \A j \in DOMAIN events : j # k => docs[j] = events[j]
  BY DEF With
<1> HIDE DEF docs
<1>2. CASE ~ Intact(e)
  BY <1>1, <1>2 DEF Damaged, docs
<1>3. CASE Intact(e) /\ e.seq = k
  <2>1. e.hash # events[k].hash
    BY <1>3, History, DigestIs
  <2>2. Filed(docs)
    BY <1>1, <1>3, History DEF Filed
  <2>3. CASE k = head.next - 1
    <3>1. k + 1 = head.next /\ docs[k].hash # head.hash
      BY <1>1, <2>1, <2>3, History
    <3> QED
      BY <1>1, <2>2, <3>1 DEF Damaged, docs
  <2>4. CASE k # head.next - 1
    <3>1. k + 1 \in DOMAIN events /\ k + 1 # k /\ k + 1 # 0 /\ (k + 1) - 1 = k
      BY <2>4, History
    <3>2. docs[k + 1] = events[k + 1] /\ events[k + 1].prev = events[k].hash
      BY <1>1, <3>1, History
    <3>3. k \in DOMAIN docs /\ k + 1 \in DOMAIN docs /\ docs[k + 1].prev # docs[k].hash
      BY <1>1, <2>1, <3>1, <3>2
    <3> QED
      BY <2>2, <3>3 DEF Damaged, docs
  <2> QED
    BY <2>3, <2>4
<1> QED
  BY <1>2, <1>3

\* An event with another body or another number and the old digest.
LEMMA StaleDigest ==
    ASSUME NEW e \in ExecutionEvent, Intact(e), NEW f \in ExecutionEvent, f # e,
           f.hash = e.hash
    PROVE  ~ Intact(f)
  BY DigestIs

\* A document that was changed is still an event.
LEMMA EditedDocumented ==
    ASSUME NEW docs, Documented(docs), NEW hd \in Heads, NEW c \in EditedEvents(docs, hd)
    PROVE  Documented(c)
<1>1. ASSUME NEW k, NEW e \in ExecutionEvent, c = With(docs, k, e)
      PROVE  Documented(c)
  <2>1. DOMAIN c = DOMAIN docs \cup {k} /\ \A j \in DOMAIN c : c[j] \in ExecutionEvent
    BY <1>1 DEF Documented, With
  <2>2. IsFiniteSet(DOMAIN c)
    BY <2>1, FS_AddElement DEF Documented
  <2> QED
    BY <2>1, <2>2 DEF Documented
<1>2. CASE c \in Removed(docs)
  <2>1. PICK k \in DOMAIN docs : c = [s \in DOMAIN docs \ {k} |-> docs[s]]
    BY <1>2 DEF Removed
  <2>2. DOMAIN c = DOMAIN docs \ {k} /\ \A s \in DOMAIN c : c[s] \in ExecutionEvent
    BY <2>1 DEF Documented
  <2>3. IsFiniteSet(DOMAIN c)
    BY <2>2, FS_Subset DEF Documented
  <2> QED
    BY <2>2, <2>3 DEF Documented
<1>3. CASE c \in Edited(docs)
  <2>1. PICK k \in DOMAIN docs, b \in Bodies : c = With(docs, k, Reworded(docs[k], b))
    BY <1>3 DEF Edited
  <2>2. Reworded(docs[k], b) \in ExecutionEvent
    BY DEF Documented, ExecutionEvent, Reworded
  <2> QED
    BY <1>1, <2>1, <2>2
<1>4. CASE c \in Renumbered(docs, hd)
  <2>1. PICK k \in DOMAIN docs, q \in 0 .. hd.next : c = With(docs, k, Moved(docs[k], q))
    BY <1>4 DEF Renumbered
  <2>2. Moved(docs[k], q) \in ExecutionEvent
    BY DEF Documented, ExecutionEvent, Moved, Heads
  <2> QED
    BY <1>1, <2>1, <2>2
<1>5. CASE c \in Refinalized(docs)
  <2>1. PICK k \in DOMAIN docs, d \in EventDraft :
           c = With(docs, k, Finalize(d, docs[k].seq, docs[k].prev))
    BY <1>5 DEF Refinalized
  <2>2. docs[k].seq \in Nat /\ docs[k].prev \in Digests
    BY DEF Documented, ExecutionEvent
  <2>3. Finalize(d, docs[k].seq, docs[k].prev) \in ExecutionEvent
    BY <2>2, FinalizedEvent
  <2> QED
    BY <1>1, <2>1, <2>3
<1>6. CASE c \in Added(docs, hd)
  <2>1. PICK d \in EventDraft : c = With(docs, hd.next, Finalize(d, hd.next, hd.hash))
    BY <1>6 DEF Added
  <2>2. hd.next \in Nat /\ hd.hash \in Digests
    BY DEF Heads
  <2>3. Finalize(d, hd.next, hd.hash) \in ExecutionEvent
    BY <2>2, FinalizedEvent
  <2> QED
    BY <1>1, <2>1, <2>3
<1> QED
  BY <1>2, <1>3, <1>4, <1>5, <1>6 DEF EditedEvents

LEMMA EditedEventsAreDamaged ==
    ASSUME IInv, IsCollection, NEW docs \in EditedEvents(events, head)
    PROVE  /\ Damaged(docs, head) /\ Documented(docs) /\ DOMAIN docs \subseteq Nat
<1> DEFINE n == head.next
<1>1. DOMAIN events \subseteq Nat /\ n \in Nat
  BY History
<1>2. Documented(docs)
  BY HonestListing, History, EditedDocumented
<1>3. ASSUME NEW k \in DOMAIN events, NEW e \in ExecutionEvent, docs = With(events, k, e),
             ~ Intact(e) \/ e.seq = k \/ e = events[k]
      PROVE  Damaged(docs, head) /\ DOMAIN docs \subseteq Nat
  <2>1. docs # events /\ e # events[k]
    BY <1>3, History DEF EditedEvents
  <2>2. Damaged(docs, head)
    BY <1>3, <2>1, ReplacedDamages
  <2>3. DOMAIN docs = DOMAIN events
    BY <1>3 DEF With
  <2> QED
    BY <1>1, <2>2, <2>3
<1>4. CASE docs \in Removed(events)
  <2>1. PICK k \in DOMAIN events : docs = [s \in DOMAIN events \ {k} |-> events[s]]
    BY <1>4 DEF Removed
  <2>2. DOMAIN docs = DOMAIN events \ {k} /\ \A s \in DOMAIN docs : docs[s] = events[s]
    BY <2>1
  <2>3. Filed(docs) /\ k \in Nat /\ k < n /\ k \notin DOMAIN docs
    BY <2>2, History DEF Filed
  <2> QED
    BY <1>1, <1>2, <2>2, <2>3 DEF Damaged
<1>5. CASE docs \in Edited(events)
  <2>1. PICK k \in DOMAIN events, b \in Bodies : docs = With(events, k, Reworded(events[k], b))
    BY <1>5 DEF Edited
  <2>2. events[k] \in ExecutionEvent /\ Intact(events[k])
    BY History
  <2>3. Reworded(events[k], b) \in ExecutionEvent /\ Reworded(events[k], b).hash = events[k].hash
    BY <2>2 DEF ExecutionEvent, Reworded
  <2> QED
    BY <1>2, <1>3, <2>1, <2>2, <2>3, StaleDigest
<1>6. CASE docs \in Renumbered(events, head)
  <2>1. PICK k \in DOMAIN events, q \in 0 .. n : docs = With(events, k, Moved(events[k], q))
    BY <1>6 DEF Renumbered
  <2>2. events[k] \in ExecutionEvent /\ Intact(events[k]) /\ q \in Nat
    BY <1>1, History
  <2>3. Moved(events[k], q) \in ExecutionEvent /\ Moved(events[k], q).hash = events[k].hash
    BY <2>2 DEF ExecutionEvent, Moved
  <2> QED
    BY <1>2, <1>3, <2>1, <2>2, <2>3, StaleDigest
<1>7. CASE docs \in Refinalized(events)
  <2>1. PICK k \in DOMAIN events, d \in EventDraft :
           docs = With(events, k, Finalize(d, events[k].seq, events[k].prev))
    BY <1>7 DEF Refinalized
  <2>2. events[k].seq = k /\ events[k].seq \in Nat /\ events[k].prev \in Digests
    BY History DEF ExecutionEvent
  <2>3. /\ Finalize(d, events[k].seq, events[k].prev) \in ExecutionEvent
        /\ Finalize(d, events[k].seq, events[k].prev).seq = k
    BY <2>2, FinalizedEvent
  <2> QED
    BY <1>2, <1>3, <2>1, <2>3
<1>8. CASE docs \in Added(events, head)
  <2>1. PICK d \in EventDraft : docs = With(events, n, Finalize(d, n, head.hash))
    BY <1>8 DEF Added
  <2> DEFINE e == Finalize(d, n, head.hash)
  <2>2. e.seq = n
    BY History, FinalizedEvent
  <2> HIDE DEF e
  <2>3. /\ DOMAIN docs = DOMAIN events \cup {n} /\ n \notin DOMAIN events /\ docs[n] = e
        /\ \A k \in DOMAIN events : docs[k] = events[k]
    BY <2>1, History DEF With, e
  <2>4. Filed(docs) /\ n \in DOMAIN docs /\ n >= n
    BY <1>1, <2>2, <2>3, History DEF Filed
  <2> QED
    BY <1>2, <2>4 DEF Damaged, Filed
<1> QED
  BY <1>4, <1>5, <1>6, <1>7, <1>8 DEF EditedEvents

LEMMA EditedHeadsAreDamage ==
    ASSUME IInv, IsCollection, NEW hd \in EditedHeads
    PROVE  Damaged(events, hd) /\ HeadStands(hd)
<1> DEFINE n == head.next
<1>1. n \in Nat /\ DOMAIN events = 0 .. (n - 1) /\ Filed(events) /\ head \in Heads
  BY History
<1>2. CASE hd = AbsentHead
  <2>1. n # 0 /\ hd.next = 0
    BY <1>2, History DEF EditedHeads, AbsentHead
  <2>2. 0 \in DOMAIN events /\ 0 >= hd.next
    BY <1>1, <2>1
  <2>3. HeadStands(hd)
    BY <1>2, EmptyDigest DEF HeadStands, AbsentHead, Heads
  <2> QED
    BY <1>1, <2>2, <2>3 DEF Damaged
<1>3. ASSUME NEW m \in 0 .. n + 1, hd = [head EXCEPT !.exists = TRUE, !.next = m]
      PROVE  Damaged(events, hd) /\ HeadStands(hd)
  <2>0. m \in Nat
    BY <1>1, <1>3
  <2>1. hd.next = m /\ hd.hash = head.hash /\ HeadStands(hd) /\ m \in Nat
    <3>1. hd \in Heads /\ hd.next = m /\ hd.hash = head.hash /\ hd.exists
      BY <1>1, <1>3, <2>0 DEF Heads
    <3> QED
      BY <2>0, <3>1 DEF HeadStands
  <2>2. m # n
    BY <2>1 DEF EditedHeads
  <2>3. CASE m < n
    <3>1. m \in DOMAIN events /\ m >= hd.next
      BY <1>1, <2>1, <2>3
    <3> QED
      BY <1>1, <2>1, <3>1 DEF Damaged
  <2>4. CASE m > n
    <3>1. n \in Nat /\ n < hd.next /\ n \notin DOMAIN events
      BY <1>1, <2>1, <2>4
    <3> QED
      BY <1>1, <2>1, <3>1 DEF Damaged
  <2> QED
    BY <1>1, <2>1, <2>2, <2>3, <2>4
<1>4. ASSUME NEW s \in DOMAIN events, hd = [head EXCEPT !.exists = TRUE, !.hash = events[s].hash]
      PROVE  Damaged(events, hd) /\ HeadStands(hd)
  <2>1. events[s].hash \in Digests
    BY History DEF ExecutionEvent
  <2>2. hd.next = n /\ hd.hash = events[s].hash /\ HeadStands(hd)
    BY <1>1, <1>4, <2>1 DEF Heads, HeadStands
  <2>3. hd.hash # head.hash
    BY <2>2 DEF EditedHeads
  <2>4. n - 1 \in DOMAIN events /\ (n - 1) + 1 = hd.next /\ n # 0
    BY <1>1, <2>2
  <2>5. events[n - 1].hash # hd.hash
    BY <2>3, <2>4, History
  <2> QED
    BY <1>1, <2>2, <2>4, <2>5 DEF Damaged
<1> QED
  BY <1>2, <1>3, <1>4 DEF EditedHeads
-----------------------------------------------------------------------------
(* What every step of append() keeps, of documents somebody changed, too.    *)

LEMMA SoundCall ==
    ASSUME Sound, NEW w \in Writers, UNCHANGED Documents,
           NEW c \in Call, call' = [call EXCEPT ![w] = c], acked' \subseteq ExecutionEvent,
           c.pc # "idle" => c.draft \in EventDraft,
           c.pc = "return" => c.result \in ExecutionEvent,
           c.pc = "commit" => c.headSnap = head
    PROVE  Sound'
<1>1. events' = events /\ index' = index /\ head' = head
  BY DEF Documents
<1>2. call \in [Writers -> Call]
  BY DEF Sound, TypeOK
<1>3. call'[w] = c /\ \A v \in Writers : v # w => call'[v] = call[v]
  BY <1>2
<1>4. TypeOK'
  BY <1>1, <1>2 DEF Sound, TypeOK
<1>5. Carries'
  BY <1>3 DEF Sound, Carries, At
<1>6. SnapshotIsPast'
  BY <1>1, <1>3 DEF Sound, SnapshotIsPast, At
<1> QED
  BY <1>4, <1>5, <1>6 DEF Sound

LEMMA SoundApplied ==
    ASSUME Sound, NEW w \in Writers, At(w, "commit"), CreatesSucceed(w), ApplyWrites(w),
           UNCHANGED acked,
           \/ call' = [call EXCEPT ![w] = IdleCall]
           \/ call' = [call EXCEPT ![w].pc = "return", ![w].result = Proposed(w)]
    PROVE  Sound'
<1> DEFINE e == Proposed(w)
           n == head.next
<1>1. /\ call[w] \in Call /\ call \in [Writers -> Call] /\ call[w].draft \in EventDraft
  BY CommitSeesHead DEF Sound, TypeOK
<1>2. /\ n \in Nat /\ e \in ExecutionEvent /\ e.id \in EventIds
      /\ DOMAIN events' = DOMAIN events \cup {n} /\ events'[n] = e
      /\ \A k \in DOMAIN events : k # n /\ events'[k] = events[k]
      /\ index' = With(index, e.id, n) /\ head' \in Heads
  BY CommitFiles
<1> HIDE DEF e
<1>3. \/ call'[w] = IdleCall
      \/ /\ call'[w] \in Call /\ call'[w].pc = "return" /\ call'[w].result = e
         /\ call'[w].draft = call[w].draft
  BY <1>1, <1>2 DEF Call, e
<1>4. /\ call' \in [Writers -> Call]
      /\ \A v \in Writers : v # w => call'[v] = call[v]
  BY <1>1, <1>3, IdleIsCall
<1>5. /\ DOMAIN index' \subseteq EventIds
      /\ \A id \in DOMAIN index' : index'[id] \in Nat
  BY <1>2 DEF With, Sound, TypeOK
<1>6. TypeOK'
  BY <1>2, <1>4, <1>5 DEF Sound, TypeOK
<1>7. Carries'
  BY <1>1, <1>2, <1>3, <1>4, IdleIsCall DEF Sound, Carries, At
<1>8. SnapshotIsPast'
  <2> SUFFICES ASSUME NEW v \in Writers, call'[v].pc = "commit"
               PROVE  call'[v].headSnap = head' \/ call'[v].headSnap.next \in DOMAIN events'
    BY DEF SnapshotIsPast, At
  <2>1. v # w /\ call'[v] = call[v]
    BY <1>3, <1>4, IdleIsCall
  <2>2. call[v].headSnap = head \/ call[v].headSnap.next \in DOMAIN events
    BY <2>1 DEF Sound, SnapshotIsPast, At
  <2> QED
    BY <1>2, <2>1, <2>2
<1> QED
  BY <1>6, <1>7, <1>8 DEF Sound

LEMMA SoundStep == ASSUME Sound, [Next]_vars PROVE Sound'
<1>1. CASE UNCHANGED vars
  BY <1>1 DEF vars, Sound, TypeOK, Carries, SnapshotIsPast, At
<1>2. ASSUME NEW w \in Writers, Record(w) \/ Step(w) \/ Fail(w) PROVE Sound'
  <2>1. /\ call[w] \in Call /\ call \in [Writers -> Call] /\ head \in Heads
        /\ acked \subseteq ExecutionEvent
        /\ \A s \in DOMAIN events : events[s] \in ExecutionEvent
        /\ \A id \in DOMAIN index : index[id] \in Nat
        /\ (call[w].pc # "idle" => call[w].draft \in EventDraft)
        /\ (call[w].pc = "return" => call[w].result \in ExecutionEvent)
    BY DEF Sound, TypeOK, Carries, At
  <2>2. ASSUME UNCHANGED Documents, acked' \subseteq ExecutionEvent,
               call' = [call EXCEPT ![w] = IdleCall]
        PROVE  Sound'
    BY <2>2, SoundCall, IdleIsCall
  <2>3. CASE Record(w)
    <3>1. PICK d \in Drafts :
            call' = [call EXCEPT ![w] = [IdleCall EXCEPT !.pc = "readIndex", !.draft = d,
                                           !.attempts = 1, !.runs = 1, !.base = head.next]]
      BY <2>3 DEF Record
    <3> DEFINE c == [IdleCall EXCEPT !.pc = "readIndex", !.draft = d,
                                     !.attempts = 1, !.runs = 1, !.base = head.next]
    <3>2. d \in EventDraft /\ head.next \in Nat
      BY <2>1, DraftsAssumption DEF Heads
    <3>3. c \in Call /\ c.pc = "readIndex" /\ c.draft = d
      BY <3>2, IdleIsCall DEF Call, IdleCall
    <3>4. call' = [call EXCEPT ![w] = c] /\ UNCHANGED Documents /\ acked' = acked
      BY <2>3, <3>1 DEF Record
    <3> HIDE DEF c
    <3> QED
      BY <2>1, <3>2, <3>3, <3>4, SoundCall
  <2>4. CASE ReadIndex(w)
    <3> DEFINE id == call[w].draft.id
               snap == IF id \in DOMAIN index THEN [exists |-> TRUE, seq |-> index[id]]
                                              ELSE NoIndex
               c == [call[w] EXCEPT !.pc = "readHead", !.idSnap = snap]
    <3>1. call[w].pc = "readIndex"
      BY <2>4 DEF ReadIndex, At
    <3>2. snap \in [exists : BOOLEAN, seq : Nat]
      BY <2>1 DEF NoIndex
    <3>3. call' = [call EXCEPT ![w] = c] /\ UNCHANGED Documents /\ acked' = acked
      BY <2>1, <2>4 DEF ReadIndex
    <3> HIDE DEF snap
    <3>4. c \in Call /\ c.pc = "readHead" /\ c.draft = call[w].draft
      BY <2>1, <3>2 DEF Call
    <3> HIDE DEF c
    <3> QED
      BY <2>1, <3>1, <3>3, <3>4, SoundCall
  <2>5. CASE ReadHead(w)
    <3> DEFINE pc == IF call[w].idSnap.exists THEN "readStored" ELSE "commit"
               c == [call[w] EXCEPT !.headSnap = head, !.pc = pc]
    <3>1. call[w].pc = "readHead"
      BY <2>5 DEF ReadHead, At
    <3>2. call' = [call EXCEPT ![w] = c] /\ UNCHANGED Documents /\ acked' = acked
      BY <2>1, <2>5 DEF ReadHead
    <3>3. c \in Call /\ c.pc = pc /\ c.headSnap = head /\ c.draft = call[w].draft
      BY <2>1 DEF Call
    <3> HIDE DEF c
    <3> QED
      BY <2>1, <3>1, <3>2, <3>3, SoundCall
  <2>6. CASE ReadStored(w)
    <3> DEFINE s == call[w].idSnap.seq
               c == [call[w] EXCEPT !.pc = "return", !.result = events[s]]
    <3>1. call[w].pc = "readStored" /\ UNCHANGED Documents /\ acked' = acked
      BY <2>6 DEF ReadStored, At
    <3>2. CASE s \notin DOMAIN events
      BY <2>1, <2>2, <2>6, <3>1, <3>2 DEF ReadStored
    <3>3. CASE s \in DOMAIN events
      <4>1. call' = [call EXCEPT ![w] = c]
        BY <2>1, <2>6, <3>3 DEF ReadStored
      <4>2. c \in Call /\ c.pc = "return" /\ c.result = events[s] /\ c.draft = call[w].draft
        BY <2>1, <3>3 DEF Call
      <4> HIDE DEF c
      <4> QED
        BY <2>1, <3>1, <3>3, <4>1, <4>2, SoundCall
    <3> QED
      BY <3>2, <3>3
  <2>7. CASE Commit(w)
    BY <2>7, SoundApplied DEF Commit
  <2>8. CASE CommitLostAck(w)
    BY <2>8, SoundApplied DEF CommitLostAck
  <2>9. CASE Conflict(w)
    <3> DEFINE n == call[w].attempts + 1
               c == [call[w] EXCEPT !.pc = "readIndex", !.attempts = n, !.runs = 1]
    <3>1. call[w].pc = "commit" /\ UNCHANGED Documents /\ acked' = acked
      BY <2>9 DEF Conflict, At
    <3>2. CASE call[w].attempts < MAX_APPEND_ATTEMPTS
      <4>1. call' = [call EXCEPT ![w] = c]
        BY <2>1, <2>9, <3>2 DEF Conflict
      <4>2. n \in Nat
        BY <2>1 DEF Call
      <4> HIDE DEF n
      <4>3. c \in Call /\ c.pc = "readIndex" /\ c.draft = call[w].draft
        BY <2>1, <4>2 DEF Call
      <4> HIDE DEF c
      <4> QED
        BY <2>1, <3>1, <4>1, <4>3, SoundCall
    <3>3. CASE ~ (call[w].attempts < MAX_APPEND_ATTEMPTS)
      BY <2>1, <2>2, <2>9, <3>1, <3>3 DEF Conflict
    <3> QED
      BY <3>2, <3>3
  <2>10. CASE Abort(w)
    <3> DEFINE n == call[w].runs + 1
               c == [call[w] EXCEPT !.pc = "readIndex", !.runs = n]
    <3>1. call[w].pc = "commit" /\ UNCHANGED Documents /\ acked' = acked
      BY <2>10 DEF Abort, At
    <3>2. CASE call[w].runs < MaxTransactionRuns
      <4>1. call' = [call EXCEPT ![w] = c]
        BY <2>1, <2>10, <3>2 DEF Abort
      <4>2. n \in Nat
        BY <2>1 DEF Call
      <4> HIDE DEF n
      <4>3. c \in Call /\ c.pc = "readIndex" /\ c.draft = call[w].draft
        BY <2>1, <4>2 DEF Call
      <4> HIDE DEF c
      <4> QED
        BY <2>1, <3>1, <4>1, <4>3, SoundCall
    <3>3. CASE ~ (call[w].runs < MaxTransactionRuns)
      BY <2>1, <2>2, <2>10, <3>1, <3>3 DEF Abort
    <3> QED
      BY <3>2, <3>3
  <2>11. CASE Return(w)
    <3>1. /\ call[w].pc = "return" /\ UNCHANGED Documents
          /\ acked' = acked \cup {call[w].result}
          /\ call' = [call EXCEPT ![w] = IdleCall]
      BY <2>11 DEF Return, At
    <3> QED
      BY <2>1, <2>2, <3>1
  <2>12. CASE Fail(w)
    BY <2>1, <2>2, <2>12 DEF Fail
  <2> QED
    BY <1>2, <2>3, <2>4, <2>5, <2>6, <2>7, <2>8, <2>9, <2>10, <2>11, <2>12 DEF Step
<1> QED
  BY <1>1, <1>2 DEF Next
-----------------------------------------------------------------------------
(* The invariant of the audit.  Of documents nobody changed it knows all     *)
(* that is known of them, and of a listing that it is a beginning of them; of *)
(* changed ones, that the damage is still there and shows in the listing.     *)

Untouched ==
    ~ edited => /\ IInv /\ IsCollection /\ audit.late = FALSE
                /\ audit.at = "listed" => \E n : Earlier(audit.events, n)

Touched ==
    edited => /\ Sound /\ HeadStands(head) /\ Documented(events) /\ Damaged(events, head)
              /\ audit.at = "listed" /\ audit.late =>
                    /\ Documented(audit.events) /\ Damaged(audit.events, head)
                    /\ DOMAIN audit.events \subseteq DOMAIN events

AInv == edited \in BOOLEAN /\ Untouched /\ Touched

LEMMA InitAInv == AuditInit => AInv
<1> SUFFICES ASSUME AuditInit PROVE AInv
  OBVIOUS
<1>1. Init /\ audit = NoAudit /\ edited = FALSE
  BY DEF AuditInit
<1>2. IInv /\ IsCollection
  BY <1>1, InitIInv DEF Init, IsCollection
<1> QED
  BY <1>1, <1>2 DEF AInv, Untouched, Touched, NoAudit

LEMMA AppendAInv == ASSUME AInv, [Next]_vars, UNCHANGED <<audit, edited>> PROVE AInv'
<1>1. ASSUME ~ edited
      PROVE  /\ IInv' /\ IsCollection'
             /\ \A docs, n : Earlier(docs, n) => Earlier(docs, n)'
  <2>1. IInv /\ IsCollection
    BY <1>1 DEF AInv, Untouched
  <2>2. IInv' /\ IsCollection'
    BY <2>1, NextIInv, CollectionKept
  <2>3. /\ head.next \in Nat /\ head'.next \in Nat /\ head.next <= head'.next
        /\ \A k \in DOMAIN events : events'[k] = events[k]
    <3>1. CASE UNCHANGED Documents
      BY <2>1, <3>1 DEF Documents, IInv, TypeOK, Heads
    <3>2. CASE \E w \in Writers : /\ At(w, "commit") /\ CreatesSucceed(w) /\ ApplyWrites(w)
                                  /\ UNCHANGED acked
      <4>1. head.next \in Nat
        BY <2>1 DEF IInv, TypeOK, Heads
      <4>2. head'.next = head.next + 1 /\ \A k \in DOMAIN events : events'[k] = events[k]
        BY <2>1, <3>2, WritesExtend
      <4> QED
        BY <4>1, <4>2
    <3> QED
      BY <3>1, <3>2, DocumentStep
  <2>4. DOMAIN events = 0 .. (head.next - 1)
    BY <2>1 DEF IInv, ChainIntact, Contiguous
  <2>5. ASSUME NEW docs, NEW n, Earlier(docs, n)
        PROVE  Earlier(docs, n)'
    <3>1. /\ n \in 0 .. head.next /\ DOMAIN docs = 0 .. (n - 1)
          /\ \A k \in DOMAIN docs : docs[k] = events[k]
      BY <2>5 DEF Earlier
    <3>2. n \in 0 .. head'.next /\ \A k \in DOMAIN docs : k \in DOMAIN events
      BY <2>3, <2>4, <3>1
    <3> QED
      BY <2>3, <3>1, <3>2 DEF Earlier
  <2> QED
    BY <2>2, <2>5
<1>2. ASSUME edited
      PROVE  /\ Sound' /\ HeadStands(head') /\ Documented(events') /\ Damaged(events', head')
             /\ DOMAIN events \subseteq DOMAIN events'
             /\ \A docs : DOMAIN docs \subseteq DOMAIN events /\ Damaged(docs, head) =>
                   Damaged(docs, head')
  <2>1. Sound /\ HeadStands(head) /\ Documented(events) /\ Damaged(events, head)
    BY <1>2 DEF AInv, Touched
  <2>2. Sound'
    BY <2>1, SoundStep
  <2>3. CASE UNCHANGED Documents
    BY <2>1, <2>2, <2>3 DEF Documents
  <2>4. ASSUME NEW w \in Writers, At(w, "commit"), CreatesSucceed(w), ApplyWrites(w)
        PROVE  /\ HeadStands(head') /\ Documented(events') /\ Damaged(events', head')
               /\ DOMAIN events \subseteq DOMAIN events'
               /\ \A docs : DOMAIN docs \subseteq DOMAIN events /\ Damaged(docs, head) =>
                     Damaged(docs, head')
    <3>1. /\ DOMAIN events' = DOMAIN events \cup {head.next}
          /\ \A k \in DOMAIN events' : events'[k] \in ExecutionEvent
          /\ head' \in Heads /\ head'.exists
      BY <2>1, <2>2, <2>4, CommitFiles DEF Sound, TypeOK
    <3>2. IsFiniteSet(DOMAIN events')
      BY <2>1, <3>1, FS_AddElement DEF Documented
    <3>3. HeadStands(head') /\ Documented(events')
      BY <3>1, <3>2 DEF HeadStands, Documented
    <3> QED
      BY <2>1, <2>4, <3>1, <3>3, DamageGrows
  <2> QED
    BY <2>2, <2>3, <2>4, DocumentStep
<1>3. Untouched'
  BY <1>1 DEF AInv, Untouched
<1>4. Touched'
  BY <1>2 DEF AInv, Touched
<1> QED
  BY <1>3, <1>4 DEF AInv

(* The auditor's steps move neither the documents nor the writers.           *)
LEMMA AuditAInv == ASSUME AInv, AuditEvents \/ AuditHead PROVE AInv'
<1>1. /\ UNCHANGED vars /\ edited' = edited
      /\ \/ audit' = [at |-> "listed", events |-> events, late |-> edited]
         \/ audit' = [at |-> "idle", events |-> << >>, late |-> FALSE]
  BY DEF AuditEvents, AuditHead, NoAudit
<1>2. CASE ~ edited
  <2>1. IInv' /\ IsCollection'
    BY <1>1, <1>2, NextIInv, CollectionKept DEF AInv, Untouched
  <2>2. Earlier(events, head.next)'
    BY <2>1 DEF Earlier, IInv, TypeOK, Heads, ChainIntact, Contiguous
  <2>3. audit'.late = FALSE /\ (audit'.at = "listed" => audit'.events = events')
    BY <1>1, <1>2 DEF AInv, vars
  <2>4. audit'.at = "listed" => Earlier(audit.events, head.next)'
    BY <2>2, <2>3 DEF Earlier
  <2> QED
    BY <1>1, <1>2, <2>1, <2>3, <2>4 DEF AInv, Untouched, Touched
<1>3. CASE edited
  <2>1. Sound'
    BY <1>1, <1>3, SoundStep DEF AInv, Touched
  <2>2. HeadStands(head') /\ Documented(events') /\ Damaged(events', head')
    BY <1>1, <1>3 DEF AInv, Touched, vars
  <2>3. audit'.at = "listed" => audit'.events = events'
    BY <1>1 DEF vars
  <2> QED
    BY <1>1, <1>3, <2>1, <2>2, <2>3 DEF AInv, Untouched, Touched
<1> QED
  BY <1>2, <1>3

LEMMA EditAInv == ASSUME AInv, Edit PROVE AInv'
<1>1. /\ edited = FALSE /\ edited' = TRUE
      /\ IInv /\ IsCollection /\ audit.late = FALSE
      /\ index' = index /\ call' = call /\ acked' = acked /\ audit' = audit
      /\ \A w \in Writers : call[w].pc = "idle"
  BY DEF Edit, AInv, Untouched, At
<1>2. \/ events' \in EditedEvents(events, head) /\ head' = head
      \/ head' \in EditedHeads /\ events' = events
  BY DEF Edit
<1>3. /\ Damaged(events', head') /\ Documented(events') /\ DOMAIN events' \subseteq Nat
      /\ HeadStands(head')
  <2>1. CASE events' \in EditedEvents(events, head) /\ head' = head
    <3>1. HeadStands(head)
      BY <1>1, History
    <3> QED
      BY <1>1, <2>1, <3>1, EditedEventsAreDamaged
  <2>2. CASE head' \in EditedHeads /\ events' = events
    <3>1. Documented(events) /\ DOMAIN events \subseteq Nat
      BY <1>1, HonestListing DEF IInv, TypeOK
    <3> QED
      BY <1>1, <2>2, <3>1, EditedHeadsAreDamage
  <2> QED
    BY <1>2, <2>1, <2>2
<1>4. Sound'
  <2>1. TypeOK'
    BY <1>1, <1>3 DEF IInv, TypeOK, Documented, HeadStands
  <2>2. Carries' /\ SnapshotIsPast'
    BY <1>1 DEF Carries, SnapshotIsPast, At
  <2> QED
    BY <2>1, <2>2 DEF Sound
<1> QED
  BY <1>1, <1>3, <1>4 DEF AInv, Untouched, Touched

LEMMA AuditInvariance == TamperSpec => []AInv
<1>1. AInv /\ [AuditNext \/ Edit]_auditVars => AInv'
  <2> SUFFICES ASSUME AInv, [AuditNext \/ Edit]_auditVars PROVE AInv'
    OBVIOUS
  <2>1. CASE [Next]_vars /\ UNCHANGED <<audit, edited>>
    BY <2>1, AppendAInv
  <2>2. CASE AuditEvents \/ AuditHead
    BY <2>2, AuditAInv
  <2>3. CASE Edit
    BY <2>3, EditAInv
  <2> QED
    BY <2>1, <2>2, <2>3 DEF AuditNext, auditVars
<1> QED
  BY <1>1, InitAInv, PTL DEF TamperSpec

(* Nobody has to change a document.                                          *)
LEMMA EditsNeedNotHappen == AuditSpec => TamperSpec
<1>1. [AuditNext]_auditVars => [AuditNext \/ Edit]_auditVars
  OBVIOUS
<1> QED
  BY <1>1, PTL DEF AuditSpec, TamperSpec

(* Until somebody changes a document: whatever is appended while              *)
(* verify_chain() reads, it finds no fault with the events, refuses them only *)
(* when an append committed between its two reads, and accepts nothing else   *)
(* that one changed document would make of them.                              *)
THEOREM VerificationIsExact == (AuditSpec \/ TamperSpec) => []VerifyChainExact
<1>1. AInv => VerifyChainExact
  <2> SUFFICES ASSUME AInv, audit.at = "listed", ~ edited
               PROVE  VerifyChainExact
    BY DEF VerifyChainExact, RefusalsAreRaces, NothingElseAccepted
  <2> DEFINE s == ListExecution(audit.events)
  <2>1. IInv
    BY DEF AInv, Untouched
  <2>2. PICK n : Earlier(audit.events, n)
    BY DEF AInv, Untouched
  <2>3. Len(s) = n /\ VerifyEvents(s) /\ (HeadMatchesTail(s, head) <=> n = head.next)
    BY <2>1, <2>2, EarlierVerifies
  <2>4. n \in Nat /\ n <= head.next /\ head \in Heads
    BY <2>1, <2>2 DEF Earlier, IInv, TypeOK, Heads
  <2>5. RefusalsAreRaces
    <3> HIDE DEF s
    <3>1. VerifyEvents(s) /\ Len(s) <= head.next /\ (ChainVerifies(s, head) <=> Len(s) = head.next)
      BY <2>3, <2>4 DEF ChainVerifies
    <3> QED
      BY <3>1 DEF RefusalsAreRaces, Answer, s
  <2>6. Documented(audit.events)
    <3>1. /\ DOMAIN audit.events = 0 .. (n - 1) /\ DOMAIN events = 0 .. (head.next - 1)
          /\ \A k \in DOMAIN audit.events : audit.events[k] = events[k]
          /\ \A k \in DOMAIN events : events[k] \in ExecutionEvent /\ events[k].seq = k
      BY <2>1, <2>2 DEF Earlier, IInv, TypeOK, ChainIntact, Contiguous, Linked
    <3>2. \A k \in DOMAIN audit.events :
             audit.events[k] \in ExecutionEvent /\ audit.events[k].seq = k
      BY <2>1, <2>4, <3>1 DEF IInv, TypeOK, Heads
    <3> QED
      BY <2>4, <3>1, <3>2, FiledListing
  <2>7. NothingElseAccepted
    BY <2>1, <2>4, <2>6, EditedDocumented, VerifiedIsTheHistory DEF NothingElseAccepted
  <2> QED
    BY <2>5, <2>7 DEF VerifyChainExact
<1> QED
  BY <1>1, EditsNeedNotHappen, AuditInvariance, PTL

(* Whichever document is deleted, edited, renumbered or added, and whatever   *)
(* append() writes after it, no verify_chain() begun after that accepts.      *)
THEOREM DamageIsNeverAccepted == TamperSpec => []DamageStaysVisible
<1>1. AInv => DamageStaysVisible
  <2> SUFFICES ASSUME AInv, audit.at = "listed", audit.late
               PROVE  ~ ChainVerifies(ListExecution(audit.events), head)
    BY DEF DamageStaysVisible, Answer
  <2>1. /\ Documented(audit.events) /\ Damaged(audit.events, head) /\ HeadStands(head)
    BY DEF AInv, Untouched, Touched
  <2> QED
    BY <2>1, DamageRefused
<1> QED
  BY <1>1, AuditInvariance, PTL
=============================================================================
