--------------------------- MODULE JournalFanout ----------------------------
(***************************************************************************)
(* FanoutJournalSink (src/proofos/journal.py): the events of one execution are *)
(* appended to a primary, which alone places them, and the placed event is then *)
(* stored in each replica in turn.  Several processes append at once, each with *)
(* a fan-out of its own over the shared primary and the shared durable replica; *)
(* the stream a process prints to remembers what it stored for as long as the   *)
(* process lives.  Any step may fail, and an append may be tried again under    *)
(* its event id, with a draft made afresh.                                      *)
(*                                                                         *)
(* The primary is the log FirestoreJournal is shown to implement.  Of Firestore *)
(* the durable replica uses atomic commits, and creates that an existing        *)
(* document refuses; its reads are not assumed to be a snapshot.                *)
(***************************************************************************)
EXTENDS Naturals, Sequences, FiniteSets

CONSTANTS Processes,
          EventIds, Bodies,
          Replicas,      \* the kinds of the replicas, in the order they are stored in
          MaxAppends,    \* bound on the calls of append()
          MaxCrashes     \* bound on the processes that die

ASSUME FanoutAssumption ==
    /\ Replicas \in Seq({"durable", "stream"})
    /\ MaxAppends \in Nat /\ MaxCrashes \in Nat

VARIABLES log,         \* the primary's chain: event n is the n-th entry
          documents,   \* durable replica: sequence -> event
          index,       \* durable replica: event id -> sequence
          memory,      \* per process, the events its stream replica remembers
          lines,       \* the <<process, event>> pairs printed to the stream
          call,        \* per process, the append() it is executing
          acked,       \* the <<process, event>> pairs append() returned
          told,        \* those for which it raised after the primary had placed the event
          conflicts,   \* the events a replica refused as conflicting
          appends, crashes

vars == <<log, documents, index, memory, lines, call, acked, told, conflicts, appends, crashes>>
replica == <<documents, index>>
answers == <<acked, told, conflicts>>
bounds == <<appends, crashes>>

Draft == [id : EventIds, body : Bodies]
Nothing == [seq |-> 0]
Finalize(draft, n) == [seq |-> n, id |-> draft.id, body |-> draft.body]
Event(n) == Finalize(log[n], n)

\* A call: where it is, its draft, its event once placed, the replica it is at and
\* what it has read there.
Idle == [at |-> "idle", draft |-> Nothing, event |-> Nothing, replica |-> 0, found |-> Nothing]

Init ==
    /\ log = << >> /\ documents = << >> /\ index = << >> /\ lines = {}
    /\ memory = [p \in Processes |-> {}] /\ call = [p \in Processes |-> Idle]
    /\ acked = {} /\ told = {} /\ conflicts = {}
    /\ appends = 0 /\ crashes = 0

At(p, place) == call[p].at = place
Becomes(p, state) == call' = [call EXCEPT ![p] = state]
Goes(p, place) == Becomes(p, [call[p] EXCEPT !.at = place])
Mine(p) == <<p, call[p].event>>
StoredEvent(n) == IF n \in DOMAIN documents THEN documents[n] ELSE Nothing
StoredIndex(id) == IF id \in DOMAIN index THEN index[id] ELSE 0

-----------------------------------------------------------------------------
(* The primary.                                                            *)

Record(p, draft) ==
    /\ At(p, "idle") /\ appends < MaxAppends /\ appends' = appends + 1
    /\ Becomes(p, [Idle EXCEPT !.at = "primary", !.draft = draft])
    /\ UNCHANGED <<log, replica, memory, lines, answers, crashes>>

Placed(n, draft) == n \in DOMAIN log /\ log[n].id = draft.id

\* The replica after this one, or the answer when there is none.
Proceeds(p, state) ==
    IF state.replica < Len(Replicas)
    THEN /\ Becomes(p, [state EXCEPT !.at = Replicas[state.replica + 1], !.replica = @ + 1,
                                     !.found = Nothing])
         /\ UNCHANGED answers
    ELSE /\ Becomes(p, Idle) /\ acked' = acked \cup {<<p, state.event>>}
         /\ UNCHANGED <<told, conflicts>>

\* An id the primary has seen is answered with the event it was given then.
PrimaryAnswers(p) ==
    /\ At(p, "primary")
    /\ \E n \in DOMAIN log : Placed(n, call[p].draft)
                          /\ Proceeds(p, [call[p] EXCEPT !.event = Event(n)])
    /\ UNCHANGED <<log, replica, memory, lines, bounds>>

PrimaryPlaces(p) ==
    /\ At(p, "primary") /\ ~ \E n \in DOMAIN log : Placed(n, call[p].draft)
    /\ log' = Append(log, call[p].draft)
    /\ LET event == Finalize(call[p].draft, Len(log) + 1)
       IN  \/ Proceeds(p, [call[p] EXCEPT !.event = event])
           \/ /\ Becomes(p, Idle)                \* placed, and not answered
              /\ told' = told \cup {<<p, event>>} /\ UNCHANGED <<acked, conflicts>>
    /\ UNCHANGED <<replica, memory, lines, bounds>>

PrimaryFails(p) ==
    /\ At(p, "primary") /\ Becomes(p, Idle)
    /\ UNCHANGED <<log, replica, memory, lines, answers, bounds>>

-----------------------------------------------------------------------------
(* The replicas.  What one of them raises ends the append; those after it are   *)
(* not stored in.                                                          *)

\* Variant for the mutation checks: a replica that fails is passed over.
RaisesQuietly(p) == Proceeds(p, call[p])

Raises(p) == Becomes(p, Idle) /\ told' = told \cup {Mine(p)} /\ UNCHANGED <<acked, conflicts>>

Refuses(p) ==
    Becomes(p, Idle) /\ told' = told \cup {Mine(p)}
    /\ conflicts' = conflicts \cup {call[p].event} /\ UNCHANGED acked

\* The stream: an event it has is stored already, another of its id or sequence
\* is a conflict; it remembers the event and prints it then.
Same(p) == {e \in memory[p] : e.id = call[p].event.id \/ e.seq = call[p].event.seq}

\* Variant for the mutation checks: the replica places the event itself.
PlacesInMemory(p) ==
    memory' = [memory EXCEPT ![p] =
                 @ \cup {[call[p].event EXCEPT !.seq = Cardinality(memory[p]) + 1]}]

StoresInMemory(p) == memory' = [memory EXCEPT ![p] = @ \cup {call[p].event}]

Remember(p) ==
    /\ At(p, "stream")
    /\ \/ Same(p) = {} /\ StoresInMemory(p) /\ Goes(p, "emit") /\ UNCHANGED answers
       \/ Same(p) = {call[p].event} /\ Proceeds(p, call[p]) /\ UNCHANGED memory
       \/ Same(p) \notin {{}, {call[p].event}} /\ Refuses(p) /\ UNCHANGED memory
    /\ UNCHANGED <<log, replica, lines, bounds>>

Emit(p) ==
    /\ At(p, "emit")
    /\ lines' = lines \cup {Mine(p)} /\ Proceeds(p, call[p])
    /\ UNCHANGED <<log, replica, memory, bounds>>

EmitFails(p) ==
    /\ At(p, "emit") /\ Raises(p)
    /\ UNCHANGED <<log, replica, memory, lines, bounds>>

\* FirestoreJournalSink.store(): two documents, read and then created together.
ReadEvent(p) ==
    /\ At(p, "durable")
    /\ Becomes(p, [call[p] EXCEPT !.at = "index", !.found = StoredEvent(call[p].event.seq)])
    /\ UNCHANGED <<log, replica, memory, lines, answers, bounds>>

\* What was read, against the event: both as they should be, neither there, or a
\* conflict, be it that one alone is there.
Exact(found, entry, event) == found = event /\ entry = event.seq
Neither(found, entry) == found = Nothing /\ entry = 0

ReadIndex(p) ==
    /\ At(p, "index")
    /\ LET entry == StoredIndex(call[p].event.id)
           found == call[p].found
       IN  \/ Neither(found, entry) /\ Goes(p, "commit") /\ UNCHANGED answers
           \/ Exact(found, entry, call[p].event) /\ Proceeds(p, call[p])
           \/ /\ ~ Neither(found, entry) /\ ~ Exact(found, entry, call[p].event)
              /\ Refuses(p)
    /\ UNCHANGED <<log, replica, memory, lines, bounds>>

With(f, key, value) == [k \in DOMAIN f \cup {key} |-> IF k = key THEN value ELSE f[k]]

\* Variant for the mutation checks: the event is created without its index.
CreatesEvent(p) ==
    documents' = With(documents, call[p].event.seq, call[p].event) /\ UNCHANGED index

Creates(p) ==
    /\ documents' = With(documents, call[p].event.seq, call[p].event)
    /\ index' = With(index, call[p].event.id, call[p].event.seq)

\* Applied and answered; applied, sent again and refused for what it had created
\* itself; or refused for what another process created.  What already exists is
\* read again.
Commit(p) ==
    /\ At(p, "commit")
    /\ \/ /\ Neither(StoredEvent(call[p].event.seq), StoredIndex(call[p].event.id))
          /\ Creates(p)
          /\ \/ Proceeds(p, call[p])
             \/ Goes(p, "replayed") /\ UNCHANGED answers
       \/ /\ ~ Neither(StoredEvent(call[p].event.seq), StoredIndex(call[p].event.id))
          /\ Goes(p, "replayed") /\ UNCHANGED <<replica, answers>>
    /\ UNCHANGED <<log, memory, lines, bounds>>

\* _verify_stored_replay(): the two documents again, outside the transaction.
ReadReplayed(p) ==
    /\ At(p, "replayed")
    /\ Becomes(p, [call[p] EXCEPT !.at = "checked", !.found = StoredEvent(call[p].event.seq)])
    /\ UNCHANGED <<log, replica, memory, lines, answers, bounds>>

CheckReplayed(p) ==
    /\ At(p, "checked")
    /\ LET entry == StoredIndex(call[p].event.id)
       IN  \/ Exact(call[p].found, entry, call[p].event) /\ Proceeds(p, call[p])
           \/ ~ Exact(call[p].found, entry, call[p].event) /\ Refuses(p)
    /\ UNCHANGED <<log, replica, memory, lines, bounds>>

StoreFails(p) ==
    /\ call[p].at \in {"durable", "index", "commit", "replayed", "checked"}
    /\ Raises(p)
    /\ UNCHANGED <<log, replica, memory, lines, bounds>>

\* A process dies, and what its stream replica remembered with it; another takes
\* its place.
Crash(p) ==
    /\ crashes < MaxCrashes /\ crashes' = crashes + 1
    /\ Becomes(p, Idle) /\ memory' = [memory EXCEPT ![p] = {}]
    /\ UNCHANGED <<log, replica, lines, answers, appends>>

Next == \E p \in Processes :
    \/ \E draft \in Draft : Record(p, draft)
    \/ PrimaryAnswers(p) \/ PrimaryPlaces(p) \/ PrimaryFails(p)
    \/ Remember(p) \/ Emit(p) \/ EmitFails(p)
    \/ ReadEvent(p) \/ ReadIndex(p) \/ Commit(p)
    \/ ReadReplayed(p) \/ CheckReplayed(p) \/ StoreFails(p)
    \/ Crash(p)

Spec == Init /\ [][Next]_vars

-----------------------------------------------------------------------------
Events == [seq : Nat \ {0}, id : EventIds, body : Bodies]
Calls == [at : {"idle", "primary", "stream", "emit",
                "durable", "index", "commit", "replayed", "checked"},
          draft : Draft \cup {Nothing}, event : Events \cup {Nothing},
          replica : 0 .. Len(Replicas), found : Events \cup {Nothing}]

TypeOK ==
    /\ log \in Seq(Draft)
    /\ DOMAIN documents \subseteq Nat /\ \A n \in DOMAIN documents : documents[n] \in Events
    /\ DOMAIN index \subseteq EventIds /\ \A id \in DOMAIN index : index[id] \in Nat
    /\ memory \in [Processes -> SUBSET Events] /\ lines \subseteq Processes \X Events
    /\ call \in [Processes -> Calls]
    /\ acked \subseteq Processes \X Events /\ told \subseteq Processes \X Events
    /\ conflicts \subseteq Events
    /\ appends \in 0 .. MaxAppends /\ crashes \in 0 .. MaxCrashes

Replicated(kind) == \E r \in DOMAIN Replicas : Replicas[r] = kind

\* Every copy is of one chain: what any replica holds or has printed at a sequence
\* is what the primary has there, whatever was retried, raced for or lost.
CopiesShareOneChain ==
    LET Copies == {documents[n] : n \in DOMAIN documents}
                  \cup (UNION {memory[p] : p \in Processes}) \cup {line[2] : line \in lines}
    IN  /\ \A e \in Copies : e.seq \in DOMAIN log /\ e = Event(e.seq)
        /\ \A n \in DOMAIN documents : documents[n].seq = n

\* An append that returned is in the durable replica too, with the entry that
\* makes its retry safe.
AckedIsReplicated ==
    Replicated("durable") =>
        \A a \in acked : /\ StoredEvent(a[2].seq) = a[2]
                         /\ StoredIndex(a[2].id) = a[2].seq

\* A replica of one primary is never refused for its content: when the durable
\* replica says conflict another process was storing that very event, and it holds
\* it; the stream never does.
ConflictsAreRaces ==
    \A e \in conflicts : StoredEvent(e.seq) = e /\ StoredIndex(e.id) = e.seq

\* A line that is missing was told: a process that has stored an event, and is not
\* about to print it, has printed it or has raised for it.  (A retry of the event
\* returns without printing it.)
MissingLinesAreTold ==
    \A p \in Processes : \A e \in memory[p] :
        (At(p, "emit") /\ call[p].event = e) \/ <<p, e>> \in lines \cup told
=============================================================================
