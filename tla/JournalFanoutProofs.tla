------------------------- MODULE JournalFanoutProofs -------------------------
(***************************************************************************)
(* Theorems about the fan-out journal (JournalFanout), for any processes,      *)
(* drafts, order and number of replicas, appends and deaths.                  *)
(*                                                                         *)
(* The argument: only the primary places events, so an event in anybody's      *)
(* hands is the log's (OfLog), and identifiers are in the log once (UniqueIds).  *)
(* The durable replica's two documents of an event are there together            *)
(* (Coupled), so what a commit or a check finds is all of the event or            *)
(* nothing, and a call that is past a durable replica has left the event in it     *)
(* (Standing).  Nothing stored changes any more (Grows).                            *)
(***************************************************************************)
EXTENDS JournalFanout, TLAPS

UniqueIds == \A m, n \in DOMAIN log : log[m].id = log[n].id => m = n

OfLog(e) == e.seq \in DOMAIN log /\ e = Event(e.seq)

Stored(e) == StoredEvent(e.seq) = e /\ StoredIndex(e.id) = e.seq

Coupled ==
    /\ \A n \in DOMAIN documents :
          /\ n \in DOMAIN log /\ documents[n] = Event(n)
          /\ log[n].id \in DOMAIN index /\ index[log[n].id] = n
    /\ \A id \in DOMAIN index : index[id] \in DOMAIN documents /\ log[index[id]].id = id

AtDurable == {"durable", "index", "commit", "replayed", "checked"}

\* A call past the primary holds an event of the log, which is in every durable
\* replica the call has passed; what it has read of the documents is that event or
\* nothing.
Standing(p) ==
    /\ At(p, "idle") => call[p] = Idle
    /\ At(p, "primary") => call[p].draft \in Draft /\ call[p].replica = 0
    /\ call[p].at \notin {"idle", "primary"} =>
          /\ call[p].event \in Events /\ OfLog(call[p].event)
          /\ call[p].replica \in DOMAIN Replicas
          /\ call[p].at \in AtDurable <=> Replicas[call[p].replica] = "durable"
          /\ \A r \in 1 .. call[p].replica - 1 :
                Replicas[r] = "durable" => Stored(call[p].event)
    /\ call[p].at \in AtDurable /\ call[p].found # Nothing =>
          call[p].found = call[p].event /\ Stored(call[p].event)
    /\ call[p].at \in {"replayed", "checked"} => Stored(call[p].event)
    /\ At(p, "checked") => call[p].found = call[p].event

\* What is remembered, printed, answered and refused is of the log, and what was
\* answered or refused is stored.
Answers ==
    /\ \A p \in Processes : \A e \in memory[p] : OfLog(e)
    /\ \A line \in lines : OfLog(line[2])
    /\ \A a \in acked : OfLog(a[2]) /\ (Replicated("durable") => Stored(a[2]))
    /\ \A e \in conflicts : OfLog(e) /\ Stored(e)

IInv == /\ TypeOK /\ UniqueIds /\ Coupled /\ Answers /\ MissingLinesAreTold
        /\ \A p \in Processes : Standing(p)

Grows ==
    \A e \in Events : (OfLog(e) => OfLog(e)') /\ (Stored(e) => Stored(e)')

\* What the step of process p may do to the calls and to the answers.
Moves(p) ==
    /\ call' \in [Processes -> Calls] /\ \A q \in Processes : Standing(q)'
    /\ \A q \in Processes \ {p} : call'[q] = call[q]
    /\ \A a \in acked' \ acked :
          /\ a \in Processes \X Events /\ OfLog(a[2])'
          /\ Replicated("durable") => Stored(a[2])'
    /\ told \subseteq told' /\ told' \subseteq Processes \X Events
    /\ \A e \in conflicts' \ conflicts : e \in Events /\ OfLog(e)' /\ Stored(e)'

-----------------------------------------------------------------------------
LEMMA NothingIsNoEvent == Nothing \notin Events /\ Nothing.seq = 0
BY DEF Nothing, Events

LEMMA IdleTyped == Idle \in Calls /\ Idle.at = "idle"
BY FanoutAssumption DEF Idle, Calls

\* The fields of a call that are assigned, and those that are left alone.
LEMMA EventField ==
    ASSUME NEW s \in Calls, NEW e \in Events
    PROVE  LET t == [s EXCEPT !.event = e]
           IN  t \in Calls /\ t.event = e /\ t.replica = s.replica
<1>1. e \in Events \cup {Nothing}
  OBVIOUS
<1>. QED  BY <1>1 DEF Calls

LEMMA FoundField ==
    ASSUME NEW s \in Calls, NEW found \in Events \cup {Nothing},
           NEW at \in {"index", "checked"}
    PROVE  LET t == [s EXCEPT !.at = at, !.found = found]
           IN  /\ t \in Calls /\ t.at = at /\ t.found = found
               /\ t.event = s.event /\ t.replica = s.replica
BY DEF Calls

LEMMA AtField ==
    ASSUME NEW s \in Calls, NEW at \in {"emit", "commit", "replayed"}
    PROVE  LET t == [s EXCEPT !.at = at]
           IN  /\ t \in Calls /\ t.at = at /\ t.found = s.found
               /\ t.event = s.event /\ t.replica = s.replica
BY DEF Calls

\* What the log has at n, as an event.
LEMMA EventTyped ==
    ASSUME TypeOK, NEW n \in DOMAIN log
    PROVE  /\ Event(n) \in Events /\ Event(n).seq = n /\ Event(n).id = log[n].id
           /\ n \in Nat \ {0} /\ log[n] \in Draft
<1>1. n \in Nat \ {0} /\ log[n] \in Draft
  BY DEF TypeOK
<1>. QED  BY <1>1 DEF Event, Finalize, Events, Draft

\* Of an event of the log the durable replica has both documents or neither.
LEMMA BothOrNeither ==
    ASSUME TypeOK, UniqueIds, Coupled, NEW e \in Events, OfLog(e)
    PROVE  /\ StoredEvent(e.seq) \in {Nothing, e}
           /\ StoredEvent(e.seq) # Nothing \/ StoredIndex(e.id) # 0 => Stored(e)
<1>1. /\ e.seq \in DOMAIN log /\ e = Event(e.seq) /\ e.id = log[e.seq].id
      /\ e.seq \in Nat \ {0}
  BY EventTyped DEF OfLog
<1>2. CASE e.seq \in DOMAIN documents
  <2>1. documents[e.seq] = e /\ e.id \in DOMAIN index /\ index[e.id] = e.seq
    BY <1>1, <1>2 DEF Coupled
  <2>. QED  BY <1>2, <2>1 DEF StoredEvent, StoredIndex, Stored
<1>3. CASE e.seq \notin DOMAIN documents
  <2>1. e.id \notin DOMAIN index
    <3>1. SUFFICES ASSUME e.id \in DOMAIN index PROVE FALSE
      OBVIOUS
    <3>2. /\ index[e.id] \in DOMAIN documents /\ log[index[e.id]].id = e.id
          /\ index[e.id] \in DOMAIN log
      BY <3>1 DEF Coupled
    <3>3. index[e.id] = e.seq
      BY <1>1, <3>2 DEF UniqueIds
    <3>. QED  BY <1>3, <3>2, <3>3
  <2>. QED  BY <1>3, <2>1 DEF StoredEvent, StoredIndex
<1>. QED  BY <1>2, <1>3

LEMMA StoredExists ==
    ASSUME NEW e \in Events, Stored(e)
    PROVE  /\ e.seq \in DOMAIN documents /\ documents[e.seq] = e
           /\ e.id \in DOMAIN index /\ index[e.id] = e.seq
<1>1. e.seq # 0 /\ e # Nothing
  BY NothingIsNoEvent DEF Events
<1>. QED  BY <1>1 DEF Stored, StoredEvent, StoredIndex

-----------------------------------------------------------------------------
(* What a step does to one call, and leaves of the others.                  *)

\* While nothing stored changes, a call stands as long as it does not move.
LEMMA Stays ==
    ASSUME Grows, NEW q \in Processes, Standing(q), call'[q] = call[q]
    PROVE  Standing(q)'
<1>. DEFINE e == call[q].event
<1>1. e \in Events => (OfLog(e) => OfLog(e)') /\ (Stored(e) => Stored(e)')
  BY DEF Grows, OfLog, Event, Finalize, Stored, StoredEvent, StoredIndex
<1>2. call[q].at \in AtDurable \/ call[q].at \in {"replayed", "checked"} => e \in Events
  BY DEF Standing, AtDurable
<1>. QED  BY <1>1, <1>2 DEF Standing, At

\* A call that moves within the step, to a place where it stands.
LEMMA Moving ==
    ASSUME TypeOK, Grows, NEW p \in Processes, NEW s \in Calls, Becomes(p, s),
           \A q \in Processes : Standing(q), call'[p] = s => Standing(p)',
           UNCHANGED answers
    PROVE  Moves(p)
<1>1. /\ call' \in [Processes -> Calls] /\ call'[p] = s
      /\ \A q \in Processes \ {p} : call'[q] = call[q]
  BY DEF TypeOK, Becomes
<1>2. \A q \in Processes : Standing(q)'
  BY <1>1, Stays
<1>. QED  BY <1>1, <1>2 DEF Moves, answers, TypeOK

\* A call that ends, having raised or refused or not even started.
LEMMA Ending ==
    ASSUME TypeOK, Grows, NEW p \in Processes, Becomes(p, Idle),
           \A q \in Processes : Standing(q),
           UNCHANGED acked, told \subseteq told', told' \subseteq Processes \X Events,
           \A e \in conflicts' \ conflicts : e \in Events /\ OfLog(e)' /\ Stored(e)'
    PROVE  Moves(p)
<1>1. /\ call' \in [Processes -> Calls] /\ call'[p] = Idle
      /\ \A q \in Processes \ {p} : call'[q] = call[q]
  BY IdleTyped DEF TypeOK, Becomes
<1>2. Standing(p)'
  BY <1>1, IdleTyped DEF Standing, At, AtDurable, Idle
<1>3. \A q \in Processes : Standing(q)'
  BY <1>1, <1>2, Stays
<1>. QED  BY <1>1, <1>3 DEF Moves

\* A call that goes on to the next replica, or returns.
LEMMA Proceeding ==
    ASSUME TypeOK, Grows, NEW p \in Processes, NEW s \in Calls, Proceeds(p, s),
           \A q \in Processes : Standing(q),
           s.event \in Events, OfLog(s.event)',
           \A r \in 1 .. s.replica : Replicas[r] = "durable" => Stored(s.event)'
    PROVE  Moves(p)
<1>0. Replicas \in Seq({"durable", "stream"}) /\ Len(Replicas) \in Nat
  BY FanoutAssumption
<1>1. CASE s.replica < Len(Replicas)
  <2>. DEFINE t == [s EXCEPT !.at = Replicas[s.replica + 1], !.replica = @ + 1, !.found = Nothing]
  <2>1. call' = [call EXCEPT ![p] = t] /\ UNCHANGED answers
    BY <1>1 DEF Proceeds, Becomes
  <2>2. s.replica + 1 \in DOMAIN Replicas /\ Replicas[s.replica + 1] \in {"durable", "stream"}
    BY <1>0, <1>1 DEF Calls
  <2>3. /\ t \in Calls /\ t.at = Replicas[s.replica + 1] /\ t.event = s.event
        /\ t.replica = s.replica + 1 /\ t.found = Nothing
    <3>1. s.replica + 1 \in 0 .. Len(Replicas) /\ s.replica \in Nat
      BY <1>0, <1>1 DEF Calls
    <3>2. Nothing \in Events \cup {Nothing}
      OBVIOUS
    <3>3. Replicas[s.replica + 1] \in {"idle", "primary", "stream", "emit",
                                      "durable", "index", "commit", "replayed", "checked"}
      BY <2>2
    <3>. HIDE DEF t
    <3>4. t = [s EXCEPT !.at = Replicas[s.replica + 1], !.replica = s.replica + 1,
                       !.found = Nothing]
      BY DEF t, Calls
    <3>. QED  BY <3>1, <3>2, <3>3, <3>4 DEF Calls
  <2>4. /\ call' \in [Processes -> Calls] /\ call'[p] = t
        /\ \A q \in Processes \ {p} : call'[q] = call[q]
    BY <2>1, <2>3 DEF TypeOK
  <2>5. \A r \in 1 .. t.replica - 1 : Replicas[r] = "durable" => Stored(t.event)'
    BY <2>3 DEF Calls
  <2>6. Standing(p)'
    BY <2>2, <2>3, <2>4, <2>5 DEF Standing, At, AtDurable
  <2>7. \A q \in Processes : Standing(q)'
    BY <2>4, <2>6, Stays
  <2>. QED  BY <2>1, <2>4, <2>7 DEF answers, Moves, TypeOK
<1>2. CASE ~ s.replica < Len(Replicas)
  <2>1. /\ Becomes(p, Idle) /\ acked' = acked \cup {<<p, s.event>>}
        /\ UNCHANGED <<told, conflicts>>
    BY <1>2 DEF Proceeds
  <2>2. Replicated("durable") => Stored(s.event)'
    BY <1>0, <1>2 DEF Replicated, Calls
  <2>3. /\ call' \in [Processes -> Calls] /\ call'[p] = Idle
        /\ \A q \in Processes \ {p} : call'[q] = call[q]
    BY <2>1, IdleTyped DEF TypeOK, Becomes
  <2>4. Standing(p)'
    BY <2>3, IdleTyped DEF Standing, At, AtDurable, Idle
  <2>5. \A q \in Processes : Standing(q)'
    BY <2>3, <2>4, Stays
  <2>6. \A a \in acked' \ acked :
           /\ a \in Processes \X Events /\ OfLog(a[2])'
           /\ Replicated("durable") => Stored(a[2])'
    <3>1. SUFFICES ASSUME NEW a \in acked' \ acked PROVE a = <<p, s.event>>
      BY <2>2
    <3>. QED  BY <2>1
  <2>. QED  BY <2>1, <2>3, <2>5, <2>6 DEF Moves, TypeOK
<1>. QED  BY <1>1, <1>2

-----------------------------------------------------------------------------
(* What a step does to what is stored.                                      *)

LEMMA SameStore ==
    ASSUME UNCHANGED <<log, replica>>
    PROVE  /\ Grows /\ UniqueIds' = UniqueIds /\ Coupled' = Coupled
           /\ \A e : OfLog(e)' = OfLog(e) /\ Stored(e)' = Stored(e)
BY DEF replica, Grows, UniqueIds, Coupled, OfLog, Stored, Event, Finalize,
       StoredEvent, StoredIndex

\* The primary places a draft of a new id.
LEMMA Placing ==
    ASSUME IInv, NEW draft \in Draft, log' = Append(log, draft), UNCHANGED replica,
           ~ \E n \in DOMAIN log : Placed(n, draft),
           NEW e, e = Finalize(draft, Len(log) + 1)
    PROVE  /\ e \in Events /\ OfLog(e)'
           /\ Grows /\ UniqueIds' /\ Coupled' /\ log' \in Seq(Draft)
<1>1. log \in Seq(Draft) /\ Len(log) \in Nat
  BY DEF IInv, TypeOK
<1>2. /\ log' \in Seq(Draft) /\ DOMAIN log' = 1 .. Len(log) + 1
      /\ DOMAIN log = 1 .. Len(log)
      /\ \A n \in DOMAIN log : log'[n] = log[n]
      /\ log'[Len(log) + 1] = draft
  BY <1>1
<1>3. /\ e \in Events /\ e.seq = Len(log) + 1
  BY <1>1 DEF Events, Finalize, Draft
<1>4. OfLog(e)'
  BY <1>1, <1>2, <1>3 DEF OfLog, Event
<1>5. \A n \in DOMAIN log : n \in DOMAIN log' /\ Event(n)' = Event(n)
  BY <1>1, <1>2 DEF Event, Finalize
<1>6. Grows
  BY <1>5 DEF Grows, OfLog, Stored, StoredEvent, StoredIndex, replica
<1>7. UniqueIds'
  <2>1. \A n \in DOMAIN log : log[n].id # draft.id
    BY DEF Placed
  <2>. QED  BY <1>1, <1>2, <2>1 DEF IInv, UniqueIds
<1>8. Coupled'
  BY <1>2, <1>5 DEF IInv, Coupled, replica
<1>. QED  BY <1>2, <1>3, <1>4, <1>6, <1>7, <1>8

\* The durable replica creates the two documents of an event of which it has none.
LEMMA Creating ==
    ASSUME IInv, NEW p \in Processes, NEW e \in Events, call[p].event = e, OfLog(e),
           Neither(StoredEvent(e.seq), StoredIndex(e.id)),
           Creates(p), UNCHANGED log
    PROVE  /\ Grows /\ Stored(e)' /\ Coupled'
           /\ DOMAIN documents' \subseteq Nat
           /\ \A n \in DOMAIN documents' : documents'[n] \in Events
           /\ DOMAIN index' \subseteq EventIds /\ \A id \in DOMAIN index' : index'[id] \in Nat
<1>1. /\ e \in Events /\ e.seq \in Nat \ {0} /\ e.id \in EventIds
      /\ e.seq \in DOMAIN log /\ e = Event(e.seq) /\ e.id = log[e.seq].id
  BY EventTyped DEF Events, OfLog, IInv
<1>2. e.seq \notin DOMAIN documents
  <2>1. \A n \in DOMAIN documents : documents[n] # Nothing
    BY NothingIsNoEvent DEF IInv, TypeOK
  <2>. QED  BY <2>1 DEF Neither, StoredEvent
<1>3. e.id \notin DOMAIN index
  <2>1. \A id \in DOMAIN index : index[id] # 0
    <3>1. \A id \in DOMAIN index : index[id] \in DOMAIN log
      BY DEF IInv, Coupled
    <3>. QED  BY <3>1, EventTyped DEF IInv
  <2>. QED  BY <2>1 DEF Neither, StoredIndex
<1>4. /\ DOMAIN documents' = DOMAIN documents \cup {e.seq} /\ documents'[e.seq] = e
      /\ \A n \in DOMAIN documents : documents'[n] = documents[n]
      /\ DOMAIN index' = DOMAIN index \cup {e.id} /\ index'[e.id] = e.seq
      /\ \A id \in DOMAIN index : index'[id] = index[id]
  BY <1>2, <1>3 DEF Creates, With
<1>5. Stored(e)'
  BY <1>4 DEF Stored, StoredEvent, StoredIndex
<1>6. Grows
  <2>1. ASSUME NEW f \in Events, Stored(f) PROVE Stored(f)'
    BY <1>4, <2>1, StoredExists DEF Stored, StoredEvent, StoredIndex
  <2>. QED  BY <2>1 DEF Grows, OfLog, Event, Finalize
<1>7. Coupled'
  <2>1. ASSUME NEW n \in DOMAIN documents'
        PROVE  /\ n \in DOMAIN log /\ documents'[n] = Event(n)
               /\ log[n].id \in DOMAIN index' /\ index'[log[n].id] = n
    <3>1. CASE n = e.seq
      BY <1>1, <1>4, <3>1
    <3>2. CASE n # e.seq
      BY <1>1, <1>4, <3>2 DEF IInv, Coupled
    <3>. QED  BY <3>1, <3>2
  <2>2. ASSUME NEW id \in DOMAIN index'
        PROVE  index'[id] \in DOMAIN documents' /\ log[index'[id]].id = id
    <3>1. CASE id = e.id
      BY <1>1, <1>4, <3>1
    <3>2. CASE id # e.id
      BY <1>1, <1>4, <3>2 DEF IInv, Coupled
    <3>. QED  BY <3>1, <3>2
  <2>. QED  BY <2>1, <2>2 DEF Coupled, Event, Finalize
<1>. QED  BY <1>1, <1>4, <1>5, <1>6, <1>7 DEF IInv, TypeOK

-----------------------------------------------------------------------------
(* What is left to show of a step whose calls and answers are known.         *)
LEMMA Stepping ==
    ASSUME IInv, Grows, NEW p \in Processes, Moves(p),
           UniqueIds', Coupled', log' \in Seq(Draft),
           DOMAIN documents' \subseteq Nat, \A n \in DOMAIN documents' : documents'[n] \in Events,
           DOMAIN index' \subseteq EventIds, \A id \in DOMAIN index' : index'[id] \in Nat,
           memory' \in [Processes -> SUBSET Events],
           \A q \in Processes \ {p} : memory'[q] = memory[q],
           \A e \in memory'[p] :
              /\ e \in memory[p] \/ OfLog(e)'
              /\ \/ (At(p, "emit") /\ call[p].event = e)'
                 \/ <<p, e>> \in lines' \cup told'
                 \/ e \in memory[p] /\ ~ (At(p, "emit") /\ call[p].event = e),
           lines \subseteq lines', lines' \subseteq Processes \X Events,
           \A line \in lines' \ lines : OfLog(line[2])',
           appends' \in 0 .. MaxAppends, crashes' \in 0 .. MaxCrashes
    PROVE  IInv'
<1>1. TypeOK'
  <2>1. acked' \subseteq Processes \X Events /\ conflicts' \subseteq Events
    BY DEF Moves, IInv, TypeOK
  <2>. QED  BY <2>1 DEF Moves, TypeOK
<1>2. Answers'
  <2>1. \A q \in Processes : \A e \in memory'[q] : OfLog(e)'
    <3>1. ASSUME NEW q \in Processes, NEW e \in memory[q] PROVE OfLog(e)'
      BY DEF IInv, Answers, TypeOK, Grows
    <3>. QED  BY <3>1
  <2>2. \A line \in lines' : OfLog(line[2])'
    <3>1. ASSUME NEW line \in lines PROVE OfLog(line[2])'
      BY DEF IInv, Answers, TypeOK, Grows
    <3>. QED  BY <3>1
  <2>3. \A a \in acked' : OfLog(a[2])' /\ (Replicated("durable") => Stored(a[2])')
    <3>1. ASSUME NEW a \in acked PROVE OfLog(a[2])' /\ (Replicated("durable") => Stored(a[2])')
      BY DEF IInv, Answers, TypeOK, Grows
    <3>. QED  BY <3>1 DEF Moves
  <2>4. \A e \in conflicts' : OfLog(e)' /\ Stored(e)'
    <3>1. ASSUME NEW e \in conflicts PROVE OfLog(e)' /\ Stored(e)'
      BY DEF IInv, Answers, TypeOK, Grows
    <3>. QED  BY <3>1 DEF Moves
  <2>. QED  BY <2>1, <2>2, <2>3, <2>4 DEF Answers, Replicated
<1>3. MissingLinesAreTold'
  <2>1. told \subseteq told' /\ \A q \in Processes \ {p} : call'[q] = call[q]
    BY DEF Moves
  <2>2. ASSUME NEW q \in Processes \ {p}, NEW e \in memory'[q]
        PROVE  (At(q, "emit") /\ call[q].event = e)' \/ <<q, e>> \in lines' \cup told'
    BY <2>1 DEF IInv, MissingLinesAreTold, At
  <2>3. ASSUME NEW e \in memory'[p]
        PROVE  (At(p, "emit") /\ call[p].event = e)' \/ <<p, e>> \in lines' \cup told'
    BY <2>1 DEF IInv, MissingLinesAreTold
  <2>. QED  BY <2>2, <2>3 DEF MissingLinesAreTold
<1>. QED  BY <1>1, <1>2, <1>3 DEF IInv, Moves

\* Of a step that changes neither what is stored nor what is remembered or printed.
LEMMA Quiet ==
    ASSUME IInv, NEW p \in Processes, Moves(p), UNCHANGED <<log, replica, memory, lines>>,
           At(p, "emit") => Mine(p) \in told',
           appends' \in 0 .. MaxAppends, crashes' \in 0 .. MaxCrashes
    PROVE  IInv'
<1>1. Grows /\ UniqueIds' /\ Coupled'
  BY SameStore DEF IInv
<1>2. \A e \in memory'[p] : <<p, e>> \in told' \/ ~ (At(p, "emit") /\ call[p].event = e)
  BY DEF Mine
<1>. QED  BY <1>1, <1>2, Stepping DEF IInv, TypeOK, replica

-----------------------------------------------------------------------------
(* The ways a call past the primary goes on.                                *)

LEMMA Holding ==
    ASSUME IInv, NEW p \in Processes
    PROVE  /\ call[p] \in Calls /\ Standing(p)
           /\ call[p].at \notin {"idle", "primary"} =>
                 /\ call[p].event \in Events /\ OfLog(call[p].event)
                 /\ Mine(p) \in Processes \X Events
BY DEF IInv, TypeOK, Standing, Mine

LEMMA Passing ==
    ASSUME IInv, Grows, NEW p \in Processes, call[p].at \notin {"idle", "primary"},
           Proceeds(p, call[p]), NEW e, e = call[p].event,
           call[p].at \in AtDurable => Stored(e)'
    PROVE  Moves(p)
<1>1. PICK s \in Calls : s = call[p]
  BY Holding
<1>2. /\ s.event = e /\ e \in Events /\ OfLog(e) /\ s.replica \in DOMAIN Replicas
      /\ s.at \in AtDurable <=> Replicas[s.replica] = "durable"
      /\ \A r \in 1 .. s.replica - 1 : Replicas[r] = "durable" => Stored(e)
  BY <1>1, Holding DEF Standing
<1>3. OfLog(e)' /\ (Stored(e) => Stored(e)')
  BY <1>2 DEF Grows
<1>4. \A r \in 1 .. s.replica : Replicas[r] = "durable" => Stored(e)'
  BY <1>1, <1>2, <1>3 DEF Calls
<1>5. Proceeds(p, s)
  BY <1>1
<1>. QED  BY <1>1, <1>2, <1>3, <1>4, <1>5, Proceeding DEF IInv

LEMMA Raising ==
    ASSUME IInv, Grows, NEW p \in Processes, call[p].at \notin {"idle", "primary"}, Raises(p)
    PROVE  Moves(p) /\ Mine(p) \in told'
<1>1. told' \subseteq Processes \X Events /\ told \subseteq told' /\ Mine(p) \in told'
  BY Holding DEF Raises, IInv, TypeOK
<1>. QED  BY <1>1, Ending DEF Raises, IInv

LEMMA Refusing ==
    ASSUME IInv, UNCHANGED <<log, replica>>, NEW p \in Processes,
           call[p].at \notin {"idle", "primary"}, Refuses(p), Stored(call[p].event)
    PROVE  Moves(p) /\ Mine(p) \in told'
<1>1. told' \subseteq Processes \X Events /\ told \subseteq told' /\ Mine(p) \in told'
  BY Holding DEF Refuses, IInv, TypeOK
<1>2. PICK e \in Events : e = call[p].event /\ OfLog(e) /\ Stored(e)
  BY Holding
<1>3. Grows /\ OfLog(e)' /\ Stored(e)'
  BY <1>2, SameStore
<1>4. conflicts' \ conflicts \subseteq {e}
  BY <1>2 DEF Refuses
<1>5. \A f \in conflicts' \ conflicts : f \in Events /\ OfLog(f)' /\ Stored(f)'
  BY <1>3, <1>4
<1>6. Becomes(p, Idle) /\ UNCHANGED acked
  BY DEF Refuses
<1>. QED  BY <1>1, <1>3, <1>5, <1>6, Ending DEF IInv

-----------------------------------------------------------------------------
(* One step at a time.                                                      *)

LEMMA RecordStep ==
    ASSUME IInv, NEW p \in Processes, NEW draft \in Draft, Record(p, draft) PROVE IInv'
<1>. DEFINE s == [Idle EXCEPT !.at = "primary", !.draft = draft]
<1>1. /\ s \in Calls /\ s.at = "primary" /\ s.draft = draft /\ s.replica = 0
      /\ s.found = Nothing
  BY IdleTyped DEF Calls, Idle
<1>2. call'[p] = s => Standing(p)'
  BY <1>1 DEF Standing, At, AtDurable
<1>3. Moves(p)
  BY <1>1, <1>2, SameStore, Moving DEF Record, IInv, answers
<1>4. appends' \in 0 .. MaxAppends /\ crashes' \in 0 .. MaxCrashes /\ ~ At(p, "emit")
  BY FanoutAssumption DEF Record, IInv, TypeOK, At
<1>. QED  BY <1>3, <1>4, Quiet DEF Record

LEMMA PrimaryAnswersStep ==
    ASSUME IInv, NEW p \in Processes, PrimaryAnswers(p) PROVE IInv'
<1>1. PICK n \in DOMAIN log : Proceeds(p, [call[p] EXCEPT !.event = Event(n)])
  BY DEF PrimaryAnswers
<1>2. PICK e \in Events : e = Event(n) /\ OfLog(e)
  BY EventTyped DEF OfLog, IInv
<1>3. PICK s \in Calls : /\ s = [call[p] EXCEPT !.event = Event(n)]
                         /\ s.event = e /\ s.replica = 0
  <2>1. call[p] \in Calls /\ call[p].replica = 0
    BY Holding DEF PrimaryAnswers, Standing, At
  <2>. QED  BY <1>2, <2>1, EventField
<1>4. Grows /\ OfLog(e)'
  BY <1>2, SameStore DEF PrimaryAnswers
<1>5. Moves(p)
  <2>1. Proceeds(p, s) /\ 1 .. s.replica = {}
    BY <1>1, <1>3
  <2>. QED  BY <1>3, <1>4, <2>1, Proceeding DEF IInv
<1>6. appends' \in 0 .. MaxAppends /\ crashes' \in 0 .. MaxCrashes /\ ~ At(p, "emit")
  BY DEF PrimaryAnswers, bounds, IInv, TypeOK, At
<1>. QED  BY <1>5, <1>6, Quiet DEF PrimaryAnswers

LEMMA PrimaryPlacesStep ==
    ASSUME IInv, NEW p \in Processes, PrimaryPlaces(p) PROVE IInv'
<1>1. /\ At(p, "primary") /\ call[p].draft \in Draft /\ call[p] \in Calls
      /\ call[p].replica = 0
  BY Holding DEF PrimaryPlaces, Standing
<1>2. PICK e : e = Finalize(call[p].draft, Len(log) + 1)
  OBVIOUS
<1>3. /\ e \in Events /\ OfLog(e)'
      /\ Grows /\ UniqueIds' /\ Coupled' /\ log' \in Seq(Draft)
  <2>1. PICK draft \in Draft : draft = call[p].draft
    BY <1>1
  <2>. QED  BY <1>2, <2>1, Placing DEF PrimaryPlaces
<1>4. Moves(p)
  <2>1. CASE Proceeds(p, [call[p] EXCEPT !.event = e])
    <3>1. PICK s \in Calls : /\ s = [call[p] EXCEPT !.event = e]
                             /\ s.event = e /\ s.replica = 0
      BY <1>1, <1>3, EventField
    <3>2. Proceeds(p, s) /\ 1 .. s.replica = {}
      BY <2>1, <3>1
    <3>. QED  BY <1>3, <3>1, <3>2, Proceeding DEF IInv
  <2>2. CASE /\ Becomes(p, Idle)
             /\ told' = told \cup {<<p, e>>} /\ UNCHANGED <<acked, conflicts>>
    BY <1>3, <2>2, Ending DEF IInv, TypeOK
  <2>. QED  BY <1>2, <2>1, <2>2 DEF PrimaryPlaces
<1>5. ~ At(p, "emit") /\ UNCHANGED <<memory, lines, appends, crashes>>
  BY <1>1 DEF PrimaryPlaces, bounds, At
<1>6. UNCHANGED <<documents, index>>
  BY DEF PrimaryPlaces, replica
<1>. QED  BY <1>3, <1>4, <1>5, <1>6, Stepping DEF IInv, TypeOK

LEMMA PrimaryFailsStep ==
    ASSUME IInv, NEW p \in Processes, PrimaryFails(p) PROVE IInv'
<1>1. Moves(p)
  BY SameStore, Ending DEF PrimaryFails, IInv, TypeOK, answers
<1>. QED  BY <1>1, Quiet DEF PrimaryFails, bounds, IInv, TypeOK, At

LEMMA RememberStep ==
    ASSUME IInv, NEW p \in Processes, Remember(p) PROVE IInv'
<1>1. /\ At(p, "stream") /\ call[p].at = "stream" /\ call[p].at \notin AtDurable
      /\ ~ At(p, "emit")
  BY DEF Remember, At, AtDurable
<1>2. /\ UNCHANGED <<log, replica, lines, appends, crashes>>
      /\ Grows /\ UniqueIds' /\ Coupled'
  BY SameStore DEF Remember, bounds, IInv
<1>3. PICK e \in Events : e = call[p].event /\ OfLog(e)
  BY <1>1, Holding
<1>4. OfLog(e)'
  BY <1>2, <1>3, SameStore
<1>5. CASE Same(p) = {} /\ StoresInMemory(p) /\ Goes(p, "emit") /\ UNCHANGED answers
  <2>1. PICK s \in Calls : /\ s = [call[p] EXCEPT !.at = "emit"] /\ s.at = "emit"
                           /\ s.event = e /\ s.found = call[p].found
                           /\ s.replica = call[p].replica
    BY <1>3, Holding, AtField
  <2>2. /\ s.replica \in DOMAIN Replicas /\ Replicas[s.replica] # "durable"
        /\ \A r \in 1 .. s.replica - 1 : Replicas[r] = "durable" => Stored(e)'
    BY <1>1, <1>2, <1>3, <2>1, Holding DEF Standing, Grows
  <2>3. call'[p] = s => Standing(p)'
    BY <1>4, <2>1, <2>2 DEF Standing, At, AtDurable
  <2>4. Moves(p)
    BY <1>2, <1>5, <2>1, <2>3, Moving DEF Goes, IInv
  <2>5. call'[p] = s
    BY <1>5, <2>1 DEF Goes, Becomes, IInv, TypeOK
  <2>6. /\ memory' \in [Processes -> SUBSET Events] /\ memory'[p] = memory[p] \cup {e}
        /\ \A q \in Processes \ {p} : memory'[q] = memory[q]
    BY <1>3, <1>5 DEF StoresInMemory, IInv, TypeOK
  <2>7. ASSUME NEW f \in memory'[p]
        PROVE  /\ f \in memory[p] \/ OfLog(f)'
               /\ \/ (At(p, "emit") /\ call[p].event = f)'
                  \/ f \in memory[p] /\ ~ (At(p, "emit") /\ call[p].event = f)
    BY <1>1, <1>4, <2>1, <2>5, <2>6 DEF At
  <2>. QED  BY <1>2, <2>4, <2>6, <2>7, Stepping DEF IInv, TypeOK, replica
<1>6. CASE Same(p) = {call[p].event} /\ Proceeds(p, call[p]) /\ UNCHANGED memory
  BY <1>1, <1>2, <1>6, Passing, Quiet DEF IInv, TypeOK
<1>7. CASE Same(p) \notin {{}, {call[p].event}} /\ Refuses(p) /\ UNCHANGED memory
  <2>1. PICK f \in memory[p] : f # e /\ (f.id = e.id \/ f.seq = e.seq)
    <3>1. Same(p) # {} /\ Same(p) # {e}
      BY <1>3, <1>7
    <3>2. \A f \in Same(p) : f \in memory[p] /\ (f.id = e.id \/ f.seq = e.seq)
      BY <1>3 DEF Same
    <3>. QED  BY <3>1, <3>2
  <2>2. f \in Events /\ OfLog(f)
    BY <2>1 DEF IInv, TypeOK, Answers
  <2>3. /\ f.seq \in DOMAIN log /\ f = Event(f.seq) /\ f.id = log[f.seq].id
        /\ e.seq \in DOMAIN log /\ e = Event(e.seq) /\ e.id = log[e.seq].id
    BY <1>3, <2>2, EventTyped DEF OfLog, IInv
  <2>4. f.seq = e.seq
    BY <2>1, <2>3 DEF IInv, UniqueIds
  <2>. QED  BY <2>1, <2>3, <2>4
<1>. QED  BY <1>5, <1>6, <1>7 DEF Remember

LEMMA EmitStep ==
    ASSUME IInv, NEW p \in Processes, Emit(p) PROVE IInv'
<1>1. call[p].at = "emit" /\ call[p].at \notin AtDurable \cup {"idle", "primary"}
  BY DEF Emit, At, AtDurable
<1>2. /\ UNCHANGED <<log, replica, memory, appends, crashes>>
      /\ Grows /\ UniqueIds' /\ Coupled'
  BY SameStore DEF Emit, bounds, IInv
<1>3. PICK e \in Events : e = call[p].event /\ OfLog(e)
  BY <1>1, Holding
<1>4. Moves(p)
  BY <1>1, <1>2, <1>3, Passing DEF Emit
<1>5. lines' = lines \cup {<<p, e>>} /\ OfLog(e)'
  BY <1>2, <1>3, SameStore DEF Emit, Mine
<1>6. /\ lines \subseteq lines' /\ lines' \subseteq Processes \X Events
      /\ \A line \in lines' \ lines : OfLog(line[2])'
  <2>1. \A line \in lines' \ lines : line[2] = e
    BY <1>5
  <2>. QED  BY <1>5, <2>1 DEF IInv, TypeOK
<1>7. \A f \in memory'[p] : <<p, f>> \in lines' \/ ~ (At(p, "emit") /\ call[p].event = f)
  BY <1>3, <1>5
<1>. QED  BY <1>2, <1>4, <1>6, <1>7, Stepping DEF IInv, TypeOK, replica

LEMMA EmitFailsStep ==
    ASSUME IInv, NEW p \in Processes, EmitFails(p) PROVE IInv'
<1>1. Moves(p) /\ Mine(p) \in told'
  BY SameStore, Raising DEF EmitFails, At
<1>. QED  BY <1>1, Quiet DEF EmitFails, bounds, IInv, TypeOK

LEMMA ReadEventStep ==
    ASSUME IInv, NEW p \in Processes, ReadEvent(p) PROVE IInv'
<1>1. call[p].at = "durable" /\ call[p].at \in AtDurable
  BY DEF ReadEvent, At, AtDurable
<1>2. PICK e \in Events : e = call[p].event /\ OfLog(e)
  BY <1>1, Holding
<1>3. /\ StoredEvent(e.seq) \in Events \cup {Nothing}
      /\ StoredEvent(e.seq) # Nothing => StoredEvent(e.seq) = e /\ Stored(e)
  BY <1>2, BothOrNeither DEF IInv
<1>4. PICK found \in Events \cup {Nothing} : found = StoredEvent(e.seq)
  BY <1>3
<1>5. PICK s \in Calls : /\ s = [call[p] EXCEPT !.at = "index", !.found = found]
                         /\ s.at = "index" /\ s.found = found
                         /\ s.event = e /\ s.replica = call[p].replica
  <2>1. call[p] \in Calls
    BY Holding
  <2>. DEFINE t == [call[p] EXCEPT !.at = "index", !.found = found]
  <2>2. /\ t \in Calls /\ t.at = "index" /\ t.found = found
        /\ t.event = call[p].event /\ t.replica = call[p].replica
    BY <2>1, FoundField
  <2>. QED  BY <1>2, <2>2
<1>6. Grows /\ OfLog(e)' /\ (Stored(e) => Stored(e)')
  BY <1>2, SameStore DEF ReadEvent
<1>7. /\ s.replica \in DOMAIN Replicas /\ Replicas[s.replica] = "durable"
      /\ \A r \in 1 .. s.replica - 1 : Replicas[r] = "durable" => Stored(e)
  BY <1>1, <1>2, <1>5, Holding DEF Standing
<1>8. call'[p] = s => Standing(p)'
  BY <1>3, <1>4, <1>5, <1>6, <1>7 DEF Standing, At, AtDurable
<1>9. Becomes(p, s) /\ UNCHANGED answers
  BY <1>2, <1>4, <1>5 DEF ReadEvent
<1>10. Moves(p)
  BY <1>6, <1>8, <1>9, Moving DEF IInv
<1>. QED  BY <1>1, <1>10, Quiet DEF ReadEvent, bounds, IInv, TypeOK, At

LEMMA ReadIndexStep ==
    ASSUME IInv, NEW p \in Processes, ReadIndex(p) PROVE IInv'
<1>1. call[p].at = "index" /\ call[p].at \in AtDurable /\ ~ At(p, "emit")
  BY DEF ReadIndex, At, AtDurable
<1>2. PICK e \in Events : e = call[p].event /\ OfLog(e)
  BY <1>1, Holding
<1>3. /\ UNCHANGED <<log, replica, memory, lines, appends, crashes>>
      /\ Grows /\ OfLog(e)' /\ (Stored(e) => Stored(e)')
  BY <1>2, SameStore DEF ReadIndex, bounds
<1>4. /\ call[p].found # Nothing => call[p].found = e /\ Stored(e)
      /\ StoredIndex(e.id) # 0 => Stored(e)
  BY <1>1, <1>2, Holding, BothOrNeither DEF Standing, IInv
<1>5. Moves(p)
  <2>1. CASE Neither(call[p].found, StoredIndex(e.id)) /\ Goes(p, "commit") /\ UNCHANGED answers
    <3>1. PICK s \in Calls : /\ s = [call[p] EXCEPT !.at = "commit"] /\ s.at = "commit"
                             /\ s.event = e /\ s.replica = call[p].replica
                             /\ s.found = Nothing
      BY <1>2, <2>1, Holding, AtField DEF Neither
    <3>2. /\ s.replica \in DOMAIN Replicas /\ Replicas[s.replica] = "durable"
          /\ \A r \in 1 .. s.replica - 1 : Replicas[r] = "durable" => Stored(e)
      BY <1>1, <1>2, <3>1, Holding DEF Standing
    <3>3. call'[p] = s => Standing(p)'
      BY <1>3, <3>1, <3>2 DEF Standing, At, AtDurable
    <3>. QED  BY <1>3, <2>1, <3>1, <3>3, Moving DEF Goes, IInv
  <2>2. CASE Exact(call[p].found, StoredIndex(e.id), e) /\ Proceeds(p, call[p])
    <3>1. Stored(e)'
      BY <1>3, <1>4, <2>2, NothingIsNoEvent DEF Exact
    <3>. QED  BY <1>1, <1>2, <1>3, <2>2, <3>1, Passing
  <2>3. CASE /\ ~ Neither(call[p].found, StoredIndex(e.id)) /\ Refuses(p)
    <3>1. Stored(call[p].event)
      BY <1>2, <1>4, <2>3 DEF Neither
    <3>. QED  BY <1>1, <1>3, <2>3, <3>1, Refusing
  <2>. QED  BY <1>2, <2>1, <2>2, <2>3 DEF ReadIndex
<1>. QED  BY <1>1, <1>3, <1>5, Quiet DEF IInv, TypeOK

LEMMA CommitStep ==
    ASSUME IInv, NEW p \in Processes, Commit(p) PROVE IInv'
<1>1. call[p].at = "commit" /\ call[p].at \in AtDurable /\ ~ At(p, "emit")
  BY DEF Commit, At, AtDurable
<1>2. PICK e \in Events : e = call[p].event /\ OfLog(e)
  BY <1>1, Holding
<1>3. UNCHANGED <<log, memory, lines, appends, crashes>>
  BY DEF Commit, bounds
<1>4. ASSUME Grows, Stored(e)', Goes(p, "replayed"), UNCHANGED answers PROVE Moves(p)
  <2>1. PICK s \in Calls : /\ s = [call[p] EXCEPT !.at = "replayed"] /\ s.at = "replayed"
                           /\ s.event = e /\ s.replica = call[p].replica
                           /\ s.found = call[p].found
    BY <1>2, Holding, AtField
  <2>2. /\ s.replica \in DOMAIN Replicas /\ Replicas[s.replica] = "durable"
        /\ \A r \in 1 .. s.replica - 1 : Replicas[r] = "durable" => Stored(e)
        /\ s.found # Nothing => s.found = e
    BY <1>1, <1>2, <2>1, Holding DEF Standing
  <2>3. OfLog(e)' /\ (Stored(e) => Stored(e)')
    BY <1>2, <1>4 DEF Grows
  <2>4. call'[p] = s => Standing(p)'
    BY <1>4, <2>1, <2>2, <2>3 DEF Standing, At, AtDurable
  <2>. QED  BY <1>4, <2>1, <2>4, Moving DEF Goes, IInv
<1>5. CASE /\ Neither(StoredEvent(e.seq), StoredIndex(e.id)) /\ Creates(p)
           /\ Proceeds(p, call[p]) \/ (Goes(p, "replayed") /\ UNCHANGED answers)
  <2>1. /\ Grows /\ Stored(e)' /\ Coupled'
        /\ DOMAIN documents' \subseteq Nat
        /\ \A n \in DOMAIN documents' : documents'[n] \in Events
        /\ DOMAIN index' \subseteq EventIds /\ \A id \in DOMAIN index' : index'[id] \in Nat
    BY <1>2, <1>3, <1>5, Creating
  <2>2. Moves(p)
    BY <1>1, <1>2, <1>4, <1>5, <2>1, Passing
  <2>3. UniqueIds' /\ log' \in Seq(Draft)
    BY <1>3 DEF IInv, UniqueIds, TypeOK
  <2>. QED  BY <1>1, <1>3, <2>1, <2>2, <2>3, Stepping DEF IInv, TypeOK
<1>6. CASE /\ ~ Neither(StoredEvent(e.seq), StoredIndex(e.id))
           /\ Goes(p, "replayed") /\ UNCHANGED <<replica, answers>>
  <2>1. Stored(e)
    BY <1>2, <1>6, BothOrNeither DEF Neither, IInv
  <2>2. Grows /\ Stored(e)'
    BY <1>3, <1>6, <2>1, SameStore
  <2>3. Moves(p)
    BY <1>4, <1>6, <2>2
  <2>. QED  BY <1>1, <1>3, <1>6, <2>3, Quiet DEF IInv, TypeOK
<1>. QED  BY <1>2, <1>5, <1>6 DEF Commit

LEMMA ReadReplayedStep ==
    ASSUME IInv, NEW p \in Processes, ReadReplayed(p) PROVE IInv'
<1>1. call[p].at = "replayed" /\ call[p].at \in AtDurable
  BY DEF ReadReplayed, At, AtDurable
<1>2. PICK e \in Events : e = call[p].event /\ OfLog(e)
  BY <1>1, Holding
<1>3. Stored(e)
  BY <1>1, <1>2, Holding DEF Standing
<1>4. PICK s \in Calls : /\ s = [call[p] EXCEPT !.at = "checked", !.found = e]
                         /\ s.at = "checked" /\ s.found = e
                         /\ s.event = e /\ s.replica = call[p].replica
  <2>1. call[p] \in Calls /\ e \in Events \cup {Nothing}
    BY Holding
  <2>. DEFINE t == [call[p] EXCEPT !.at = "checked", !.found = e]
  <2>2. /\ t \in Calls /\ t.at = "checked" /\ t.found = e
        /\ t.event = call[p].event /\ t.replica = call[p].replica
    BY <2>1, FoundField
  <2>. QED  BY <1>2, <2>2
<1>5. Grows /\ OfLog(e)' /\ Stored(e)'
  BY <1>2, <1>3, SameStore DEF ReadReplayed
<1>6. /\ s.replica \in DOMAIN Replicas /\ Replicas[s.replica] = "durable"
      /\ \A r \in 1 .. s.replica - 1 : Replicas[r] = "durable" => Stored(e)
  BY <1>1, <1>2, <1>4, Holding DEF Standing
<1>7. call'[p] = s => Standing(p)'
  BY <1>4, <1>5, <1>6 DEF Standing, At, AtDurable
<1>8. Becomes(p, s) /\ UNCHANGED answers
  BY <1>2, <1>3, <1>4 DEF ReadReplayed, Stored
<1>9. Moves(p)
  BY <1>5, <1>7, <1>8, Moving DEF IInv
<1>. QED  BY <1>1, <1>9, Quiet DEF ReadReplayed, bounds, IInv, TypeOK, At

LEMMA CheckReplayedStep ==
    ASSUME IInv, NEW p \in Processes, CheckReplayed(p) PROVE IInv'
<1>1. call[p].at = "checked" /\ call[p].at \in AtDurable /\ ~ At(p, "emit")
  BY DEF CheckReplayed, At, AtDurable
<1>2. PICK e \in Events : e = call[p].event /\ OfLog(e)
  BY <1>1, Holding
<1>3. Stored(e) /\ call[p].found = e
  BY <1>1, <1>2, Holding DEF Standing, At
<1>4. Grows /\ Stored(e)'
  BY <1>2, <1>3, SameStore DEF CheckReplayed
<1>5. Proceeds(p, call[p])
  BY <1>2, <1>3 DEF CheckReplayed, Exact, Stored
<1>6. Moves(p)
  BY <1>1, <1>2, <1>4, <1>5, Passing
<1>. QED  BY <1>1, <1>6, Quiet DEF CheckReplayed, bounds, IInv, TypeOK

LEMMA StoreFailsStep ==
    ASSUME IInv, NEW p \in Processes, StoreFails(p) PROVE IInv'
<1>1. Moves(p) /\ Mine(p) \in told'
  BY SameStore, Raising DEF StoreFails
<1>. QED  BY <1>1, Quiet DEF StoreFails, bounds, IInv, TypeOK

LEMMA CrashStep ==
    ASSUME IInv, NEW p \in Processes, Crash(p) PROVE IInv'
<1>1. Grows /\ UniqueIds' /\ Coupled'
  BY SameStore DEF Crash, IInv
<1>2. Moves(p)
  BY <1>1, Ending DEF Crash, IInv, TypeOK, answers
<1>3. /\ memory' \in [Processes -> SUBSET Events] /\ memory'[p] = {}
      /\ \A q \in Processes \ {p} : memory'[q] = memory[q]
  BY DEF Crash, IInv, TypeOK
<1>4. crashes' \in 0 .. MaxCrashes /\ UNCHANGED <<log, documents, index, lines, appends>>
  BY FanoutAssumption DEF Crash, replica, IInv, TypeOK
<1>. QED  BY <1>1, <1>2, <1>3, <1>4, Stepping DEF IInv, TypeOK

LEMMA InitIInv == Init => IInv
<1>. SUFFICES ASSUME Init PROVE IInv
  OBVIOUS
<1>1. TypeOK
  BY FanoutAssumption, IdleTyped DEF Init, TypeOK
<1>2. UniqueIds /\ Coupled /\ Answers /\ MissingLinesAreTold
  BY DEF Init, UniqueIds, Coupled, Answers, MissingLinesAreTold
<1>3. \A p \in Processes : Standing(p)
  BY IdleTyped DEF Init, Standing, At, AtDurable, Idle
<1>. QED  BY <1>1, <1>2, <1>3 DEF IInv

LEMMA Preserved == IInv /\ [Next]_vars => IInv'
<1>. SUFFICES ASSUME IInv, [Next]_vars PROVE IInv'
  OBVIOUS
<1>1. CASE Next
  <2>1. PICK p \in Processes :
           \/ \E draft \in Draft : Record(p, draft)
           \/ PrimaryAnswers(p) \/ PrimaryPlaces(p) \/ PrimaryFails(p)
           \/ Remember(p) \/ Emit(p) \/ EmitFails(p)
           \/ ReadEvent(p) \/ ReadIndex(p) \/ Commit(p)
           \/ ReadReplayed(p) \/ CheckReplayed(p) \/ StoreFails(p)
           \/ Crash(p)
    BY <1>1 DEF Next
  <2>. QED  BY <2>1, RecordStep, PrimaryAnswersStep, PrimaryPlacesStep, PrimaryFailsStep,
               RememberStep, EmitStep, EmitFailsStep, ReadEventStep, ReadIndexStep,
               CommitStep, ReadReplayedStep, CheckReplayedStep, StoreFailsStep, CrashStep
<1>2. CASE UNCHANGED vars
  BY <1>2 DEF vars, replica, answers, bounds, IInv, TypeOK, UniqueIds, Coupled, Answers,
              MissingLinesAreTold, Standing, At, OfLog, Event, Finalize, Stored,
              StoredEvent, StoredIndex
<1>. QED  BY <1>1, <1>2

-----------------------------------------------------------------------------
\* Every variable of the fan-out keeps its type: the invariant that makes what is
\* stored, remembered and answered an event.
THEOREM TypeCorrect == Spec => []TypeOK
<1>1. IInv => TypeOK
  BY DEF IInv
<1>. QED  BY InitIInv, Preserved, <1>1, PTL DEF Spec

\* FanoutJournalSink.append(): whatever is retried, raced for, refused or lost, what a
\* replica holds, remembers or has printed at a sequence is the primary's event there.
THEOREM OneChain == Spec => []CopiesShareOneChain
<1>1. IInv => CopiesShareOneChain
  <2>. SUFFICES ASSUME IInv PROVE CopiesShareOneChain
    OBVIOUS
  <2>1. \A n \in DOMAIN documents : /\ n \in DOMAIN log /\ documents[n] = Event(n)
                                   /\ documents[n].seq = n
    BY EventTyped DEF IInv, Coupled
  <2>2. \A p \in Processes : \A e \in memory[p] : e.seq \in DOMAIN log /\ e = Event(e.seq)
    BY DEF IInv, Answers, OfLog
  <2>3. \A line \in lines : line[2].seq \in DOMAIN log /\ line[2] = Event(line[2].seq)
    BY DEF IInv, Answers, OfLog
  <2>. QED  BY <2>1, <2>2, <2>3 DEF CopiesShareOneChain
<1>. QED  BY InitIInv, Preserved, <1>1, PTL DEF Spec

\* An append() that returned has left its event and its event's index in the durable
\* replica, wherever among the replicas that one comes.
THEOREM AckedStays == Spec => []AckedIsReplicated
<1>1. IInv => AckedIsReplicated
  BY DEF IInv, Answers, Stored, AckedIsReplicated
<1>. QED  BY InitIInv, Preserved, <1>1, PTL DEF Spec

\* FirestoreJournalSink.store() says conflict of an event only when it holds it, and
\* the stream's store() never says it.
THEOREM ConflictsHoldTheEvent == Spec => []ConflictsAreRaces
<1>1. IInv => ConflictsAreRaces
  BY DEF IInv, Answers, Stored, ConflictsAreRaces
<1>. QED  BY InitIInv, Preserved, <1>1, PTL DEF Spec

\* StreamJournalSink remembers an event before it prints it: one that is remembered
\* and not printed is being printed, or its append() raised.
THEOREM LinesAreTold == Spec => []MissingLinesAreTold
<1>1. IInv => MissingLinesAreTold
  BY DEF IInv
<1>. QED  BY InitIInv, Preserved, <1>1, PTL DEF Spec
=============================================================================
