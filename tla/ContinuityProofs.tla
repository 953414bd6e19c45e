-------------------------- MODULE ContinuityProofs --------------------------
(***************************************************************************)
(* Theorems about the resumption of an operation (Continuity), for any        *)
(* workers, deaths and losses of the journal's tail.                          *)
(*                                                                         *)
(* The inductive invariant says of each worker what its own steps have        *)
(* established since it read the checkpoint: that the step it takes is the    *)
(* one the phase allows, that a phase past PLANNED or a step past Act means   *)
(* the action ran, that what it holds is the stored checkpoint or an older    *)
(* one, and, while nothing is lost, that all it read the journal still has.    *)
(* Runs of the action are counted (Counted) against the workers that may still  *)
(* run it: one planned before the first record, and nobody plans it after.      *)
(***************************************************************************)
EXTENDS Continuity, TLAPS, FiniteSetTheorems

\* The stages of a worker that has a plan.
Planning == {"planned", "acted", "recorded", "advancing"}

\* The step is the plan's; what acts executes and what records does something.
FollowsPlan(w) ==
    /\ worker[w].at \in Planning => worker[w].step = NextStep(worker[w].held.phase)
    /\ worker[w].at \in {"acted", "recorded", "advancing"} => worker[w].step # "NOTHING"

\* What no longer is PLANNED was performed.
Grounded ==
    /\ store.phase # "PLANNED" => performed > 0
    /\ \A w \in Workers :
          /\ worker[w].held.phase # "PLANNED" => performed > 0
          /\ worker[w].at \in {"acted", "recorded", "advancing"} => performed > 0

\* A held checkpoint is the stored one or has an earlier version.
HeldIsStoredOrOlder(w) ==
    worker[w].at # "idle" =>
        /\ worker[w].held.version <= store.version
        /\ worker[w].held.version = store.version => worker[w].held = store

\* Events that begin with a trail.
StartsWith(events, trail) ==
    /\ Len(trail) <= Len(events)
    /\ HashAt(events, Len(trail)) = HashAt(trail, Len(trail))

NothingMissing ==
    losses = 0 =>
        /\ StartsWith(journal, Opening)
        /\ StartsWith(journal, store.trail)
        /\ \A w \in Workers :
              StartsWith(journal, worker[w].held.trail) /\ StartsWith(journal, worker[w].read)

\* The workers about to act, and those that acted and have not recorded it.
Ready == {w \in Workers : worker[w].at = "planned" /\ worker[w].step = "EXECUTE"}
Acting == {w \in Workers : worker[w].at = "acted"}

\* While nothing is lost: before the first record what was performed is in somebody's
\* hands or was dropped there; after it nobody is made ready any more.
Counted ==
    losses = 0 =>
        /\ Ready \cup Acting \subseteq Current
        /\ ~ ActionRecorded(journal) => performed <= Cardinality(Acting) + unrecorded
        /\ ActionRecorded(journal) =>
              performed + Cardinality(Ready) <= Cardinality(Current) + unrecorded

Inv ==
    /\ TypeOK
    /\ Grounded
    /\ \A w \in Workers : FollowsPlan(w) /\ HeldIsStoredOrOlder(w)
    /\ NothingMissing
    /\ NoFalseAlarm
    /\ Counted

States == [at : Stages, held : Checkpoints, read : Trails, step : Steps \cup Refusals]

-----------------------------------------------------------------------------
(* Trails.                                                                  *)

\* What a journal begins with it still begins with after an append.
LEMMA StartsWithAfterAppend ==
    ASSUME NEW j \in Trails, NEW e \in Events, NEW t \in Trails, StartsWith(j, t)
    PROVE  StartsWith(Append(j, e), t)
<1>1. /\ Append(j, e) \in Trails /\ Len(Append(j, e)) = Len(j) + 1
      /\ \A i \in 1..Len(j) : Append(j, e)[i] = j[i]
  BY DEF Trails
<1>2. Len(t) \in Nat /\ Len(j) \in Nat /\ Len(t) <= Len(j)
  BY DEF StartsWith, Trails
<1>3. SubSeq(Append(j, e), 1, Len(t)) = SubSeq(j, 1, Len(t))
  BY <1>1, <1>2 DEF Trails
<1> QED  BY <1>1, <1>2, <1>3 DEF StartsWith, HashAt

\* Every journal begins with itself and with nothing.
LEMMA StartsWithSelfAndEmpty ==
    ASSUME NEW j \in Trails
    PROVE  StartsWith(j, j) /\ StartsWith(j, << >>)
<1>1. << >> \in Trails /\ Len(<< >>) = 0  BY DEF Trails
<1>2. SubSeq(j, 1, 0) = << >> /\ SubSeq(<< >>, 1, 0) = << >>  BY <1>1 DEF Trails
<1> QED  BY <1>1, <1>2 DEF StartsWith, HashAt, Trails

LEMMA OpeningTyped == Opening \in Trails /\ Opened \in Checkpoints /\ Idle \in States
<1>1. [status |-> "STARTED", life |-> 0] \in Events  BY DEF Events
<1>2. Opening \in Seq(Events)
  <2> DEFINE start == [status |-> "STARTED", life |-> 0]
  <2>1. start \in Events  BY <1>1
  <2> HIDE DEF start
  <2>2. <<start>> \in Seq(Events)  BY <2>1
  <2> QED  BY <2>2 DEF Opening, start
<1>3. Opened \in Checkpoints
  BY <1>2 DEF Opened, Checkpoint, Checkpoints, Trails, Phases
<1>4. << >> \in Trails  BY DEF Trails
<1> QED  BY <1>2, <1>3, <1>4 DEF Trails, Idle, States, Stages, Steps

-----------------------------------------------------------------------------
(* Types.                                                                   *)

LEMMA TypeInit == Init => TypeOK
  BY OpeningTyped DEF Init, TypeOK, States

\* The steps a phase allows are steps, and so are the phases after a step.
LEMMA NextStepTyped ==
    /\ \A phase \in Phases : NextStep(phase) \in Steps
    /\ \A step \in Steps \cup Refusals : PhasesAfter(step) \subseteq Phases \ MAY_EXECUTE
  BY DEF NextStep, PhasesAfter, Phases, Steps, Refusals, TERMINAL, MAY_EXECUTE

LEMMA WorkerTyped ==
    ASSUME TypeOK, NEW w \in Workers, NEW s \in States, Becomes(w, s)
    PROVE  /\ worker' \in [Workers -> States]
           /\ worker'[w] = s
           /\ \A u \in Workers : u # w => worker'[u] = worker[u]
  BY DEF TypeOK, Becomes, States

\* What a worker journals is an event.
LEMMA JournaledIsEvent ==
    ASSUME losses \in Nat, NEW w \in Workers, RecordAction(w) \/ CollectOrVerify(w)
    PROVE  \E e \in Events : journal' = Append(journal, e)
<1>1. PICK status \in {"ACTION_EXECUTED", "RECORDED"} : Journal(status)
  BY DEF RecordAction, CollectOrVerify
<1>2. [status |-> status, life |-> losses] \in Events
  BY DEF Events
<1> QED  BY <1>1, <1>2 DEF Journal

LEMMA TypeStep == TypeOK /\ [Next]_vars => TypeOK'
<1> SUFFICES ASSUME TypeOK, [Next]_vars PROVE TypeOK'
  OBVIOUS
<1>0. /\ journal \in Trails /\ store \in Checkpoints
      /\ worker \in [Workers -> States]
      /\ performed \in Nat /\ unrecorded \in Nat /\ crashes \in Nat /\ losses \in Nat
  BY DEF TypeOK, States
<1> SUFFICES /\ journal' \in Trails /\ store' \in Checkpoints
             /\ worker' \in [Workers -> States]
             /\ performed' \in Nat /\ unrecorded' \in Nat /\ crashes' \in Nat /\ losses' \in Nat
  BY DEF TypeOK, States
<1>1. CASE UNCHANGED vars
  BY <1>0, <1>1 DEF vars
<1>2. ASSUME NEW w \in Workers, ReadCheckpoint(w) PROVE TypeOK'
  <2>1. [Idle EXCEPT !.at = "resuming", !.held = store] \in States
    BY <1>0, OpeningTyped DEF States, Stages, Idle
  <2> QED  BY <1>0, <1>2, <2>1, WorkerTyped DEF ReadCheckpoint, TypeOK, States
<1>3. ASSUME NEW w \in Workers, Plan(w) PROVE TypeOK'
  <2> DEFINE s == [Idle EXCEPT !.at = "planned", !.held = worker[w].held,
                               !.step = NextStep(worker[w].held.phase)]
  <2>1. worker[w].held \in Checkpoints /\ worker[w].held.phase \in Phases
    BY <1>0 DEF States, Checkpoints
  <2>2. NextStep(worker[w].held.phase) \in Steps
    BY <2>1, NextStepTyped
  <2>3. s \in States
    BY <2>1, <2>2, OpeningTyped DEF States, Stages, Idle
  <2>4. Becomes(w, s)  BY <1>3 DEF Plan
  <2> HIDE DEF s
  <2> QED  BY <1>0, <1>3, <2>3, <2>4, WorkerTyped DEF Plan, TypeOK, States
<1>4. ASSUME NEW w \in Workers, Refuse(w) PROVE TypeOK'
  <2>1. worker[w].held \in Checkpoints
    BY <1>0 DEF States
  <2>2. PICK why \in Refusals :
           Becomes(w, [Idle EXCEPT !.at = "refused", !.held = worker[w].held, !.step = why])
    BY <1>4 DEF Refuse, Refusals
  <2> DEFINE s == [Idle EXCEPT !.at = "refused", !.held = worker[w].held, !.step = why]
  <2>3. s \in States
    BY <2>1, OpeningTyped DEF States, Stages, Idle
  <2>4. Becomes(w, s)  BY <2>2
  <2> HIDE DEF s
  <2> QED  BY <1>0, <1>4, <2>3, <2>4, WorkerTyped DEF Refuse, TypeOK, States
<1>5. ASSUME NEW w \in Workers, Leave(w) PROVE TypeOK'
  BY <1>0, <1>5, OpeningTyped, WorkerTyped DEF Leave, TypeOK, States
<1>6. ASSUME NEW w \in Workers, Act(w) PROVE TypeOK'
  <2>1. [worker[w] EXCEPT !.at = "acted"] \in States
    BY <1>0 DEF States, Stages
  <2> QED  BY <1>0, <1>6, <2>1, WorkerTyped DEF Act, TypeOK, States
<1>7. ASSUME NEW w \in Workers, RecordAction(w) \/ CollectOrVerify(w) PROVE TypeOK'
  <2>1. [worker[w] EXCEPT !.at = "recorded"] \in States
    BY <1>0 DEF States, Stages
  <2>2. journal' \in Trails
    <3>1. PICK e \in Events : journal' = Append(journal, e)
      BY <1>0, <1>7, JournaledIsEvent
    <3> QED  BY <1>0, <3>1 DEF Trails
  <2> QED  BY <1>0, <1>7, <2>1, <2>2, WorkerTyped DEF RecordAction, CollectOrVerify, TypeOK, States
<1>8. ASSUME NEW w \in Workers, ReadJournal(w) PROVE TypeOK'
  <2>1. [worker[w] EXCEPT !.at = "advancing", !.read = journal] \in States
    BY <1>0 DEF States, Stages
  <2> QED  BY <1>0, <1>8, <2>1, WorkerTyped DEF ReadJournal, TypeOK, States
<1>9. ASSUME NEW w \in Workers, Put(w) PROVE TypeOK'
  <2>1. /\ worker[w].held.version \in Nat /\ worker[w].read \in Trails
        /\ worker[w].step \in Steps \cup Refusals
    BY <1>0 DEF States, Checkpoints
  <2>2. store' \in Checkpoints
    <3>1. PICK phase \in PhasesAfter(worker[w].step) :
             store' \in {store, Advanced(worker[w].held, phase, worker[w].read)}
      BY <1>9 DEF Put
    <3>2. phase \in Phases  BY <2>1, NextStepTyped
    <3>3. Advanced(worker[w].held, phase, worker[w].read) \in Checkpoints
      BY <2>1, <3>2 DEF Advanced, Checkpoint, Checkpoints
    <3> QED  BY <1>0, <3>1, <3>3
  <2> QED  BY <1>0, <1>9, <2>2, OpeningTyped, WorkerTyped DEF Put, TypeOK, States
<1>10. ASSUME NEW w \in Workers, Crash(w) PROVE TypeOK'
  BY <1>0, <1>10, OpeningTyped, WorkerTyped DEF Crash, TypeOK, States
<1>11. CASE LoseTail
  <2>1. PICK n \in 0..(Len(journal) - 1) : journal' = SubSeq(journal, 1, n)
    BY <1>11 DEF LoseTail
  <2>2. journal' \in Trails
    BY <1>0, <2>1 DEF Trails
  <2> QED  BY <1>0, <1>11, <2>2 DEF LoseTail
<1> QED
  BY <1>1, <1>2, <1>3, <1>4, <1>5, <1>6, <1>7, <1>8, <1>9, <1>10, <1>11 DEF Next, TypeOK, States

\* Every value the state takes has its type.
THEOREM TypeCorrect == Spec => []TypeOK
  BY TypeInit, TypeStep, PTL DEF Spec
-----------------------------------------------------------------------------
(* What a worker's own steps establish.                                      *)

\* What a step of worker w makes of it; the other workers are as they were.
Effect(w, at, held, read) ==
    /\ worker'[w].at = at /\ worker'[w].held = held /\ worker'[w].read = read
    /\ \A u \in Workers : u # w => worker'[u] = worker[u]

\* The steps that only change where a worker is.
Moves(w) == Act(w) \/ RecordAction(w) \/ CollectOrVerify(w) \/ ReadJournal(w)

\* The steps after which a worker starts over.
StartsOver(w) == Leave(w) \/ Put(w) \/ Crash(w)

WorkerStep(w) ==
    ReadCheckpoint(w) \/ Plan(w) \/ Refuse(w) \/ Moves(w) \/ StartsOver(w)

LEMMA NextCases ==
    ASSUME [Next]_vars
    PROVE  (\E w \in Workers : WorkerStep(w)) \/ LoseTail \/ UNCHANGED vars
  BY DEF Next, WorkerStep, Moves, StartsOver

LEMMA ReadCheckpointEffect ==
    ASSUME TypeOK, NEW w \in Workers, ReadCheckpoint(w)
    PROVE  Effect(w, "resuming", store, << >>)
<1> DEFINE s == [Idle EXCEPT !.at = "resuming", !.held = store]
<1>1. s.at = "resuming" /\ s.held = store /\ s.read = << >>
  BY DEF Idle
<1>2. Becomes(w, s)  BY DEF ReadCheckpoint
<1> HIDE DEF s
<1> QED  BY <1>1, <1>2 DEF Becomes, Effect, TypeOK

LEMMA PlanEffect ==
    ASSUME TypeOK, NEW w \in Workers, Plan(w)
    PROVE  /\ Effect(w, "planned", worker[w].held, << >>)
           /\ worker'[w].step = NextStep(worker[w].held.phase)
<1> DEFINE s == [Idle EXCEPT !.at = "planned", !.held = worker[w].held,
                             !.step = NextStep(worker[w].held.phase)]
<1>1. /\ s.at = "planned" /\ s.held = worker[w].held /\ s.read = << >>
      /\ s.step = NextStep(worker[w].held.phase)
  BY DEF Idle
<1>2. Becomes(w, s)  BY DEF Plan
<1> HIDE DEF s
<1> QED  BY <1>1, <1>2 DEF Becomes, Effect, TypeOK

LEMMA RefuseEffect ==
    ASSUME TypeOK, NEW w \in Workers, Refuse(w)
    PROVE  /\ Effect(w, "refused", worker[w].held, << >>)
           /\ Bound(worker[w].held, journal) /\ w \in Current =>
                 /\ worker'[w].step = "RE_EXECUTE"
                 /\ NextStep(worker[w].held.phase) = "EXECUTE"
<1>1. PICK why \in Refusals :
         /\ Becomes(w, [Idle EXCEPT !.at = "refused", !.held = worker[w].held, !.step = why])
         /\ Bound(worker[w].held, journal) /\ w \in Current =>
               why = "RE_EXECUTE" /\ WouldRepeat(worker[w].held, journal)
  BY DEF Refuse, Refusals
<1> DEFINE s == [Idle EXCEPT !.at = "refused", !.held = worker[w].held, !.step = why]
<1>2. s.at = "refused" /\ s.held = worker[w].held /\ s.read = << >> /\ s.step = why
  BY DEF Idle
<1>3. Becomes(w, s)  BY <1>1
<1> HIDE DEF s
<1> QED  BY <1>1, <1>2, <1>3 DEF Becomes, Effect, TypeOK, WouldRepeat

LEMMA MovesEffect ==
    ASSUME TypeOK, NEW w \in Workers, Moves(w)
    PROVE  /\ \E at \in {"acted", "recorded", "advancing"} :
                 Effect(w, at, worker[w].held, worker'[w].read)
           /\ worker'[w].step = worker[w].step
           /\ worker'[w].read \in {worker[w].read, journal}
<1>0. worker \in [Workers -> States]  BY DEF TypeOK, States
<1>1. CASE Act(w)
  BY <1>0, <1>1 DEF Act, Becomes, Effect, States
<1>2. CASE RecordAction(w)
  BY <1>0, <1>2 DEF RecordAction, Becomes, Effect, States
<1>3. CASE CollectOrVerify(w)
  BY <1>0, <1>3 DEF CollectOrVerify, Becomes, Effect, States
<1>4. CASE ReadJournal(w)
  BY <1>0, <1>4 DEF ReadJournal, Becomes, Effect, States
<1> QED  BY <1>1, <1>2, <1>3, <1>4 DEF Moves

LEMMA StartsOverEffect ==
    ASSUME TypeOK, NEW w \in Workers, StartsOver(w)
    PROVE  Effect(w, "idle", Opened, << >>)
<1>1. Becomes(w, Idle)  BY DEF StartsOver, Leave, Put, Crash
<1>2. Idle.at = "idle" /\ Idle.held = Opened /\ Idle.read = << >>  BY DEF Idle
<1> QED  BY <1>1, <1>2 DEF Becomes, Effect, TypeOK

LEMMA FollowsPlanStep ==
    ASSUME TypeOK, [Next]_vars, \A w \in Workers : FollowsPlan(w)
    PROVE  \A w \in Workers : FollowsPlan(w)'
<1>1. CASE LoseTail \/ UNCHANGED vars
  BY <1>1 DEF LoseTail, vars, FollowsPlan
<1>2. ASSUME NEW w \in Workers, WorkerStep(w), NEW u \in Workers PROVE FollowsPlan(u)'
  <2>0. FollowsPlan(u) /\ FollowsPlan(w)
    OBVIOUS
  <2>1. CASE u # w
    <3>1. worker'[u] = worker[u]
      BY <1>2, <2>1, ReadCheckpointEffect, PlanEffect, RefuseEffect, MovesEffect, StartsOverEffect
         DEF WorkerStep, Effect
    <3> QED  BY <2>0, <3>1 DEF FollowsPlan
  <2>2. CASE u = w
    <3>1. CASE ReadCheckpoint(w) \/ Refuse(w) \/ StartsOver(w)
      <4>1. worker'[w].at \in {"idle", "resuming", "refused"}
        BY <3>1, ReadCheckpointEffect, RefuseEffect, StartsOverEffect DEF Effect
      <4> QED  BY <2>2, <4>1 DEF FollowsPlan, Planning
    <3>2. CASE Plan(w)
      <4>1. worker'[w].at = "planned" /\ worker'[w].step = NextStep(worker'[w].held.phase)
        BY <3>2, PlanEffect DEF Effect
      <4> QED  BY <2>2, <4>1 DEF FollowsPlan
    <3>3. CASE Moves(w)
      <4>1. worker'[w].step = worker[w].step /\ worker'[w].held = worker[w].held
        BY <3>3, MovesEffect DEF Effect
      <4>2. worker[w].at \in Planning
        BY <3>3 DEF Moves, Act, RecordAction, CollectOrVerify, ReadJournal, Planning
      <4>3. worker[w].step # "NOTHING"
        BY <2>0, <3>3 DEF Moves, Act, RecordAction, CollectOrVerify, ReadJournal, FollowsPlan
      <4> QED  BY <2>0, <2>2, <4>1, <4>2, <4>3 DEF FollowsPlan
    <3> QED  BY <1>2, <3>1, <3>2, <3>3 DEF WorkerStep
  <2> QED  BY <2>1, <2>2
<1> QED  BY <1>1, <1>2, NextCases

\* The steps that change the counters and the store.
LEMMA Untouched ==
    ASSUME TypeOK, NEW w \in Workers, WorkerStep(w)
    PROVE  /\ performed' = IF Act(w) THEN performed + 1 ELSE performed
           /\ ~ Put(w) => store' = store
           /\ losses' = losses
<1>1. CASE Act(w)
  BY <1>1 DEF Act, Put
<1>2. CASE Put(w)
  BY <1>2 DEF Act, Put
<1>3. CASE ReadCheckpoint(w) \/ Plan(w) \/ Refuse(w) \/ Leave(w) \/ Crash(w)
  BY <1>3, <1>1 DEF ReadCheckpoint, Plan, Refuse, Leave, Crash
<1>4. CASE RecordAction(w) \/ CollectOrVerify(w) \/ ReadJournal(w)
  BY <1>4, <1>1 DEF RecordAction, CollectOrVerify, ReadJournal
<1> QED  BY <1>1, <1>2, <1>3, <1>4 DEF WorkerStep, Moves, StartsOver

LEMMA GroundedStep ==
    ASSUME TypeOK, [Next]_vars, \A w \in Workers : FollowsPlan(w), Grounded
    PROVE  Grounded'
<1>0. performed \in Nat
  BY DEF TypeOK
<1>1. CASE LoseTail \/ UNCHANGED vars
  BY <1>1 DEF LoseTail, vars, Grounded
<1>2. ASSUME NEW w \in Workers, WorkerStep(w) PROVE Grounded'
  <2>1. (performed > 0 => performed' > 0) /\ (Act(w) => performed' > 0)
    BY <1>0, <1>2, Untouched
  <2>2. \A u \in Workers : u # w => worker'[u] = worker[u]
    BY <1>2, ReadCheckpointEffect, PlanEffect, RefuseEffect, MovesEffect, StartsOverEffect
       DEF WorkerStep, Effect
  <2>3. store'.phase # "PLANNED" => performed' > 0
    <3>1. CASE Put(w)
      BY <2>1, <3>1 DEF Grounded, Put
    <3>2. CASE ~ Put(w)
      BY <1>2, <2>1, <3>2, Untouched DEF Grounded
    <3> QED  BY <3>1, <3>2
  <2>4. worker'[w].held \in {Opened, store, worker[w].held}
    BY <1>2, ReadCheckpointEffect, PlanEffect, RefuseEffect, MovesEffect, StartsOverEffect
       DEF WorkerStep, Effect
  <2>5. worker'[w].held.phase # "PLANNED" => performed' > 0
    <3>1. Opened.phase = "PLANNED"  BY DEF Opened, Checkpoint
    <3> QED  BY <2>1, <2>4, <3>1 DEF Grounded
  <2>6. worker'[w].at \in {"acted", "recorded", "advancing"} => performed' > 0
    <3>1. CASE Moves(w)
      <4>1. CASE Act(w)  BY <2>1, <4>1
      <4>2. CASE RecordAction(w) \/ ReadJournal(w)
        BY <2>1, <4>2 DEF RecordAction, ReadJournal, Grounded
      <4>3. CASE CollectOrVerify(w)
        <5>1. FollowsPlan(w)  OBVIOUS
        <5>2. worker[w].held.phase # "PLANNED"
          BY <4>3, <5>1 DEF CollectOrVerify, FollowsPlan, Planning, NextStep, MAY_EXECUTE, TERMINAL
        <5> QED  BY <2>1, <5>2 DEF Grounded
      <4> QED  BY <3>1, <4>1, <4>2, <4>3 DEF Moves
    <3>2. CASE ReadCheckpoint(w) \/ Plan(w) \/ Refuse(w) \/ StartsOver(w)
      <4>1. worker'[w].at \in {"idle", "resuming", "planned", "refused"}
        BY <3>2, ReadCheckpointEffect, PlanEffect, RefuseEffect, StartsOverEffect DEF Effect
      <4> QED  BY <4>1
    <3> QED  BY <1>2, <3>1, <3>2 DEF WorkerStep
  <2> QED  BY <2>1, <2>2, <2>3, <2>5, <2>6 DEF Grounded
<1> QED  BY <1>1, <1>2, NextCases

-----------------------------------------------------------------------------
(* The checkpoint store.                                                    *)

\* What is put builds on the stored checkpoint, from further on in the journal.
LEMMA PutBuilds ==
    ASSUME TypeOK, NEW w \in Workers, Put(w), store' # store
    PROVE  /\ store'.version = store.version + 1
           /\ worker[w].held.version = store.version
           /\ store'.trail = worker[w].read
           /\ Len(store'.trail) >= Len(worker[w].held.trail)
           /\ store'.phase \in PhasesAfter(worker[w].step)
<1>0. /\ worker[w].held.version \in Nat /\ store.version \in Nat
      /\ Len(worker[w].held.trail) \in Nat /\ Len(worker[w].read) \in Nat
  BY DEF TypeOK, Checkpoints, Trails
<1>1. PICK phase \in PhasesAfter(worker[w].step) :
         /\ store' = Advanced(worker[w].held, phase, worker[w].read)
         /\ ~ Behind(worker[w].held, worker[w].read)
         /\ BuildsOnStored(Advanced(worker[w].held, phase, worker[w].read))
  BY DEF Put
<1> QED  BY <1>0, <1>1, SMTT(30) DEF Advanced, Checkpoint, Behind, BuildsOnStored

LEMMA HeldStep ==
    ASSUME TypeOK, [Next]_vars, \A w \in Workers : HeldIsStoredOrOlder(w)
    PROVE  \A w \in Workers : HeldIsStoredOrOlder(w)'
<1>0. /\ store.version \in Nat
      /\ \A w \in Workers : worker[w].held.version \in Nat
  BY DEF TypeOK, Checkpoints
<1>1. CASE LoseTail \/ UNCHANGED vars
  BY <1>1 DEF LoseTail, vars, HeldIsStoredOrOlder
<1>2. ASSUME NEW w \in Workers, WorkerStep(w), NEW u \in Workers
      PROVE  HeldIsStoredOrOlder(u)'
  <2>0. HeldIsStoredOrOlder(u) /\ HeldIsStoredOrOlder(w)
    OBVIOUS
  <2>1. \A v \in Workers : v # w => worker'[v] = worker[v]
    BY <1>2, ReadCheckpointEffect, PlanEffect, RefuseEffect, MovesEffect, StartsOverEffect
       DEF WorkerStep, Effect
  <2>2. CASE u # w
    <3>1. worker'[u] = worker[u]  BY <2>1, <2>2
    <3>2. store' = store \/ store'.version = store.version + 1
      BY <1>2, PutBuilds, Untouched
    <3> QED  BY <1>0, <2>0, <3>1, <3>2 DEF HeldIsStoredOrOlder
  <2>3. CASE u = w
    <3>1. CASE StartsOver(w)
      BY <2>3, <3>1, StartsOverEffect DEF Effect, HeldIsStoredOrOlder
    <3>2. CASE ~ StartsOver(w)
      <4>1. store' = store
        BY <1>2, <3>2, Untouched DEF StartsOver
      <4>2. CASE ReadCheckpoint(w)
        <5>1. worker'[w].held = store  BY <4>2, ReadCheckpointEffect DEF Effect
        <5> QED  BY <1>0, <2>3, <4>1, <5>1 DEF HeldIsStoredOrOlder
      <4>3. CASE Plan(w) \/ Refuse(w) \/ Moves(w)
        <5>1. worker'[w].held = worker[w].held
          BY <4>3, PlanEffect, RefuseEffect, MovesEffect DEF Effect
        <5>2. worker[w].at # "idle"
          BY <4>3 DEF Plan, Refuse, Moves, Act, RecordAction, CollectOrVerify, ReadJournal
        <5> QED  BY <2>0, <2>3, <4>1, <5>1, <5>2 DEF HeldIsStoredOrOlder
      <4> QED  BY <1>2, <3>2, <4>2, <4>3 DEF WorkerStep
    <3> QED  BY <3>1, <3>2
  <2> QED  BY <2>2, <2>3
<1> QED  BY <1>1, <1>2, NextCases

-----------------------------------------------------------------------------
(* The journal, while nothing is lost.                                       *)

LEMMA NothingMissingStep ==
    ASSUME TypeOK, [Next]_vars, NothingMissing
    PROVE  NothingMissing'
<1>0. /\ journal \in Trails /\ losses \in Nat /\ store.trail \in Trails
      /\ \A w \in Workers : worker[w].held.trail \in Trails /\ worker[w].read \in Trails
      /\ Opening \in Trails /\ << >> \in Trails
  BY OpeningTyped DEF TypeOK, Checkpoints, Trails
<1>1. CASE UNCHANGED vars
  BY <1>1 DEF vars, NothingMissing
<1>2. CASE LoseTail
  BY <1>0, <1>2 DEF LoseTail, NothingMissing
<1>3. ASSUME NEW w \in Workers, WorkerStep(w), losses' = 0
      PROVE  /\ StartsWith(journal', Opening) /\ StartsWith(journal', store'.trail)
             /\ \A u \in Workers : /\ StartsWith(journal', worker'[u].held.trail)
                                   /\ StartsWith(journal', worker'[u].read)
  <2>0. losses = 0  BY <1>3, Untouched
  <2>1. ASSUME NEW t \in Trails, StartsWith(journal, t) PROVE StartsWith(journal', t)
    <3>1. CASE RecordAction(w) \/ CollectOrVerify(w)
      <4>1. PICK e \in Events : journal' = Append(journal, e)
        BY <1>0, <3>1, JournaledIsEvent
      <4> QED  BY <1>0, <2>1, <4>1, StartsWithAfterAppend
    <3>2. CASE ~ (RecordAction(w) \/ CollectOrVerify(w))
      <4>1. journal' = journal
        BY <1>3, <3>2 DEF WorkerStep, Moves, StartsOver, ReadCheckpoint, Plan, Refuse, Leave,
                          Act, ReadJournal, Put, Crash
      <4> QED  BY <2>1, <4>1
    <3> QED  BY <3>1, <3>2
  <2>2. StartsWith(journal', Opening) /\ StartsWith(journal', << >>)
    <3>1. StartsWith(journal, << >>)  BY <1>0, StartsWithSelfAndEmpty
    <3> QED  BY <1>0, <2>0, <2>1, <3>1 DEF NothingMissing
  <2>3. StartsWith(journal', store'.trail)
    <3>1. CASE store' = store
      BY <1>0, <2>0, <2>1, <3>1 DEF NothingMissing
    <3>2. CASE store' # store
      <4>1. store'.trail = worker[w].read
        BY <1>3, <3>2, PutBuilds, Untouched
      <4> QED  BY <1>0, <2>0, <2>1, <4>1 DEF NothingMissing
    <3> QED  BY <3>1, <3>2
  <2>4. ASSUME NEW u \in Workers
        PROVE  StartsWith(journal', worker'[u].held.trail) /\ StartsWith(journal', worker'[u].read)
    <3>1. CASE u # w
      <4>1. worker'[u] = worker[u]
        BY <1>3, <3>1, ReadCheckpointEffect, PlanEffect, RefuseEffect, MovesEffect,
           StartsOverEffect DEF WorkerStep, Effect
      <4> QED  BY <1>0, <2>0, <2>1, <4>1 DEF NothingMissing
    <3>2. CASE u = w
      <4>1. worker'[w].held \in {Opened, store, worker[w].held}
        BY <1>3, ReadCheckpointEffect, PlanEffect, RefuseEffect, MovesEffect, StartsOverEffect
           DEF WorkerStep, Effect
      <4>2. worker'[w].read \in {<< >>, worker[w].read, journal}
        BY <1>3, ReadCheckpointEffect, PlanEffect, RefuseEffect, MovesEffect, StartsOverEffect
           DEF WorkerStep, Effect
      <4>3. Opened.trail = Opening  BY DEF Opened, Checkpoint
      <4>4. StartsWith(journal, journal)  BY <1>0, StartsWithSelfAndEmpty
      <4>5. StartsWith(journal', worker'[w].held.trail)
        BY <1>0, <2>0, <2>1, <2>2, <4>1, <4>3 DEF NothingMissing
      <4>6. StartsWith(journal', worker'[w].read)
        BY <1>0, <2>0, <2>1, <2>2, <4>2, <4>4 DEF NothingMissing
      <4> QED  BY <3>2, <4>5, <4>6
    <3> QED  BY <3>1, <3>2
  <2> QED  BY <2>2, <2>3, <2>4
<1>4. ASSUME NEW w \in Workers, WorkerStep(w) PROVE NothingMissing'
  BY <1>3, <1>4 DEF NothingMissing
<1> QED  BY <1>1, <1>2, <1>4, NextCases

LEMMA NoFalseAlarmStep ==
    ASSUME TypeOK, [Next]_vars, NothingMissing, NoFalseAlarm
    PROVE  NoFalseAlarm'
<1>1. CASE UNCHANGED vars
  BY <1>1 DEF vars, NoFalseAlarm
<1>2. CASE LoseTail
  BY <1>2 DEF LoseTail, NoFalseAlarm, TypeOK
<1>3. ASSUME NEW w \in Workers, WorkerStep(w), losses' = 0,
             NEW u \in Workers, worker'[u].at = "refused"
      PROVE  \/ u \notin Current
             \/ worker'[u].step = "RE_EXECUTE" /\ worker'[u].held.phase = "PLANNED"
  <2>0. losses = 0  BY <1>3, Untouched
  <2>1. CASE u # w
    <3>1. worker'[u] = worker[u]
      BY <1>3, <2>1, ReadCheckpointEffect, PlanEffect, RefuseEffect, MovesEffect,
         StartsOverEffect DEF WorkerStep, Effect
    <3> QED  BY <1>3, <2>0, <3>1 DEF NoFalseAlarm
  <2>2. CASE u = w
    <3>1. Refuse(w)
      BY <1>3, <2>2, ReadCheckpointEffect, PlanEffect, MovesEffect, StartsOverEffect
         DEF WorkerStep, Effect
    <3>2. Bound(worker[w].held, journal)
      BY <2>0 DEF NothingMissing, StartsWith, Bound
    <3>3. CASE w \in Current
      <4>1. worker'[w].step = "RE_EXECUTE" /\ NextStep(worker[w].held.phase) = "EXECUTE"
        BY <3>1, <3>2, <3>3, RefuseEffect
      <4>2. worker'[w].held.phase = "PLANNED"
        <5>1. worker'[w].held = worker[w].held  BY <3>1, RefuseEffect DEF Effect
        <5> QED  BY <4>1, <5>1 DEF NextStep, MAY_EXECUTE, TERMINAL
      <4> QED  BY <2>2, <4>1, <4>2
    <3>4. CASE w \notin Current
      BY <2>2, <3>4
    <3> QED  BY <3>3, <3>4
  <2> QED  BY <2>1, <2>2
<1>4. ASSUME NEW w \in Workers, WorkerStep(w) PROVE NoFalseAlarm'
  BY <1>3, <1>4 DEF NoFalseAlarm
<1> QED  BY <1>1, <1>2, <1>4, NextCases

-----------------------------------------------------------------------------
(* How often the action ran.                                                 *)

\* Sets of workers are counted: a worker more, a worker less, two apart in a third.
LEMMA Workforce ==
    ASSUME NEW A \in SUBSET Workers
    PROVE  /\ Cardinality(A) \in Nat
           /\ \A w \in Workers :
                 /\ w \notin A => Cardinality(A \cup {w}) = Cardinality(A) + 1
                 /\ w \in A => Cardinality(A \ {w}) = Cardinality(A) - 1
                 /\ Cardinality(A \ {w}) <= Cardinality(A)
           /\ \A R, C \in SUBSET Workers :
                 A \cup R \subseteq C /\ A \cap R = {} =>
                     Cardinality(A) + Cardinality(R) <= Cardinality(C)
<1>1. \A B \in SUBSET Workers : IsFiniteSet(B) /\ Cardinality(B) \in Nat
  BY ContinuityAssumption, FS_Subset, FS_CardinalityType
<1>2. ASSUME NEW w \in Workers
      PROVE  /\ w \notin A => Cardinality(A \cup {w}) = Cardinality(A) + 1
             /\ w \in A => Cardinality(A \ {w}) = Cardinality(A) - 1
             /\ Cardinality(A \ {w}) <= Cardinality(A)
  BY <1>1, FS_AddElement, FS_RemoveElement
<1>3. ASSUME NEW R \in SUBSET Workers, NEW C \in SUBSET Workers,
             A \cup R \subseteq C, A \cap R = {}
      PROVE  Cardinality(A) + Cardinality(R) <= Cardinality(C)
  <2>1. IsFiniteSet(A) /\ IsFiniteSet(R) /\ IsFiniteSet(C)
    BY <1>1
  <2>2. Cardinality(A \cup R) = Cardinality(A) + Cardinality(R) - Cardinality(A \cap R)
    BY <2>1, FS_Union
  <2>3. Cardinality(A \cap R) = 0
    BY <1>3, FS_EmptySet
  <2>4. Cardinality(A \cup R) <= Cardinality(C)
    BY <1>3, <2>1, FS_Subset
  <2>5. /\ Cardinality(A) \in Nat /\ Cardinality(R) \in Nat /\ Cardinality(C) \in Nat
        /\ Cardinality(A \cup R) \in Nat
    BY <1>1
  <2>. QED  BY <2>2, <2>3, <2>4, <2>5
<1>. QED  BY <1>1, <1>2, <1>3

LEMMA RecordedAfterAppend ==
    ASSUME NEW j \in Trails, NEW e \in Events
    PROVE  ActionRecorded(Append(j, e)) <=> ActionRecorded(j) \/ e.status = "ACTION_EXECUTED"
<1>1. Len(j) \in Nat /\ DOMAIN j = 1 .. Len(j) /\ j \in Seq(Events)
  BY DEF Trails
<1>. DEFINE k == Append(j, e)
<1>2. /\ DOMAIN k = 1 .. Len(j) + 1 /\ k[Len(j) + 1] = e
      /\ \A i \in 1 .. Len(j) : k[i] = j[i]
  BY <1>1
<1>. HIDE DEF k
<1>3. ActionRecorded(k) <=> ActionRecorded(j) \/ e.status = "ACTION_EXECUTED"
  BY <1>1, <1>2 DEF ActionRecorded
<1>. QED  BY <1>3 DEF k

\* Where the step of worker w leaves it among those who act.
LEMMA Roles ==
    ASSUME TypeOK, NEW w \in Workers, WorkerStep(w)
    PROVE  /\ \A u \in Workers \ {w} :
                  (u \in Ready' <=> u \in Ready) /\ (u \in Acting' <=> u \in Acting)
           /\ w \in Ready' => Plan(w) /\ w \in Current /\ ~ ActionRecorded(journal)
           /\ w \in Acting' <=> Act(w)
           /\ Act(w) => w \in Ready /\ w \notin Acting
           /\ RecordAction(w) => w \in Acting
           /\ w \in Acting => RecordAction(w) \/ Crash(w)
<1>0. worker \in [Workers -> States]
  BY DEF TypeOK, States
<1>1. \A u \in Workers : u # w => worker'[u] = worker[u]
  BY ReadCheckpointEffect, PlanEffect, RefuseEffect, MovesEffect, StartsOverEffect
     DEF WorkerStep, Effect
<1>2. /\ ReadCheckpoint(w) => worker'[w].at = "resuming"
      /\ Plan(w) => worker'[w].at = "planned"
      /\ Refuse(w) => worker'[w].at = "refused"
      /\ StartsOver(w) => worker'[w].at = "idle"
  BY ReadCheckpointEffect, PlanEffect, RefuseEffect, StartsOverEffect DEF Effect
<1>3. /\ Act(w) => worker'[w].at = "acted"
      /\ RecordAction(w) => worker'[w].at = "recorded"
      /\ CollectOrVerify(w) => worker'[w].at = "recorded"
      /\ ReadJournal(w) => worker'[w].at = "advancing"
  BY <1>0 DEF Act, RecordAction, CollectOrVerify, ReadJournal, Becomes, States
<1>4. ASSUME Plan(w), worker'[w].step = "EXECUTE"
      PROVE  w \in Current /\ ~ ActionRecorded(journal)
  BY <1>4, PlanEffect DEF Plan, WouldRepeat
<1>5. w \in Acting' <=> Act(w)
  <2>1. w \in Acting' <=> worker'[w].at = "acted"
    BY DEF Acting
  <2>2. worker'[w].at = "acted" => Act(w)
    BY <1>2, <1>3 DEF WorkerStep, Moves
  <2>. QED  BY <1>3, <2>1, <2>2
<1>6. w \in Ready' => Plan(w) /\ w \in Current /\ ~ ActionRecorded(journal)
  <2>1. w \in Ready' <=> worker'[w].at = "planned" /\ worker'[w].step = "EXECUTE"
    BY DEF Ready
  <2>2. worker'[w].at = "planned" => Plan(w)
    BY <1>2, <1>3 DEF WorkerStep, Moves
  <2>. QED  BY <1>4, <2>1, <2>2
<1>7. /\ Act(w) => w \in Ready /\ w \notin Acting
      /\ RecordAction(w) => w \in Acting
  BY DEF Act, RecordAction, Ready, Acting
<1>8. w \in Acting => RecordAction(w) \/ Crash(w)
  BY DEF Acting, WorkerStep, Moves, StartsOver, ReadCheckpoint, Plan, Refuse, Act,
         CollectOrVerify, ReadJournal, Leave, Put
<1>9. \A u \in Workers \ {w} : (u \in Ready' <=> u \in Ready) /\ (u \in Acting' <=> u \in Acting)
  BY <1>1 DEF Ready, Acting
<1>. QED  BY <1>5, <1>6, <1>7, <1>8, <1>9

\* What the step does to the journal and to the counters.
LEMMA Tallies ==
    ASSUME TypeOK, NEW w \in Workers, WorkerStep(w)
    PROVE  /\ losses' = losses
           /\ performed' = IF Act(w) THEN performed + 1 ELSE performed
           /\ unrecorded' = IF Crash(w) /\ w \in Acting THEN unrecorded + 1 ELSE unrecorded
           /\ ActionRecorded(journal') <=> ActionRecorded(journal) \/ RecordAction(w)
<1>1. losses' = losses /\ performed' = IF Act(w) THEN performed + 1 ELSE performed
  BY Untouched
<1>2. unrecorded' = IF Crash(w) /\ w \in Acting THEN unrecorded + 1 ELSE unrecorded
  <2>1. CASE Crash(w)
    BY <2>1 DEF Crash, Acting
  <2>2. CASE ~ Crash(w)
    BY <2>2 DEF WorkerStep, Moves, StartsOver, ReadCheckpoint, Plan, Refuse, Act,
                RecordAction, CollectOrVerify, ReadJournal, Leave, Put
  <2>. QED  BY <2>1, <2>2
<1>3. ActionRecorded(journal') <=> ActionRecorded(journal) \/ RecordAction(w)
  <2>0. journal \in Trails /\ losses \in Nat
    BY DEF TypeOK
  <2>1. CASE RecordAction(w)
    <3>1. PICK e : e = [status |-> "ACTION_EXECUTED", life |-> losses]
      OBVIOUS
    <3>2. e \in Events /\ e.status = "ACTION_EXECUTED" /\ journal' = Append(journal, e)
      BY <2>0, <2>1, <3>1 DEF RecordAction, Journal, Events
    <3>3. PICK j \in Trails : j = journal
      BY <2>0
    <3>4. ActionRecorded(Append(j, e))
      BY <3>2, RecordedAfterAppend
    <3>. QED  BY <2>1, <3>2, <3>3, <3>4
  <2>2. CASE CollectOrVerify(w)
    <3>1. PICK e : e = [status |-> "RECORDED", life |-> losses]
      OBVIOUS
    <3>2. e \in Events /\ e.status # "ACTION_EXECUTED" /\ journal' = Append(journal, e)
      BY <2>0, <2>2, <3>1 DEF CollectOrVerify, Journal, Events
    <3>3. PICK j \in Trails : j = journal
      BY <2>0
    <3>4. ActionRecorded(Append(j, e)) <=> ActionRecorded(j)
      BY <3>2, RecordedAfterAppend
    <3>5. ~ RecordAction(w)
      BY <2>2 DEF CollectOrVerify, RecordAction
    <3>. QED  BY <3>2, <3>3, <3>4, <3>5
  <2>3. CASE ~ RecordAction(w) /\ ~ CollectOrVerify(w)
    <3>1. journal' = journal
      BY <2>3 DEF WorkerStep, Moves, StartsOver, ReadCheckpoint, Plan, Refuse, Leave,
                  Act, ReadJournal, Put, Crash
    <3>. QED  BY <2>3, <3>1
  <2>. QED  BY <2>1, <2>2, <2>3
<1>. QED  BY <1>1, <1>2, <1>3

LEMMA CountedStep ==
    ASSUME TypeOK, [Next]_vars, Counted
    PROVE  Counted'
<1>1. CASE UNCHANGED vars
  BY <1>1 DEF vars, Counted, Ready, Acting
<1>2. CASE LoseTail
  <2>1. losses' # 0
    BY <1>2 DEF LoseTail, TypeOK
  <2>. QED  BY <2>1 DEF Counted
<1>3. ASSUME NEW w \in Workers, WorkerStep(w), losses' = 0
      PROVE  /\ (Ready \cup Acting)' \subseteq Current
             /\ ~ ActionRecorded(journal') => performed' <= Cardinality(Acting') + unrecorded'
             /\ ActionRecorded(journal') =>
                   performed' + Cardinality(Ready') <= Cardinality(Current) + unrecorded'
  <2>1. PICK R \in SUBSET Workers, A \in SUBSET Workers,
             R2 \in SUBSET Workers, A2 \in SUBSET Workers :
                 R = Ready /\ A = Acting /\ R2 = Ready' /\ A2 = Acting'
    BY DEF Ready, Acting
  <2>2. Current \in SUBSET Workers /\ Cardinality(Current) \in Nat
    BY ContinuityAssumption, Workforce
  <2>3. /\ performed \in Nat /\ unrecorded \in Nat
        /\ Cardinality(R) \in Nat /\ Cardinality(A) \in Nat
        /\ Cardinality(R2) \in Nat /\ Cardinality(A2) \in Nat
    BY Workforce DEF TypeOK
  <2>4. /\ losses = 0
        /\ performed' = IF Act(w) THEN performed + 1 ELSE performed
        /\ unrecorded' = IF Crash(w) /\ w \in A THEN unrecorded + 1 ELSE unrecorded
        /\ ActionRecorded(journal') <=> ActionRecorded(journal) \/ RecordAction(w)
    BY <1>3, <2>1, Tallies
  <2>5. /\ R \cup A \subseteq Current
        /\ ~ ActionRecorded(journal) => performed <= Cardinality(A) + unrecorded
        /\ ActionRecorded(journal) => performed + Cardinality(R) <= Cardinality(Current) + unrecorded
    BY <2>1, <2>4 DEF Counted
  <2>6. /\ \A u \in Workers \ {w} : (u \in R2 <=> u \in R) /\ (u \in A2 <=> u \in A)
        /\ w \in R2 => Plan(w) /\ w \in Current /\ ~ ActionRecorded(journal)
        /\ w \in A2 <=> Act(w)
        /\ Act(w) => w \in R /\ w \notin A
        /\ RecordAction(w) => w \in A
        /\ w \in A => RecordAction(w) \/ Crash(w)
    BY <1>3, <2>1, Roles
  <2>7. A \cap R = {}
    BY <2>1 DEF Ready, Acting
  <2>8. R2 \cup A2 \subseteq Current
    BY <2>5, <2>6
  <2>9. /\ Act(w) => A2 = A \cup {w}
        /\ ~ Act(w) => A2 = A \ {w}
        /\ w \notin R2 => R2 = R \ {w}
    BY <2>6
  <2>10. /\ Act(w) => Cardinality(A2) = Cardinality(A) + 1
         /\ ~ Act(w) /\ w \in A => Cardinality(A2) = Cardinality(A) - 1
         /\ w \notin A /\ ~ Act(w) => A2 = A
    BY <2>6, <2>9, Workforce
  <2>11. /\ w \notin R2 /\ w \in R => Cardinality(R2) = Cardinality(R) - 1
         /\ w \notin R2 => Cardinality(R2) <= Cardinality(R)
    BY <2>9, Workforce
  <2>12. Cardinality(A) + Cardinality(R) <= Cardinality(Current)
    BY <2>2, <2>5, <2>7, Workforce
  <2>13. Act(w) => w \notin R2 /\ ~ RecordAction(w)
    <3>1. Act(w) => ~ Plan(w) /\ ~ RecordAction(w)
      BY DEF Act, Plan, RecordAction
    <3>. QED  BY <2>6, <3>1
  <2>14. ~ ActionRecorded(journal') => performed' <= Cardinality(A2) + unrecorded'
    <3>. SUFFICES ASSUME ~ ActionRecorded(journal')
                  PROVE  performed' <= Cardinality(A2) + unrecorded'
      OBVIOUS
    <3>1. ~ ActionRecorded(journal) /\ ~ RecordAction(w)
      BY <2>4
    <3>2. CASE Act(w)
      BY <2>3, <2>4, <2>5, <2>6, <2>10, <3>1, <3>2
    <3>3. CASE ~ Act(w) /\ w \in A
      BY <2>3, <2>4, <2>5, <2>6, <2>10, <3>1, <3>3
    <3>4. CASE ~ Act(w) /\ w \notin A
      BY <2>3, <2>4, <2>5, <2>10, <3>1, <3>4
    <3>. QED  BY <3>2, <3>3, <3>4
  <2>15. ActionRecorded(journal') =>
            performed' + Cardinality(R2) <= Cardinality(Current) + unrecorded'
    <3>. SUFFICES ASSUME ActionRecorded(journal')
                  PROVE  performed' + Cardinality(R2) <= Cardinality(Current) + unrecorded'
      OBVIOUS
    <3>0. unrecorded' \in Nat /\ unrecorded' >= unrecorded
      BY <2>3, <2>4
    <3>1. CASE ActionRecorded(journal)
      <4>1. w \notin R2
        BY <2>6, <3>1
      <4>2. CASE Act(w)
        BY <2>2, <2>3, <2>4, <2>5, <2>6, <2>11, <3>0, <3>1, <4>1, <4>2
      <4>3. CASE ~ Act(w)
        BY <2>2, <2>3, <2>4, <2>5, <2>11, <3>0, <3>1, <4>1, <4>3
      <4>. QED  BY <4>2, <4>3
    <3>2. CASE ~ ActionRecorded(journal)
      <4>1. RecordAction(w)
        BY <2>4, <3>2
      <4>2. ~ Act(w) /\ ~ Plan(w)
        BY <4>1 DEF RecordAction, Act, Plan
      <4>3. Cardinality(R2) <= Cardinality(R)
        BY <2>6, <2>11, <4>2
      <4>. QED  BY <2>2, <2>3, <2>4, <2>5, <2>12, <3>0, <3>2, <4>2, <4>3
    <3>. QED  BY <3>1, <3>2
  <2>. QED  BY <2>1, <2>8, <2>14, <2>15
<1>4. ASSUME NEW w \in Workers, WorkerStep(w) PROVE Counted'
  BY <1>3, <1>4 DEF Counted
<1>. QED  BY <1>1, <1>2, <1>4, NextCases

-----------------------------------------------------------------------------
(* The theorems.                                                            *)

LEMMA InvInit == Init => Inv
<1> SUFFICES ASSUME Init PROVE Inv
  OBVIOUS
<1>1. TypeOK  BY TypeInit
<1>2. /\ Opened.phase = "PLANNED" /\ Opened.trail = Opening
      /\ Idle.at = "idle" /\ Idle.held = Opened /\ Idle.read = << >>
  BY DEF Opened, Checkpoint, Idle
<1>3. \A w \in Workers : worker[w] = Idle
  BY DEF Init
<1>4. Grounded
  BY <1>2, <1>3 DEF Init, Grounded
<1>5. \A w \in Workers : FollowsPlan(w) /\ HeldIsStoredOrOlder(w)
  BY <1>2, <1>3 DEF FollowsPlan, HeldIsStoredOrOlder, Planning
<1>6. NothingMissing
  <2>1. StartsWith(Opening, Opening) /\ StartsWith(Opening, << >>)
    BY OpeningTyped, StartsWithSelfAndEmpty
  <2> QED  BY <1>2, <1>3, <2>1 DEF Init, NothingMissing
<1>7. NoFalseAlarm
  BY <1>2, <1>3 DEF NoFalseAlarm
<1>8. Counted
  <2>1. ~ ActionRecorded(journal)
    <3>1. PICK start : start = [status |-> "STARTED", life |-> 0]
      OBVIOUS
    <3>2. journal = <<start>> /\ start.status = "STARTED"
      BY <3>1 DEF Init, Opening
    <3>3. DOMAIN journal = {1} /\ journal[1] = start
      BY <3>2
    <3>. QED  BY <3>2, <3>3 DEF ActionRecorded
  <2>2. Ready = {} /\ Acting = {}
    BY <1>2, <1>3 DEF Ready, Acting
  <2>3. Cardinality(Acting) = 0
    BY <2>2, FS_EmptySet
  <2>. QED  BY <2>1, <2>2, <2>3 DEF Counted, Init
<1> QED  BY <1>1, <1>4, <1>5, <1>6, <1>7, <1>8 DEF Inv

LEMMA InvStep == Inv /\ [Next]_vars => Inv'
<1> SUFFICES ASSUME Inv, [Next]_vars PROVE Inv'
  OBVIOUS
<1>1. /\ TypeOK /\ Grounded /\ NothingMissing /\ NoFalseAlarm /\ Counted
      /\ \A w \in Workers : FollowsPlan(w)
      /\ \A w \in Workers : HeldIsStoredOrOlder(w)
  BY DEF Inv
<1>2. TypeOK'  BY <1>1, TypeStep
<1>3. Grounded'  BY <1>1, GroundedStep
<1>4. \A w \in Workers : FollowsPlan(w)'  BY <1>1, FollowsPlanStep
<1>5. \A w \in Workers : HeldIsStoredOrOlder(w)'  BY <1>1, HeldStep
<1>6. NothingMissing'  BY <1>1, NothingMissingStep
<1>7. NoFalseAlarm'  BY <1>1, NoFalseAlarmStep
<1>8. Counted'  BY <1>1, CountedStep
<1> QED  BY <1>2, <1>3, <1>4, <1>5, <1>6, <1>7, <1>8 DEF Inv

THEOREM Invariance == Spec => []Inv
  BY InvInit, InvStep, PTL DEF Spec

\* No worker collects for, verifies or finds finished what was never done.
THEOREM CollectionFollowsAction == Spec => []CollectsOnlyForActions
<1>1. Inv => CollectsOnlyForActions
  <2> SUFFICES ASSUME Inv, NEW w \in Workers, worker[w].at = "planned",
                      worker[w].step # "EXECUTE"
               PROVE  performed > 0
    BY DEF CollectsOnlyForActions
  <2>1. worker[w].held.phase # "PLANNED"
    BY DEF Inv, FollowsPlan, Planning, NextStep, MAY_EXECUTE, TERMINAL
  <2> QED  BY <2>1 DEF Inv, Grounded
<1> QED  BY <1>1, Invariance, PTL

\* resume() calls no trail lost that is not, and nobody a repeater past PLANNED.
THEOREM AlarmsAreTrue == Spec => []NoFalseAlarm
<1>1. Inv => NoFalseAlarm  BY DEF Inv
<1> QED  BY <1>1, Invariance, PTL

\* While the journal keeps what it was given, the action ran at most once for each
\* worker with the pinned agents and once more for each death before its record.
THEOREM RepeatsAreOfDeaths == Spec => []RepeatsAreUnrecorded
<1>1. Inv => RepeatsAreUnrecorded
  <2>. SUFFICES ASSUME Inv, losses = 0
                PROVE  performed <= Cardinality(Current) + unrecorded
    BY DEF RepeatsAreUnrecorded
  <2>1. PICK R \in SUBSET Workers, A \in SUBSET Workers : R = Ready /\ A = Acting
    BY DEF Ready, Acting
  <2>2. /\ performed \in Nat /\ unrecorded \in Nat /\ Current \in SUBSET Workers
        /\ Cardinality(R) \in Nat /\ Cardinality(A) \in Nat /\ Cardinality(Current) \in Nat
    BY ContinuityAssumption, Workforce DEF Inv, TypeOK
  <2>3. Cardinality(A) + Cardinality(R) <= Cardinality(Current)
    <3>1. A \cup R \subseteq Current /\ A \cap R = {}
      BY <2>1 DEF Inv, Counted, Ready, Acting
    <3>. QED  BY <2>2, <3>1, Workforce
  <2>. QED  BY <2>1, <2>2, <2>3 DEF Inv, Counted
<1>. QED  BY <1>1, Invariance, PTL

\* Every commit builds on the stored checkpoint and moves it on.
THEOREM CheckpointAdvances == Spec => CheckpointOnlyAdvances
<1> DEFINE Commit == store' # store =>
                       /\ store'.version = store.version + 1
                       /\ Len(store'.trail) >= Len(store.trail)
                       /\ store'.phase \notin MAY_EXECUTE
                       /\ store.phase \notin TERMINAL
<1>1. ASSUME Inv, [Next]_vars PROVE [Commit]_vars
  <2> SUFFICES ASSUME store' # store
               PROVE  /\ store'.version = store.version + 1
                      /\ Len(store'.trail) >= Len(store.trail)
                      /\ store'.phase \notin MAY_EXECUTE
                      /\ store.phase \notin TERMINAL
    OBVIOUS
  <2>0. TypeOK  BY <1>1 DEF Inv
  <2>1. PICK w \in Workers : WorkerStep(w)
    BY <1>1, NextCases DEF LoseTail, vars
  <2>2. Put(w)  BY <2>0, <2>1, Untouched
  <2>3. worker[w].at = "advancing"  BY <2>2 DEF Put
  <2>4. worker[w].held = store
    <3>1. worker[w].held.version = store.version  BY <2>0, <2>2, PutBuilds
    <3> QED  BY <1>1, <2>3, <3>1 DEF Inv, HeldIsStoredOrOlder
  <2>5. worker[w].step = NextStep(store.phase) /\ worker[w].step # "NOTHING"
    BY <1>1, <2>3, <2>4 DEF Inv, FollowsPlan, Planning
  <2>6. store.phase \notin TERMINAL
    BY <2>5 DEF NextStep, TERMINAL, MAY_EXECUTE
  <2>7. store'.phase \notin MAY_EXECUTE
    <3>1. worker[w].step \in Steps \cup Refusals  BY <2>0 DEF TypeOK
    <3> QED  BY <2>0, <2>2, <3>1, PutBuilds, NextStepTyped
  <2> QED  BY <2>0, <2>2, <2>4, <2>6, <2>7, PutBuilds
<1>2. Inv /\ [Next]_vars => [Commit]_vars
  BY <1>1
<1> QED  BY <1>2, Invariance, PTL DEF Spec, CheckpointOnlyAdvances
=============================================================================
