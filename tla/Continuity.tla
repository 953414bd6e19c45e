----------------------------- MODULE Continuity -----------------------------
(***************************************************************************)
(* One operation that outlives the processes working on it                   *)
(* (src/proofos/continuity.py and resume.py): its checkpoint in a            *)
(* compare-and-set store, the journal of its execution, and workers, each a  *)
(* process that resumes the operation, takes the one step the plan allows,    *)
(* journals it and advances the checkpoint, as the tests drive them           *)
(* (src/tests/test_fleet_continuity.py).                                      *)
(*                                                                         *)
(* A worker may die between any two steps, and the journal's tail may be      *)
(* lost.  An event's content hash covers its predecessors (JournalChain), so  *)
(* the position and the hash in a checkpoint are the trail up to there.       *)
(* The digest of the requirements and the assignment covers what no step      *)
(* changes.                                                                   *)
(***************************************************************************)
EXTENDS Integers, Sequences, FiniteSets

CONSTANTS Workers,
          Current,     \* the workers whose catalog has the pinned agents
          MaxEvents,   \* bound on the journal when a worker collects or verifies
          MaxCrashes,  \* bound on the deaths of workers
          MaxLosses    \* bound on the losses of the journal's tail

ASSUME ContinuityAssumption ==
    /\ IsFiniteSet(Workers) /\ Current \subseteq Workers
    /\ MaxEvents \in Nat /\ MaxCrashes \in Nat /\ MaxLosses \in Nat

VARIABLES journal,    \* the execution's events
          store,      \* the operation's checkpoint
          worker,     \* what each worker is at
          performed,  \* how often the action ran
          unrecorded, \* how often a worker died between the action and its record
          crashes,
          losses

vars == <<journal, store, worker, performed, unrecorded, crashes, losses>>

Phases == {"PLANNED", "ACTION_COMPLETE", "AWAITING_INDEPENDENT_EVIDENCE",
           "VERIFYING", "COMPLETED", "ABSTAINED"}
MAY_EXECUTE == {"PLANNED"}
TERMINAL == {"COMPLETED", "ABSTAINED"}

\* An event, written in a life of the journal: after a loss nothing hashes as before.
Events == [status : {"STARTED", "ACTION_EXECUTED", "RECORDED"}, life : Nat]

Trails == Seq(Events)

Checkpoint(phase, version, trail) == [phase |-> phase, version |-> version, trail |-> trail]

Checkpoints == [phase : Phases, version : Nat, trail : Trails]

\* open_operation, after EXECUTION_START.
Opening == <<[status |-> "STARTED", life |-> 0]>>
Opened == Checkpoint("PLANNED", 1, Opening)

Steps == {"EXECUTE", "COLLECT", "VERIFY", "NOTHING"}
Refusals == {"UNBOUND", "AGENT_VERSION_UNAVAILABLE", "RE_EXECUTE"}

\* A worker: where it is, the checkpoint it has read, the step or the refusal
\* resume() gave it, and the events it read afterwards to advance.
Idle == [at |-> "idle", held |-> Opened, read |-> << >>, step |-> "NOTHING"]

Stages == {"idle", "resuming", "planned", "acted", "recorded", "advancing", "refused"}

Init ==
    /\ journal = Opening
    /\ store = Opened
    /\ worker = [w \in Workers |-> Idle]
    /\ performed = 0 /\ unrecorded = 0 /\ crashes = 0 /\ losses = 0

Becomes(w, state) == worker' = [worker EXCEPT ![w] = state]

-----------------------------------------------------------------------------
(* resume(): the checkpoint is read, then the journal, then they are compared. *)

ReadCheckpoint(w) ==
    /\ worker[w].at = "idle"
    /\ Becomes(w, [Idle EXCEPT !.at = "resuming", !.held = store])
    /\ UNCHANGED <<journal, store, performed, unrecorded, crashes, losses>>

HashAt(trail, n) == SubSeq(trail, 1, n)

\* Variant for the mutation checks: the checkpoint must name the last event.
BoundToHead(held, events) ==
    Len(held.trail) = Len(events) /\ HashAt(events, Len(held.trail)) = held.trail

\* _check_binding: the journal reaches the checkpoint's position and has the
\* event there that the checkpoint names.
Bound(held, events) ==
    /\ Len(held.trail) <= Len(events)
    /\ HashAt(events, Len(held.trail)) = HashAt(held.trail, Len(held.trail))

\* count_actions() > 0.
ActionRecorded(events) == \E i \in DOMAIN events : events[i].status = "ACTION_EXECUTED"

\* Variant for the mutation checks: whatever is not terminal is collected for.
CollectNext(phase) == IF phase \in TERMINAL THEN "NOTHING" ELSE "COLLECT"

NextStep(phase) ==
    CASE phase \in TERMINAL -> "NOTHING"
      [] phase \in MAY_EXECUTE -> "EXECUTE"
      [] phase = "VERIFYING" -> "VERIFY"
      [] OTHER -> "COLLECT"

\* Variant for the mutation checks: the checkpoint is taken at its word.
PhaseRules(held, events) == FALSE

\* "Belt and braces": the journal records what the phase would do again.
WouldRepeat(held, events) == NextStep(held.phase) = "EXECUTE" /\ ActionRecorded(events)

Plan(w) ==
    LET held == worker[w].held IN
    /\ worker[w].at = "resuming"
    /\ Bound(held, journal) /\ w \in Current /\ ~ WouldRepeat(held, journal)
    /\ Becomes(w, [Idle EXCEPT !.at = "planned", !.held = held,
                          !.step = NextStep(held.phase)])
    /\ UNCHANGED <<journal, store, performed, unrecorded, crashes, losses>>

\* The checks in their order; the first that fails names the refusal.
Refuse(w) ==
    LET held == worker[w].held
        Refused(why) == Becomes(w, [Idle EXCEPT !.at = "refused", !.held = held,
                                                !.step = why])
    IN
    /\ worker[w].at = "resuming"
    /\ \/ ~ Bound(held, journal) /\ Refused("UNBOUND")
       \/ Bound(held, journal) /\ w \notin Current /\ Refused("AGENT_VERSION_UNAVAILABLE")
       \/ Bound(held, journal) /\ w \in Current /\ WouldRepeat(held, journal)
          /\ Refused("RE_EXECUTE")
    /\ UNCHANGED <<journal, store, performed, unrecorded, crashes, losses>>

\* The worker leaves the operation as it is.
Leave(w) ==
    /\ worker[w].at \in {"planned", "refused"}
    /\ Becomes(w, Idle)
    /\ UNCHANGED <<journal, store, performed, unrecorded, crashes, losses>>

-----------------------------------------------------------------------------
(* Executor.execute: the action, then its record.                            *)

Act(w) ==
    /\ worker[w].at = "planned" /\ worker[w].step = "EXECUTE"
    /\ performed' = performed + 1
    /\ Becomes(w, [worker[w] EXCEPT !.at = "acted"])
    /\ UNCHANGED <<journal, store, unrecorded, crashes, losses>>

Journal(status) == journal' = Append(journal, [status |-> status, life |-> losses])

RecordAction(w) ==
    /\ worker[w].at = "acted"
    /\ Journal("ACTION_EXECUTED")
    /\ Becomes(w, [worker[w] EXCEPT !.at = "recorded"])
    /\ UNCHANGED <<store, performed, unrecorded, crashes, losses>>

\* A collection or a verification, and its record.
CollectOrVerify(w) ==
    /\ worker[w].at = "planned" /\ worker[w].step \in {"COLLECT", "VERIFY"}
    /\ Len(journal) < MaxEvents
    /\ Journal("RECORDED")
    /\ Becomes(w, [worker[w] EXCEPT !.at = "recorded"])
    /\ UNCHANGED <<store, performed, unrecorded, crashes, losses>>

-----------------------------------------------------------------------------
(* advance() over the journal read again, and the store's put().             *)

ReadJournal(w) ==
    /\ worker[w].at = "recorded"
    /\ Becomes(w, [worker[w] EXCEPT !.at = "advancing", !.read = journal])
    /\ UNCHANGED <<journal, store, performed, unrecorded, crashes, losses>>

PhasesAfter(step) ==
    CASE step = "EXECUTE" -> {"ACTION_COMPLETE", "AWAITING_INDEPENDENT_EVIDENCE"}
      [] step = "COLLECT" -> {"AWAITING_INDEPENDENT_EVIDENCE", "VERIFYING"}
      [] step = "VERIFY" -> {"AWAITING_INDEPENDENT_EVIDENCE"} \cup TERMINAL
      [] OTHER -> {}

Advanced(held, phase, events) == Checkpoint(phase, held.version + 1, events)

\* advance() refuses a journal that ends before the checkpoint's position.
Behind(held, events) == Len(events) < Len(held.trail)

\* Variant for the mutation checks: a writer from a later base overwrites.
BuildsOnAny(checkpoint) == checkpoint.version >= store.version

\* put(): the compare-and-set.
BuildsOnStored(checkpoint) == checkpoint.version = store.version + 1

\* What is refused, as behind or as stale, leaves the store as it is.
Put(w) ==
    /\ worker[w].at = "advancing"
    /\ \E phase \in PhasesAfter(worker[w].step) :
          LET next == Advanced(worker[w].held, phase, worker[w].read) IN
          IF ~ Behind(worker[w].held, worker[w].read) /\ BuildsOnStored(next)
          THEN store' = next ELSE UNCHANGED store
    /\ Becomes(w, Idle)
    /\ UNCHANGED <<journal, performed, unrecorded, crashes, losses>>

-----------------------------------------------------------------------------
\* The process of a worker dies, or an exception of the store or the journal
\* ends what it does.
Crash(w) ==
    /\ worker[w].at # "idle"
    /\ crashes < MaxCrashes /\ crashes' = crashes + 1
    /\ unrecorded' = IF worker[w].at = "acted" THEN unrecorded + 1 ELSE unrecorded
    /\ Becomes(w, Idle)
    /\ UNCHANGED <<journal, store, performed, losses>>

\* The tail of the journal is lost; what is appended afterwards hashes otherwise.
LoseTail ==
    /\ losses < MaxLosses /\ losses' = losses + 1
    /\ \E n \in 0..(Len(journal) - 1) : journal' = SubSeq(journal, 1, n)
    /\ UNCHANGED <<store, worker, performed, unrecorded, crashes>>

Next ==
    \/ \E w \in Workers :
          \/ ReadCheckpoint(w) \/ Plan(w) \/ Refuse(w) \/ Leave(w)
          \/ Act(w) \/ RecordAction(w) \/ CollectOrVerify(w)
          \/ ReadJournal(w) \/ Put(w) \/ Crash(w)
    \/ LoseTail

Spec == Init /\ [][Next]_vars

-----------------------------------------------------------------------------
TypeOK ==
    /\ journal \in Trails
    /\ store \in Checkpoints
    /\ worker \in [Workers -> [at : Stages, held : Checkpoints, read : Trails,
                               step : Steps \cup Refusals]]
    /\ performed \in Nat /\ unrecorded \in Nat /\ crashes \in Nat /\ losses \in Nat

\* No worker is sent to collect for or to verify an action that never ran, and
\* none finds the operation finished then: the checkpoint leaves PLANNED only
\* after the action, however many workers, deaths and losses there are.
CollectsOnlyForActions ==
    \A w \in Workers :
       worker[w].at = "planned" /\ worker[w].step # "EXECUTE" => performed > 0

\* "a restart must not repeat the work" (resume.py:8), as far as it holds: every
\* repetition is of a worker that planned before the first record, or follows a
\* death between the action and its record.
RepeatsAreUnrecorded ==
    losses = 0 => performed <= Cardinality(Current) + unrecorded

\* While the journal loses nothing, resume() never calls the trail truncated or
\* replaced, whatever workers append and advance between its two reads; and it
\* refuses nobody for repeating once the checkpoint has left PLANNED.
NoFalseAlarm ==
    losses = 0 =>
       \A w \in Workers : worker[w].at = "refused" =>
          \/ w \notin Current
          \/ worker[w].step = "RE_EXECUTE" /\ worker[w].held.phase = "PLANNED"

\* Of two workers that resumed the same checkpoint one commits: every commit
\* builds on the stored version, never moves the position back, never returns
\* to PLANNED, and never follows a terminal phase.
CheckpointOnlyAdvances ==
    [][store' # store =>
         /\ store'.version = store.version + 1
         /\ Len(store'.trail) >= Len(store.trail)
         /\ store'.phase \notin MAY_EXECUTE
         /\ store.phase \notin TERMINAL]_vars
=============================================================================
